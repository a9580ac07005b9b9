--------------------------- MODULE DiagnosisProofs ---------------------------
(***************************************************************************)
(* What a diagnosis may be trusted for, for any number of files, processes,*)
(* edits and mishaps: the hashes and ledgers of the audit (AuditState),    *)
(* the repairs (AutoHeal), the analyzer's cache of results                 *)
(* (AnalyzerCache), the database its findings are remembered in            *)
(* (DatabaseVault), the validation (TestValidation), the report on         *)
(* technologies (IntelligenceCoverage) and the health score (HealthScore). *)
(***************************************************************************)
EXTENDS AuditState, AutoHeal, AnalyzerCache, DatabaseVault, Reports, HealthScore,
        SequenceTheorems, FiniteSetTheorems, WellFoundedInduction, TLAPS

-----------------------------------------------------------------------------
(* The audit.  A hash is marked as done when its audit ends: the invariant *)
(* says of an audit in progress which of its hashes have been read         *)
(* (HashesRead).  A flaw is on record because an audit of a file that      *)
(* nobody edits reads the text it hashed (TextAsHashed), reports what it   *)
(* read (FlawsFound), and writes a ledger that has, with the one on disk,  *)
(* an entry for each flaw its cache hides (CopiesOnRecord).                *)

\* The hashes an audit is done with have been read.
HashesRead == \A p \in Procs, f \in Files :
    phase[p] = "auditing" /\ changed[p][f] # "none" /\ f \notin todo[p] =>
        changed[p][f] \in audited[f]

\* As long as nobody edits it, a file is what the audit hashed.
TextAsHashed == \A p \in Procs, f \in Files \ excused :
    changed[p][f] # "none" => content[f] = changed[p][f]

\* The flaws an audit has read are among its findings.
FlawsFound == \A p \in Procs, f \in Files \ excused :
    phase[p] = "auditing" /\ changed[p][f] = "flawed" /\ f \notin todo[p] => f \in found[p]

\* A flaw that the cache of a process hides is in its ledger or in the one on disk.
CopiesOnRecord == \A p \in Procs, f \in Files \ excused :
    cache[p][f] = "flawed" => ledger[p][f] # "none" \/ diskLedger[f] # "none"

RecordInv == TextAsHashed /\ FlawsFound /\ CopiesOnRecord /\ HiddenFlawOnRecord

AuditInv == TypeOK /\ HashesRead /\ SkippedWasAudited /\ RecordInv

-----------------------------------------------------------------------------
(* Types.                                                                  *)

\* Nothing, and what the updates make, have their types.
LEMMA NothingTypes == /\ Nothing \in [Files -> Hashes]
                      /\ Nothing \in [Files -> Statuses]
                      /\ \A f \in Files : Nothing[f] = "none"
BY DEF Nothing, Hashes, Statuses

LEMMA UpdateType ==
    ASSUME NEW old \in [Files -> Statuses], NEW files
    PROVE  /\ Update(old, files) \in [Files -> Statuses]
           /\ \A f \in Files : f \in files \/ old[f] # "none" => Update(old, files)[f] # "none"
BY DEF Update, Statuses

LEMMA NewCacheType ==
    ASSUME TypeOK, NEW p \in Procs
    PROVE  /\ NewCache(p) \in [Files -> Hashes]
           /\ \A f \in Files : NewCache(p)[f] = IF changed[p][f] # "none" THEN changed[p][f]
                                                ELSE cache[p][f]
BY DEF NewCache, TypeOK

\* Rest keeps the types.
LEMMA RestTypes ==
    ASSUME TypeOK, NEW p \in Procs, Rest(p)
    PROVE  /\ phase' \in [Procs -> {"down", "idle", "hashing", "auditing"}]
           /\ changed' \in [Procs -> [Files -> Hashes]]
           /\ todo' \in [Procs -> SUBSET Files] /\ found' \in [Procs -> SUBSET Files]
BY NothingTypes DEF Rest, TypeOK

\* An edit keeps the types.
LEMMA EditTypes == ASSUME TypeOK, NEW f \in Files, Edit(f) PROVE TypeOK'
<1>1. content' \in [Files -> Qualities] /\ edits' \in Nat
    BY DEF Edit, TypeOK
<1>2. told' \in [Procs -> BOOLEAN]
    BY DEF Edit, Up
<1>3. backlog' \in [Procs -> SUBSET Files]
    BY AuditAssumption DEF Edit, TypeOK
<1>4. excused' \subseteq Files
    BY DEF Edit, TypeOK
<1> QED
    BY <1>1, <1>2, <1>3, <1>4 DEF Edit, TypeOK, onDisk, copies, audit

\* The steps of an audit keep the types.
LEMMA AuditTypes ==
    ASSUME TypeOK, NEW p \in Procs,
           \/ Boot(p) \/ StartAudit(p) \/ DetectChanges(p) \/ Throw(p) \/ Persist(p)
           \/ \E f \in Files : Hash(p, f) \/ Enrich(p, f)
    PROVE  TypeOK'
<1>1. CASE Boot(p)
    BY <1>1 DEF Boot, TypeOK, onDisk, events, history
<1>2. CASE StartAudit(p)
    BY <1>2 DEF StartAudit, TypeOK, onDisk, copies, events, history
<1>3. CASE DetectChanges(p)
    <2>1. Changed(p) \subseteq Files
        BY DEF Changed
    <2> QED
        BY <1>3, <2>1 DEF DetectChanges, TypeOK, onDisk, copies, events, history
<1>4. CASE Throw(p)
    BY <1>4, RestTypes DEF Throw, TypeOK, onDisk, copies, events, history
<1>5. CASE Persist(p)
    <2>1. cache' \in [Procs -> [Files -> Hashes]] /\ diskCache' \in [Files -> Hashes]
        BY <1>5, NewCacheType DEF Persist, TypeOK
    <2>2. Update(ledger[p], found[p]) \in [Files -> Statuses]
        BY UpdateType DEF TypeOK
    <2>3. ledger' \in [Procs -> [Files -> Statuses]] /\ diskLedger' \in [Files -> Statuses]
        BY <1>5, <2>2 DEF Persist, TypeOK
    <2>4. excused' \subseteq Files
        BY <1>5 DEF Persist, TypeOK, Overwritten
    <2>5. Rest(p) /\ UNCHANGED <<content, told, backlog, audited, edits, mishaps>>
        BY <1>5 DEF Persist, events
    <2> QED
        BY <2>1, <2>3, <2>4, <2>5, RestTypes DEF TypeOK
<1>6. ASSUME NEW f \in Files, Hash(p, f)
      PROVE  TypeOK'
    <2>1. content[f] \in Hashes
        BY DEF TypeOK, Hashes
    <2>2. changed' \in [Procs -> [Files -> Hashes]]
        BY <1>6, <2>1 DEF Hash, TypeOK
    <2> QED
        BY <1>6, <2>2 DEF Hash, TypeOK, onDisk, copies, events, history
<1>7. ASSUME NEW f \in Files, Enrich(p, f)
      PROVE  TypeOK'
    <2>1. changed[p][f] \in Hashes
        BY DEF TypeOK
    <2>2. audited' \in [Files -> SUBSET Hashes]
        BY <1>7, <2>1 DEF Enrich, TypeOK
    <2>3. found \in [Procs -> SUBSET Files]
        BY DEF TypeOK
    <2>4. \/ found' = IF content[f] = "flawed" THEN [found EXCEPT ![p] = @ \cup {f}] ELSE found
          \/ found' = found
        BY <1>7 DEF Enrich
    <2>5. found' \in [Procs -> SUBSET Files]
        BY <2>3, <2>4
    <2>6. found' \in [Procs -> SUBSET Files] /\ todo' \in [Procs -> SUBSET Files]
        BY <1>7, <2>5 DEF Enrich, TypeOK
    <2>7. excused' \subseteq Files /\ mishaps' \in Nat
        BY <1>7 DEF Enrich, TypeOK
    <2> QED
        BY <1>7, <2>2, <2>6, <2>7 DEF Enrich, TypeOK, onDisk, copies, events
<1> QED
    BY <1>1, <1>2, <1>3, <1>4, <1>5, <1>6, <1>7

\* The other steps of a process keep the types.
LEMMA OtherTypes ==
    ASSUME TypeOK, NEW p \in Procs,
           \/ ValidateRepair(p) \/ ProcessDies(p) \/ SaveCache(p)
           \/ \E f \in Files : CheckParity(p, f)
    PROVE  TypeOK'
<1>1. CASE ValidateRepair(p)
    <2>1. Update(ledger[p], {}) \in [Files -> Statuses]
        BY UpdateType DEF TypeOK
    <2>2. ledger' \in [Procs -> [Files -> Statuses]] /\ diskLedger' \in [Files -> Statuses]
        BY <1>1, <2>1 DEF ValidateRepair, TypeOK
    <2>3. excused' \subseteq Files /\ diskCache' \in [Files -> Hashes]
        BY <1>1 DEF ValidateRepair, TypeOK, Overwritten
    <2> QED
        BY <1>1, <2>2, <2>3 DEF ValidateRepair, TypeOK, audit, events
<1>2. CASE ProcessDies(p)
    <2>1. /\ phase' \in [Procs -> {"down", "idle", "hashing", "auditing"}] /\ mishaps' \in Nat
          /\ cache' \in [Procs -> [Files -> Hashes]] /\ ledger' \in [Procs -> [Files -> Statuses]]
          /\ changed' \in [Procs -> [Files -> Hashes]]
        BY <1>2, NothingTypes DEF ProcessDies, TypeOK
    <2>2. /\ todo' \in [Procs -> SUBSET Files] /\ found' \in [Procs -> SUBSET Files]
          /\ told' \in [Procs -> BOOLEAN] /\ backlog' \in [Procs -> SUBSET Files]
        BY <1>2 DEF ProcessDies, TypeOK
    <2>3. /\ diskCache' \in [Files -> Hashes] /\ diskLedger' \in [Files -> Statuses]
          /\ excused' \subseteq Files
        BY <1>2, NothingTypes, NewCacheType DEF ProcessDies, TypeOK, onDisk
    <2> QED
        BY <1>2, <2>1, <2>2, <2>3 DEF ProcessDies, TypeOK
<1>3. CASE SaveCache(p)
    BY <1>3 DEF SaveCache, TypeOK, copies, audit
<1>4. ASSUME NEW f \in Files, CheckParity(p, f)
      PROVE  TypeOK'
    <2>1. backlog' \in [Procs -> SUBSET Files]
        BY <1>4 DEF CheckParity, TypeOK
    <2>2. [ledger[p] EXCEPT ![f] = "DISPARITY"] \in [Files -> Statuses]
        BY DEF TypeOK, Statuses
    <2>3. ledger' \in [Procs -> [Files -> Statuses]]
        BY ZenonT(60), <1>4, <2>2 DEF CheckParity, TypeOK
    <2>4. diskLedger' \in [Files -> Statuses]
        BY <1>4, <2>3 DEF CheckParity, TypeOK
    <2>5. excused' \subseteq Files
        BY <1>4 DEF CheckParity, TypeOK, Overwritten
    <2> QED
        BY <1>4, <2>1, <2>3, <2>4, <2>5 DEF CheckParity, TypeOK, audit
<1> QED
    BY <1>1, <1>2, <1>3, <1>4

-----------------------------------------------------------------------------
(* What leaves what alone.                                                 *)

\* The audits of a process go on as they were, or are over.
LEMMA AuditsAlone ==
    ASSUME HashesRead, TextAsHashed, FlawsFound,
           content' = content, excused \subseteq excused', audited' = audited,
           \A p \in Procs :
              \/ /\ phase'[p] = phase[p] /\ changed'[p] = changed[p]
                 /\ todo'[p] = todo[p] /\ found'[p] = found[p]
              \/ phase'[p] # "auditing" /\ changed'[p] \in {changed[p], Nothing}
    PROVE  HashesRead' /\ TextAsHashed' /\ FlawsFound'
<1>1. \A f \in Files : Nothing[f] = "none"
    BY NothingTypes
<1>2. HashesRead'
    BY DEF HashesRead
<1>3. TextAsHashed'
    <2> SUFFICES ASSUME NEW p \in Procs, NEW f \in Files \ excused', changed'[p][f] # "none"
                 PROVE  content'[f] = changed'[p][f]
        BY DEF TextAsHashed
    <2>1. changed'[p] = changed[p]
        BY <1>1
    <2> QED
        BY <2>1 DEF TextAsHashed
<1>4. FlawsFound'
    <2> SUFFICES ASSUME NEW p \in Procs, NEW f \in Files \ excused', phase'[p] = "auditing",
                        changed'[p][f] = "flawed", f \notin todo'[p]
                 PROVE  f \in found'[p]
        BY DEF FlawsFound
    <2> QED
        BY DEF FlawsFound
<1> QED
    BY <1>2, <1>3, <1>4

\* The files and their copies stay.
LEMMA CopiesAlone ==
    ASSUME UNCHANGED <<diskCache, diskLedger, cache, ledger>>,
           excused \subseteq excused', \A f \in Files : audited[f] \subseteq audited'[f],
           SkippedWasAudited, CopiesOnRecord, HiddenFlawOnRecord
    PROVE  SkippedWasAudited' /\ CopiesOnRecord' /\ HiddenFlawOnRecord'
<1>1. SkippedWasAudited'
    BY DEF SkippedWasAudited
<1>2. CopiesOnRecord'
    BY DEF CopiesOnRecord
<1>3. HiddenFlawOnRecord'
    BY DEF HiddenFlawOnRecord
<1> QED
    BY <1>1, <1>2, <1>3

\* Hashes come from where they were.
LEMMA HashesMoved ==
    ASSUME SkippedWasAudited, audited' = audited,
           \A f \in Files : diskCache'[f] \in {"none", diskCache[f]}
                            \/ \E p \in Procs : diskCache'[f] = cache[p][f],
           \A p \in Procs, f \in Files : cache'[p][f] \in {"none", diskCache[f], cache[p][f]}
    PROVE  SkippedWasAudited'
BY DEF SkippedWasAudited

\* What an audit that is done adds to the cache has been read.
LEMMA NewCacheRead ==
    ASSUME TypeOK, HashesRead, SkippedWasAudited, NEW p \in Procs, Done(p), NEW f \in Files
    PROVE  NewCache(p)[f] # "none" => NewCache(p)[f] \in audited[f]
<1>1. phase[p] = "auditing" /\ f \notin todo[p]
    BY DEF Done
<1> QED
    BY <1>1, NewCacheType DEF HashesRead, SkippedWasAudited

-----------------------------------------------------------------------------
(* The steps.                                                              *)

\* An edit excuses the file for the audits that have hashed it.
LEMMA EditKeeps == ASSUME AuditInv, NEW f \in Files, Edit(f) PROVE AuditInv'
<1>0. /\ TypeOK /\ HashesRead /\ SkippedWasAudited /\ TextAsHashed /\ FlawsFound
      /\ CopiesOnRecord /\ HiddenFlawOnRecord
    BY DEF AuditInv, RecordInv
<1>1. TypeOK'
    BY <1>0, EditTypes
<1>2. /\ UNCHANGED <<diskCache, diskLedger, cache, ledger, phase, changed, todo, found, audited>>
      /\ excused \subseteq excused'
    BY DEF Edit, onDisk, copies, audit
<1>3. SkippedWasAudited' /\ CopiesOnRecord' /\ HiddenFlawOnRecord'
    BY <1>0, <1>2, CopiesAlone
<1>4. HashesRead'
    BY <1>0, <1>2 DEF HashesRead
<1>5. FlawsFound'
    BY <1>0, <1>2 DEF FlawsFound
<1>6. TextAsHashed'
    <2> SUFFICES ASSUME NEW p \in Procs, NEW g \in Files \ excused', changed'[p][g] # "none"
                 PROVE  content'[g] = changed'[p][g]
        BY DEF TextAsHashed
    <2>1. g \in Changed(p)
        BY <1>2 DEF Changed
    <2>2. g # f
        BY <2>1 DEF Edit
    <2>3. content'[g] = content[g]
        BY <1>0, <2>2 DEF Edit, TypeOK
    <2> QED
        BY <1>0, <1>2, <2>3 DEF TextAsHashed
<1> QED
    BY <1>1, <1>3, <1>4, <1>5, <1>6 DEF AuditInv, RecordInv

\* Hashing a file takes its text as it is.
LEMMA HashKeeps ==
    ASSUME AuditInv, NEW p \in Procs, NEW f \in Files, Hash(p, f)
    PROVE  AuditInv'
<1>0. /\ TypeOK /\ HashesRead /\ SkippedWasAudited /\ TextAsHashed /\ FlawsFound
      /\ CopiesOnRecord /\ HiddenFlawOnRecord
    BY DEF AuditInv, RecordInv
<1>1. TypeOK'
    BY <1>0, AuditTypes
<1>2. /\ UNCHANGED <<diskCache, diskLedger, cache, ledger, phase, found, audited, content, excused>>
      /\ phase[p] = "hashing"
    BY DEF Hash, onDisk, copies, history
<1>3. SkippedWasAudited' /\ CopiesOnRecord' /\ HiddenFlawOnRecord'
    BY <1>0, <1>2, CopiesAlone
<1>4. \A q \in Procs \ {p} : changed'[q] = changed[q] /\ todo'[q] = todo[q]
    BY <1>0 DEF Hash, TypeOK
<1>5. \A g \in Files : changed'[p][g] = changed[p][g] \/ changed'[p][g] = content[g]
    BY <1>0 DEF Hash, TypeOK
<1>6. HashesRead'
    BY <1>0, <1>2, <1>4 DEF HashesRead
<1>7. FlawsFound'
    BY <1>0, <1>2, <1>4 DEF FlawsFound
<1>8. TextAsHashed'
    <2> SUFFICES ASSUME NEW q \in Procs, NEW g \in Files \ excused', changed'[q][g] # "none"
                 PROVE  content'[g] = changed'[q][g]
        BY DEF TextAsHashed
    <2>1. CASE q = p
        BY <1>0, <1>2, <1>5, <2>1 DEF TextAsHashed
    <2>2. CASE q # p
        BY <1>0, <1>2, <1>4, <2>2 DEF TextAsHashed
    <2> QED
        BY <2>1, <2>2
<1> QED
    BY <1>1, <1>3, <1>6, <1>7, <1>8 DEF AuditInv, RecordInv

\* An audit begins with none of its files read.
LEMMA DetectKeeps ==
    ASSUME AuditInv, NEW p \in Procs, DetectChanges(p)
    PROVE  AuditInv'
<1>0. /\ TypeOK /\ HashesRead /\ SkippedWasAudited /\ TextAsHashed /\ FlawsFound
      /\ CopiesOnRecord /\ HiddenFlawOnRecord
    BY DEF AuditInv, RecordInv
<1>1. TypeOK'
    BY <1>0, AuditTypes
<1>2. UNCHANGED <<diskCache, diskLedger, cache, ledger, changed, found, audited, content, excused>>
    BY DEF DetectChanges, onDisk, copies, history
<1>3. SkippedWasAudited' /\ CopiesOnRecord' /\ HiddenFlawOnRecord'
    BY <1>0, <1>2, CopiesAlone
<1>4. /\ todo'[p] = Changed(p)
      /\ \A q \in Procs \ {p} : phase'[q] = phase[q] /\ todo'[q] = todo[q]
    BY <1>0 DEF DetectChanges, TypeOK
<1>5. \A g \in Files : changed'[p][g] # "none" => g \in todo'[p]
    BY <1>2, <1>4 DEF Changed
<1>6. HashesRead'
    BY <1>0, <1>2, <1>4, <1>5 DEF HashesRead
<1>7. FlawsFound'
    BY <1>0, <1>2, <1>4, <1>5 DEF FlawsFound
<1>8. TextAsHashed'
    BY <1>0, <1>2 DEF TextAsHashed
<1> QED
    BY <1>1, <1>3, <1>6, <1>7, <1>8 DEF AuditInv, RecordInv

\* Coming to a file notes its hash, and its flaw if it has one and is answered for.
LEMMA EnrichKeeps ==
    ASSUME AuditInv, NEW p \in Procs, NEW f \in Files, Enrich(p, f)
    PROVE  AuditInv'
<1>0. /\ TypeOK /\ HashesRead /\ SkippedWasAudited /\ TextAsHashed /\ FlawsFound
      /\ CopiesOnRecord /\ HiddenFlawOnRecord
    BY DEF AuditInv, RecordInv
<1>1. TypeOK'
    BY <1>0, AuditTypes
<1>2. /\ UNCHANGED <<diskCache, diskLedger, cache, ledger, phase, changed, content>>
      /\ excused \subseteq excused'
    BY DEF Enrich, onDisk, copies
<1>3. /\ \A g \in Files : audited[g] \subseteq audited'[g]
      /\ changed[p][f] \in audited'[f]
    BY <1>0 DEF Enrich, TypeOK
<1>4. SkippedWasAudited' /\ CopiesOnRecord' /\ HiddenFlawOnRecord'
    BY <1>0, <1>2, <1>3, CopiesAlone
<1>5. /\ \A q \in Procs \ {p} : todo'[q] = todo[q]
      /\ \A g \in Files \ {f} : g \in todo[p] => g \in todo'[p]
    BY <1>0 DEF Enrich, TypeOK
<1>6. /\ \A q \in Procs : found[q] \subseteq found'[q]
      /\ content[f] = "flawed" => f \in found'[p] \cup excused'
    <2>1. \/ /\ found' = IF content[f] = "flawed" THEN [found EXCEPT ![p] = @ \cup {f}] ELSE found
             /\ excused' = excused
          \/ found' = found /\ excused' = excused \cup {f}
        BY DEF Enrich
    <2>2. found \in [Procs -> SUBSET Files]
        BY <1>0 DEF TypeOK
    <2> QED
        BY <2>1, <2>2
<1>7. HashesRead'
    <2> SUFFICES ASSUME NEW q \in Procs, NEW g \in Files, phase'[q] = "auditing",
                        changed'[q][g] # "none", g \notin todo'[q]
                 PROVE  changed'[q][g] \in audited'[g]
        BY DEF HashesRead
    <2>1. CASE q = p /\ g = f
        BY <1>2, <1>3, <2>1
    <2>2. CASE ~(q = p /\ g = f)
        <3>1. g \notin todo[q]
            BY <1>5, <2>2
        <3> QED
            BY <1>0, <1>2, <1>3, <3>1 DEF HashesRead
    <2> QED
        BY <2>1, <2>2
<1>8. FlawsFound'
    <2> SUFFICES ASSUME NEW q \in Procs, NEW g \in Files \ excused', phase'[q] = "auditing",
                        changed'[q][g] = "flawed", g \notin todo'[q]
                 PROVE  g \in found'[q]
        BY DEF FlawsFound
    <2>1. CASE q = p /\ g = f
        <3>1. content[f] = "flawed"
            BY <1>0, <1>2, <2>1 DEF TextAsHashed
        <3> QED
            BY <1>6, <2>1, <3>1
    <2>2. CASE ~(q = p /\ g = f)
        <3>1. g \notin todo[q]
            BY <1>5, <2>2
        <3> QED
            BY <1>0, <1>2, <1>6, <3>1 DEF FlawsFound
    <2> QED
        BY <2>1, <2>2
<1>9. TextAsHashed'
    BY <1>0, <1>2 DEF TextAsHashed
<1> QED
    BY <1>1, <1>4, <1>7, <1>8, <1>9 DEF AuditInv, RecordInv

\* An audit that starts or throws persists nothing.
LEMMA StartAndThrowKeep ==
    ASSUME AuditInv, NEW p \in Procs, StartAudit(p) \/ Throw(p)
    PROVE  AuditInv'
<1>0. /\ TypeOK /\ HashesRead /\ SkippedWasAudited /\ TextAsHashed /\ FlawsFound
      /\ CopiesOnRecord /\ HiddenFlawOnRecord
    BY DEF AuditInv, RecordInv
<1>1. TypeOK'
    BY <1>0, AuditTypes
<1>2. UNCHANGED <<content, diskCache, diskLedger, cache, ledger, audited, excused>>
    BY DEF StartAudit, Throw, onDisk, copies, history
<1>3. SkippedWasAudited' /\ CopiesOnRecord' /\ HiddenFlawOnRecord'
    BY <1>0, <1>2, CopiesAlone
<1>4. \A q \in Procs :
        \/ /\ phase'[q] = phase[q] /\ changed'[q] = changed[q]
           /\ todo'[q] = todo[q] /\ found'[q] = found[q]
        \/ phase'[q] # "auditing" /\ changed'[q] \in {changed[q], Nothing}
    BY <1>0 DEF StartAudit, Throw, Rest, TypeOK
<1>5. HashesRead' /\ TextAsHashed' /\ FlawsFound'
    BY <1>0, <1>2, <1>4, AuditsAlone
<1> QED
    BY <1>1, <1>3, <1>5 DEF AuditInv, RecordInv

\* A process starts from the files as they are.
LEMMA BootKeeps ==
    ASSUME AuditInv, NEW p \in Procs, Boot(p)
    PROVE  AuditInv'
<1>0. /\ TypeOK /\ HashesRead /\ SkippedWasAudited /\ TextAsHashed /\ FlawsFound
      /\ CopiesOnRecord /\ HiddenFlawOnRecord
    BY DEF AuditInv, RecordInv
<1>1. TypeOK'
    BY <1>0, AuditTypes
<1>2. UNCHANGED <<content, diskCache, diskLedger, audited, excused>>
    BY DEF Boot, onDisk, history
<1>3. /\ cache'[p] = diskCache /\ ledger'[p] = diskLedger
      /\ \A q \in Procs \ {p} : cache'[q] = cache[q] /\ ledger'[q] = ledger[q]
    BY <1>0 DEF Boot, TypeOK
<1>4. \A q \in Procs :
        \/ /\ phase'[q] = phase[q] /\ changed'[q] = changed[q]
           /\ todo'[q] = todo[q] /\ found'[q] = found[q]
        \/ phase'[q] # "auditing" /\ changed'[q] \in {changed[q], Nothing}
    BY <1>0 DEF Boot, TypeOK
<1>5. HashesRead' /\ TextAsHashed' /\ FlawsFound'
    BY <1>0, <1>2, <1>4, AuditsAlone
<1>6. \A q \in Procs, f \in Files : cache'[q][f] \in {"none", diskCache[f], cache[q][f]}
    BY <1>3
<1>7. SkippedWasAudited'
    BY <1>0, <1>2, <1>6, HashesMoved
<1>8. CopiesOnRecord'
    BY <1>0, <1>2, <1>3 DEF CopiesOnRecord, HiddenFlawOnRecord
<1>9. HiddenFlawOnRecord'
    BY <1>0, <1>2 DEF HiddenFlawOnRecord
<1> QED
    BY <1>1, <1>5, <1>7, <1>8, <1>9 DEF AuditInv, RecordInv

\* A process that writes its ledger whole, with an entry for whatever it had one:
\* what another had put there is excused, so whatever a copy hides stays on record.
LEMMA LedgerReplaced ==
    ASSUME TypeOK, NEW p \in Procs,
           diskLedger' = ledger'[p], \A q \in Procs \ {p} : ledger'[q] = ledger[q],
           \A f \in Files : ledger[p][f] # "none" => ledger'[p][f] # "none",
           excused \subseteq excused', Overwritten(p) \subseteq excused'
    PROVE  \A f \in Files \ excused' :
             /\ diskLedger[f] # "none" => diskLedger'[f] # "none"
             /\ \A q \in Procs : ledger[q][f] # "none" => ledger'[q][f] # "none"
<1>1. ASSUME NEW f \in Files \ excused', diskLedger[f] # "none"
      PROVE  diskLedger'[f] # "none"
    <2>1. f \notin Overwritten(p)
        OBVIOUS
    <2>2. ledger[p][f] # "none"
        BY <1>1, <2>1 DEF Overwritten
    <2> QED
        BY <2>2
<1>2. ASSUME NEW f \in Files \ excused', NEW q \in Procs, ledger[q][f] # "none"
      PROVE  ledger'[q][f] # "none"
    BY <1>2
<1> QED
    BY <1>1, <1>2

\* The end of an audit: both copies, then both files.
LEMMA PersistKeeps ==
    ASSUME AuditInv, NEW p \in Procs, Persist(p)
    PROVE  AuditInv'
<1>0. /\ TypeOK /\ HashesRead /\ SkippedWasAudited /\ TextAsHashed /\ FlawsFound
      /\ CopiesOnRecord /\ HiddenFlawOnRecord
    BY DEF AuditInv, RecordInv
<1>1. TypeOK'
    BY <1>0, AuditTypes
<1>2. /\ Done(p) /\ content' = content /\ audited' = audited
      /\ excused \subseteq excused' /\ Overwritten(p) \subseteq excused'
    BY DEF Persist
<1>3. /\ cache'[p] = NewCache(p) /\ diskCache' = NewCache(p)
      /\ ledger'[p] = Update(ledger[p], found[p]) /\ diskLedger' = ledger'[p]
      /\ \A q \in Procs \ {p} : cache'[q] = cache[q] /\ ledger'[q] = ledger[q]
    BY <1>0 DEF Persist, TypeOK
<1>4. \A q \in Procs :
        \/ /\ phase'[q] = phase[q] /\ changed'[q] = changed[q]
           /\ todo'[q] = todo[q] /\ found'[q] = found[q]
        \/ phase'[q] # "auditing" /\ changed'[q] \in {changed[q], Nothing}
    BY <1>0 DEF Persist, Rest, TypeOK
<1>5. HashesRead' /\ TextAsHashed' /\ FlawsFound'
    BY <1>0, <1>2, <1>4, AuditsAlone
<1>6. \A f \in Files : NewCache(p)[f] # "none" => NewCache(p)[f] \in audited[f]
    BY <1>0, <1>2, NewCacheRead
<1>7. SkippedWasAudited'
    BY <1>0, <1>2, <1>3, <1>6 DEF SkippedWasAudited
<1>8. ledger[p] \in [Files -> Statuses]
    BY <1>0 DEF TypeOK
<1>9. \A f \in Files : f \in found[p] \/ ledger[p][f] # "none" => ledger'[p][f] # "none"
    BY <1>3, <1>8, UpdateType
<1>10. \A f \in Files \ excused' :
         /\ diskLedger[f] # "none" => diskLedger'[f] # "none"
         /\ \A q \in Procs : ledger[q][f] # "none" => ledger'[q][f] # "none"
    BY <1>0, <1>2, <1>3, <1>9, LedgerReplaced
<1>11. ASSUME NEW f \in Files \ excused', NewCache(p)[f] = "flawed"
       PROVE  diskLedger'[f] # "none"
    <2>1. CASE changed[p][f] # "none"
        <3>1. changed[p][f] = "flawed"
            BY <1>0, <1>11, <2>1, NewCacheType
        <3>2. f \in found[p]
            BY <1>0, <1>2, <3>1 DEF Done, FlawsFound
        <3> QED
            BY <1>3, <1>9, <3>2
    <2>2. CASE changed[p][f] = "none"
        <3>1. cache[p][f] = "flawed"
            BY <1>0, <1>11, <2>2, NewCacheType
        <3>2. ledger[p][f] # "none" \/ diskLedger[f] # "none"
            BY <1>0, <1>2, <3>1 DEF CopiesOnRecord
        <3> QED
            BY <1>3, <1>10, <3>2
    <2> QED
        BY <2>1, <2>2
<1>12. HiddenFlawOnRecord'
    BY <1>3, <1>11 DEF HiddenFlawOnRecord
<1>13. CopiesOnRecord'
    <2> SUFFICES ASSUME NEW q \in Procs, NEW f \in Files \ excused', cache'[q][f] = "flawed"
                 PROVE  ledger'[q][f] # "none" \/ diskLedger'[f] # "none"
        BY DEF CopiesOnRecord
    <2>1. CASE q = p
        BY <1>3, <1>11, <2>1
    <2>2. CASE q # p
        <3>1. cache[q][f] = "flawed"
            BY <1>3, <2>2
        <3>2. ledger[q][f] # "none" \/ diskLedger[f] # "none"
            BY <1>0, <1>2, <3>1 DEF CopiesOnRecord
        <3> QED
            BY <1>10, <3>2
    <2> QED
        BY <2>1, <2>2
<1> QED
    BY <1>1, <1>5, <1>7, <1>12, <1>13 DEF AuditInv, RecordInv

\* The audit that validates a repair writes both files without having read any.
LEMMA ValidateKeeps ==
    ASSUME AuditInv, NEW p \in Procs, ValidateRepair(p)
    PROVE  AuditInv'
<1>0. /\ TypeOK /\ HashesRead /\ SkippedWasAudited /\ TextAsHashed /\ FlawsFound
      /\ CopiesOnRecord /\ HiddenFlawOnRecord
    BY DEF AuditInv, RecordInv
<1>1. TypeOK'
    BY <1>0, OtherTypes
<1>2. /\ UNCHANGED <<content, audited, cache, phase, changed, todo, found>>
      /\ excused \subseteq excused' /\ Overwritten(p) \subseteq excused'
    BY DEF ValidateRepair, audit
<1>3. /\ ledger'[p] = Update(ledger[p], {}) /\ diskLedger' = ledger'[p] /\ diskCache' = cache[p]
      /\ \A q \in Procs \ {p} : ledger'[q] = ledger[q]
    BY <1>0 DEF ValidateRepair, TypeOK
<1>4. HashesRead' /\ TextAsHashed' /\ FlawsFound'
    BY <1>0, <1>2, AuditsAlone
<1>5. SkippedWasAudited'
    BY <1>0, <1>2, <1>3 DEF SkippedWasAudited
<1>6. ledger[p] \in [Files -> Statuses]
    BY <1>0 DEF TypeOK
<1>7. \A f \in Files : ledger[p][f] # "none" => ledger'[p][f] # "none"
    BY <1>3, <1>6, UpdateType
<1>8. \A f \in Files \ excused' :
         /\ diskLedger[f] # "none" => diskLedger'[f] # "none"
         /\ \A q \in Procs : ledger[q][f] # "none" => ledger'[q][f] # "none"
    BY <1>0, <1>2, <1>3, <1>7, LedgerReplaced
<1>9. CopiesOnRecord'
    BY <1>0, <1>2, <1>8 DEF CopiesOnRecord
<1>10. HiddenFlawOnRecord'
    <2> SUFFICES ASSUME NEW f \in Files \ excused', cache[p][f] = "flawed"
                 PROVE  diskLedger'[f] # "none"
        BY <1>3 DEF HiddenFlawOnRecord
    <2>1. ledger[p][f] # "none" \/ diskLedger[f] # "none"
        BY <1>0, <1>2 DEF CopiesOnRecord
    <2> QED
        BY <1>3, <1>8, <2>1
<1> QED
    BY <1>1, <1>4, <1>5, <1>9, <1>10 DEF AuditInv, RecordInv

\* A file event writes the cache a process has in memory.
LEMMA SaveCacheKeeps ==
    ASSUME AuditInv, NEW p \in Procs, SaveCache(p)
    PROVE  AuditInv'
<1>0. /\ TypeOK /\ HashesRead /\ SkippedWasAudited /\ TextAsHashed /\ FlawsFound
      /\ CopiesOnRecord /\ HiddenFlawOnRecord
    BY DEF AuditInv, RecordInv
<1>1. TypeOK'
    BY <1>0, OtherTypes
<1>2. /\ UNCHANGED <<content, audited, cache, ledger, diskLedger, phase, changed, todo, found>>
      /\ excused \subseteq excused' /\ diskCache' = cache[p]
    BY DEF SaveCache, copies, audit
<1>3. HashesRead' /\ TextAsHashed' /\ FlawsFound'
    BY <1>0, <1>2, AuditsAlone
<1>4. SkippedWasAudited'
    BY <1>0, <1>2 DEF SkippedWasAudited
<1>5. CopiesOnRecord'
    BY <1>0, <1>2 DEF CopiesOnRecord
<1>6. HiddenFlawOnRecord'
    BY <1>2 DEF HiddenFlawOnRecord, SaveCache
<1> QED
    BY <1>1, <1>3, <1>4, <1>5, <1>6 DEF AuditInv, RecordInv

\* A disparity writes the ledger of a process.
LEMMA ParityKeeps ==
    ASSUME AuditInv, NEW p \in Procs, NEW g \in Files, CheckParity(p, g)
    PROVE  AuditInv'
<1>0. /\ TypeOK /\ HashesRead /\ SkippedWasAudited /\ TextAsHashed /\ FlawsFound
      /\ CopiesOnRecord /\ HiddenFlawOnRecord
    BY DEF AuditInv, RecordInv
<1>1. TypeOK'
    BY <1>0, OtherTypes
<1>2. UNCHANGED <<content, audited, cache, diskCache, phase, changed, todo, found>>
    BY DEF CheckParity, audit
<1>3. CASE UNCHANGED <<ledger, diskLedger, excused>>
    <2>1. HashesRead' /\ TextAsHashed' /\ FlawsFound'
        BY <1>0, <1>2, <1>3, AuditsAlone
    <2>2. SkippedWasAudited' /\ CopiesOnRecord' /\ HiddenFlawOnRecord'
        BY <1>0, <1>2, <1>3, CopiesAlone
    <2> QED
        BY <1>1, <2>1, <2>2 DEF AuditInv, RecordInv
<1>4. CASE /\ ledger' = [ledger EXCEPT ![p][g] = "DISPARITY"]
           /\ diskLedger' = ledger'[p]
           /\ excused' = excused \cup Overwritten(p)
    <2>1. HashesRead' /\ TextAsHashed' /\ FlawsFound'
        BY <1>0, <1>2, <1>4, AuditsAlone
    <2>2. SkippedWasAudited'
        BY <1>0, <1>2 DEF SkippedWasAudited
    <2>3. /\ \A q \in Procs \ {p} : ledger'[q] = ledger[q]
          /\ \A f \in Files : ledger[p][f] # "none" => ledger'[p][f] # "none"
        BY <1>0, <1>4 DEF TypeOK
    <2>4. \A f \in Files \ excused' :
             /\ diskLedger[f] # "none" => diskLedger'[f] # "none"
             /\ \A q \in Procs : ledger[q][f] # "none" => ledger'[q][f] # "none"
        BY <1>0, <1>4, <2>3, LedgerReplaced
    <2>5. CopiesOnRecord'
        BY <1>0, <1>2, <1>4, <2>4 DEF CopiesOnRecord
    <2>6. HiddenFlawOnRecord'
        BY <1>0, <1>2, <1>4, <2>4 DEF HiddenFlawOnRecord
    <2> QED
        BY <1>1, <2>1, <2>2, <2>5, <2>6 DEF AuditInv, RecordInv
<1> QED
    BY <1>3, <1>4 DEF CheckParity

\* A process ends, also in or between its writes.
LEMMA DieKeeps ==
    ASSUME AuditInv, NEW p \in Procs, ProcessDies(p)
    PROVE  AuditInv'
<1>0. /\ TypeOK /\ HashesRead /\ SkippedWasAudited /\ TextAsHashed /\ FlawsFound
      /\ CopiesOnRecord /\ HiddenFlawOnRecord
    BY DEF AuditInv, RecordInv
<1>1. TypeOK'
    BY <1>0, OtherTypes
<1>2. /\ content' = content /\ audited' = audited
      /\ phase' = [phase EXCEPT ![p] = "down"] /\ changed' = [changed EXCEPT ![p] = Nothing]
      /\ todo' = [todo EXCEPT ![p] = {}] /\ found' = [found EXCEPT ![p] = {}]
      /\ cache' = [cache EXCEPT ![p] = Nothing] /\ ledger' = [ledger EXCEPT ![p] = Nothing]
    BY DEF ProcessDies
<1>3. excused \subseteq excused'
    BY <1>0 DEF ProcessDies, TypeOK
<1>4. \A q \in Procs :
        \/ /\ phase'[q] = phase[q] /\ changed'[q] = changed[q]
           /\ todo'[q] = todo[q] /\ found'[q] = found[q]
        \/ phase'[q] # "auditing" /\ changed'[q] \in {changed[q], Nothing}
    BY <1>0, <1>2 DEF TypeOK
<1>5. HashesRead' /\ TextAsHashed' /\ FlawsFound'
    BY <1>0, <1>2, <1>3, <1>4, AuditsAlone
<1>6. /\ \A q \in Procs \ {p} : cache'[q] = cache[q] /\ ledger'[q] = ledger[q]
      /\ \A f \in Files : cache'[p][f] = "none"
    BY <1>0, <1>2, NothingTypes DEF TypeOK
<1>7. \A f \in Files : diskCache'[f] # "none" => diskCache'[f] \in audited[f]
    <2>1. \/ diskCache' \in {diskCache, Nothing}
          \/ Done(p) /\ diskCache' = NewCache(p)
        BY DEF ProcessDies, onDisk
    <2> QED
        BY <1>0, <2>1, NewCacheRead, NothingTypes DEF SkippedWasAudited
<1>8. SkippedWasAudited'
    BY <1>0, <1>2, <1>6, <1>7 DEF SkippedWasAudited
<1>9. \/ excused' = Files
      \/ diskLedger' = diskLedger /\ diskCache' \in {diskCache, Nothing}
    BY DEF ProcessDies, onDisk
<1>10. CopiesOnRecord'
    BY <1>0, <1>3, <1>6, <1>9 DEF CopiesOnRecord
<1>11. HiddenFlawOnRecord'
    BY <1>0, <1>3, <1>9, NothingTypes DEF HiddenFlawOnRecord
<1> QED
    BY <1>1, <1>5, <1>8, <1>10, <1>11 DEF AuditInv, RecordInv

-----------------------------------------------------------------------------
(* The theorems.                                                           *)

\* Nothing is stored, and nothing is running, at the start.
LEMMA AuditInitially == Init => AuditInv
<1> SUFFICES ASSUME Init PROVE AuditInv
    OBVIOUS
<1>1. TypeOK
    BY NothingTypes DEF Init, TypeOK
<1>2. /\ \A p \in Procs, f \in Files : cache[p][f] = "none" /\ changed[p][f] = "none"
      /\ \A f \in Files : diskCache[f] = "none"
    BY NothingTypes DEF Init
<1> QED
    BY <1>1, <1>2 DEF AuditInv, RecordInv, HashesRead, SkippedWasAudited, TextAsHashed,
                      FlawsFound, CopiesOnRecord, HiddenFlawOnRecord

\* Every step keeps the invariant.
LEMMA AuditKeeps == AuditInv /\ [Next]_vars => AuditInv'
<1> SUFFICES ASSUME AuditInv, [Next]_vars PROVE AuditInv'
    OBVIOUS
<1>1. ASSUME NEW f \in Files, Edit(f) PROVE AuditInv'
    BY <1>1, EditKeeps
<1>2. ASSUME NEW p \in Procs, NEW f \in Files, Hash(p, f) PROVE AuditInv'
    BY <1>2, HashKeeps
<1>3. ASSUME NEW p \in Procs, NEW f \in Files, Enrich(p, f) PROVE AuditInv'
    BY <1>3, EnrichKeeps
<1>4. ASSUME NEW p \in Procs, NEW f \in Files, CheckParity(p, f) PROVE AuditInv'
    BY <1>4, ParityKeeps
<1>5. ASSUME NEW p \in Procs,
             \/ Boot(p) \/ StartAudit(p) \/ DetectChanges(p) \/ Throw(p) \/ Persist(p)
             \/ ValidateRepair(p) \/ ProcessDies(p) \/ SaveCache(p)
      PROVE  AuditInv'
    BY <1>5, BootKeeps, StartAndThrowKeep, DetectKeeps, PersistKeeps, ValidateKeeps, DieKeeps,
       SaveCacheKeeps
<1>6. CASE UNCHANGED vars
    BY <1>6 DEF vars, onDisk, copies, audit, events, history, AuditInv, RecordInv, TypeOK,
                HashesRead, SkippedWasAudited, TextAsHashed, FlawsFound, CopiesOnRecord,
                HiddenFlawOnRecord
<1> QED
    BY <1>1, <1>2, <1>3, <1>4, <1>5, <1>6 DEF Next

\* The variables keep their types.
THEOREM TypeCorrect == Spec => []TypeOK
<1>1. AuditInv => TypeOK
    BY DEF AuditInv
<1> QED
    BY <1>1, AuditInitially, AuditKeeps, PTL DEF Spec

\* A hash on disk, or in a cache, is one with which an audit has come to the file
\* (AuditEngine.persistAuditState).
THEOREM SkippedIsAudited == Spec => []SkippedWasAudited
<1>1. AuditInv => SkippedWasAudited
    BY DEF AuditInv
<1> QED
    BY <1>1, AuditInitially, AuditKeeps, PTL DEF Spec

\* A flaw the cache hides from the next audit has an entry in the ledger, unless an audit
\* came to it and no auditor answered, it was edited in the middle of an audit, a process
\* died in a write or another copy overwrote the entry
\* (AuditEngine.persistAuditState, StabilityLedger.update).
THEOREM HiddenFlawsAreOnRecord == Spec => []HiddenFlawOnRecord
<1>1. AuditInv => HiddenFlawOnRecord
    BY DEF AuditInv, RecordInv
<1> QED
    BY <1>1, AuditInitially, AuditKeeps, PTL DEF Spec

-----------------------------------------------------------------------------
(* The repairs.  Of every file that is being repaired a whole text         *)
(* remains.  The property is not inductive: a process that ends inside a   *)
(* patch leaves the text of the file as the backup, so the file must have  *)
(* been whole before.                                                      *)

\* As long as the process lives every file is whole, whatever its backup is.
Whole == pipeline # "dead" => \A f \in HealedFiles : file[f] \in Texts

HealInv == HealTypeOK /\ Whole /\ NothingLost

\* What the model answers is a text.
LEMMA SuggestionIsText ==
    ASSUME HealTypeOK, NEW h \in Findings, NEW t \in Suggestions(h)
    PROVE  t \in Texts
<1>1. plan[h] \in Texts \cup {Absent}
    BY DEF HealTypeOK
<1>2. plan[h].issues \in SUBSET Findings
    BY <1>1 DEF Texts, Absent
<1>3. PICK i \in {plan[h].issues, plan[h].issues \ {h}} : t = [by |-> h, issues |-> i]
    BY DEF Suggestions
<1>4. i \in SUBSET Findings
    BY <1>2, <1>3
<1> QED
    BY <1>3, <1>4 DEF Texts

\* The original text of a file is a text.
LEMMA OriginalIsText ==
    ASSUME NEW f \in HealedFiles
    PROVE  Original(f) \in Texts
BY DEF Original, Texts

\* The pipeline starts with whole files.
LEMMA HealInitially == HealInit => HealInv
<1> SUFFICES ASSUME HealInit PROVE HealInv
    OBVIOUS
<1>1. \A f \in HealedFiles : file[f] \in Texts
    BY OriginalIsText DEF HealInit
<1>2. file \in [HealedFiles -> Texts \cup {Absent, Torn}]
    BY OriginalIsText DEF HealInit
<1>3. HealTypeOK
    BY <1>2 DEF HealInit, HealTypeOK, InFlight
<1> QED
    BY <1>1, <1>3 DEF HealInv, Whole, NothingLost

\* Steps that leave the files and their backups alone.
LEMMA FilesUntouched ==
    ASSUME HealInv, UNCHANGED <<file, bak>>, pipeline' # "dead" => pipeline # "dead"
    PROVE  Whole' /\ NothingLost'
BY DEF HealInv, Whole, NothingLost

\* Steps that drop a backup, of a process that lives.
LEMMA BackupDropped ==
    ASSUME HealInv, pipeline # "dead", NEW f \in HealedFiles,
           bak' = [bak EXCEPT ![f] = Absent], UNCHANGED file
    PROVE  Whole' /\ NothingLost'
BY DEF HealInv, Whole, NothingLost

\* A step of a repair keeps the invariant.
LEMMA RepairKeeps ==
    ASSUME HealInv, NEW h \in Findings,
           Plan(h) \/ Fail(h) \/ Decline(h) \/ Patch(h) \/ WriteFails(h) \/ Confirm(h) \/ Reject(h)
    PROVE  HealInv'
<1> DEFINE f == fileOf[h]
<1>0. HealTypeOK /\ f \in HealedFiles
    BY DEF HealInv, HealTypeOK
<1>1. CASE Plan(h)
    <2>1. file[f] \in Texts
        BY <1>0, <1>1 DEF Plan, At, HealInv, Whole
    <2>2. HealTypeOK'
        BY <1>0, <1>1, <2>1 DEF Plan, Goes, HealTypeOK, InFlight
    <2> QED
        BY <1>1, <2>2, FilesUntouched DEF Plan, HealInv
<1>2. CASE Fail(h)
    <2>1. HealTypeOK'
        BY <1>0, <1>2 DEF Fail, Goes, HealTypeOK, Settled
    <2> QED
        BY <1>2, <2>1, FilesUntouched DEF Fail, At, HealInv
<1>3. CASE Decline(h)
    <2>1. HealTypeOK'
        BY <1>0, <1>3 DEF Decline, Goes, HealTypeOK, Settled
    <2> QED
        BY <1>3, <2>1, FilesUntouched DEF Decline, HealInv
<1>4. CASE Patch(h)
    <2>1. PICK t \in Suggestions(h) : /\ bak' = [bak EXCEPT ![f] = file[f]]
                                      /\ file' = [file EXCEPT ![f] = t]
        BY <1>4 DEF Patch
    <2>2. t \in Texts
        BY <1>0, SuggestionIsText
    <2>3. \A g \in HealedFiles : file[g] \in Texts
        BY <1>4 DEF Patch, At, HealInv, Whole
    <2>4. \A g \in HealedFiles : file'[g] \in Texts
        BY <1>0, <2>1, <2>2, <2>3 DEF HealTypeOK
    <2>5. HealTypeOK'
        BY <1>0, <1>4, <2>1, <2>2, <2>3 DEF Patch, Goes, HealTypeOK, InFlight
    <2> QED
        BY <2>4, <2>5 DEF HealInv, Whole, NothingLost
<1>5. CASE WriteFails(h)
    <2>1. HealTypeOK'
        BY <1>0, <1>5 DEF WriteFails, Goes, HealTypeOK, Settled
    <2> QED
        BY <1>0, <1>5, <2>1, BackupDropped DEF WriteFails, At, HealInv
<1>6. CASE Confirm(h)
    <2>1. HealTypeOK'
        BY <1>0, <1>6 DEF Confirm, Goes, HealTypeOK, Settled
    <2> QED
        BY <1>0, <1>6, <2>1, BackupDropped DEF Confirm, At, HealInv
<1>7. CASE Reject(h)
    <2>1. heal' \in [Findings -> InFlight \cup Settled]
        BY <1>0, <1>7 DEF Reject, Goes, HealTypeOK, Settled
    <2>2. CASE bak[f] = Absent
        <3>1. UNCHANGED <<file, bak>>
            BY <1>7, <2>2 DEF Reject
        <3>2. HealTypeOK'
            BY <1>0, <1>7, <2>1, <3>1 DEF Reject, HealTypeOK
        <3> QED
            BY <1>7, <3>1, <3>2, FilesUntouched DEF Reject, HealInv
    <2>3. CASE bak[f] # Absent
        <3>1. /\ file' = [file EXCEPT ![f] = bak[f]]
              /\ bak' = [bak EXCEPT ![f] = Absent]
            BY <1>7, <2>3 DEF Reject
        <3>2. bak[f] \in Texts
            BY <1>0, <2>3 DEF HealTypeOK
        <3>3. \A g \in HealedFiles : file'[g] \in Texts
            BY <1>0, <1>7, <3>1, <3>2 DEF Reject, At, HealInv, Whole, HealTypeOK
        <3>4. HealTypeOK'
            BY <1>0, <1>7, <2>1, <3>1, <3>2 DEF Reject, HealTypeOK
        <3> QED
            BY <3>3, <3>4 DEF HealInv, Whole, NothingLost
    <2> QED
        BY <2>2, <2>3
<1> QED
    BY <1>1, <1>2, <1>3, <1>4, <1>5, <1>6, <1>7

\* The end of the process keeps the invariant, also inside a patch: the rename has
\* left the file's text as its backup.
LEMMA DeathKeeps == HealInv /\ Die => HealInv'
<1> SUFFICES ASSUME HealInv, Die PROVE HealInv'
    OBVIOUS
<1>0. HealTypeOK /\ pipeline' = "dead" /\ UNCHANGED <<fileOf, heal, plan>>
    BY DEF HealInv, Die
<1>1. \A f \in HealedFiles : file[f] \in Texts
    BY DEF HealInv, Whole, Die
<1>2. CASE UNCHANGED <<file, bak>>
    <2>1. HealTypeOK'
        BY <1>0, <1>2 DEF HealTypeOK
    <2> QED
        BY <1>0, <1>2, <2>1, FilesUntouched DEF HealInv
<1>3. CASE \E h \in Findings, rest \in {Absent, Torn} :
             /\ bak' = [bak EXCEPT ![fileOf[h]] = file[fileOf[h]]]
             /\ file' = [file EXCEPT ![fileOf[h]] = rest]
    <2>1. PICK h \in Findings, rest \in {Absent, Torn} :
             /\ bak' = [bak EXCEPT ![fileOf[h]] = file[fileOf[h]]]
             /\ file' = [file EXCEPT ![fileOf[h]] = rest]
        BY <1>3
    <2>2. fileOf[h] \in HealedFiles
        BY <1>0 DEF HealTypeOK
    <2>3. HealTypeOK'
        BY <1>0, <1>1, <2>1, <2>2 DEF HealTypeOK
    <2>4. NothingLost'
        BY <1>0, <1>1, <2>1, <2>2 DEF NothingLost, HealTypeOK
    <2> QED
        BY <1>0, <2>3, <2>4 DEF HealInv, Whole
<1> QED
    BY <1>2, <1>3 DEF Die

\* Every step of the pipeline keeps the invariant.
LEMMA HealKeeps == HealInv /\ [HealNext]_healVars => HealInv'
<1> SUFFICES ASSUME HealInv, [HealNext]_healVars PROVE HealInv'
    OBVIOUS
<1>1. ASSUME NEW h \in Findings,
             Plan(h) \/ Fail(h) \/ Decline(h) \/ Patch(h) \/ WriteFails(h) \/ Confirm(h) \/ Reject(h)
      PROVE  HealInv'
    BY <1>1, RepairKeeps
<1>2. CASE Resume
    <2>1. HealTypeOK'
        BY <1>2 DEF Resume, HealInv, HealTypeOK
    <2> QED
        BY <1>2, <2>1, FilesUntouched DEF Resume, HealInv
<1>3. CASE Die
    BY <1>3, DeathKeeps
<1>4. CASE UNCHANGED healVars
    BY <1>4 DEF healVars, HealInv, HealTypeOK, Whole, NothingLost
<1> QED
    BY <1>1, <1>2, <1>3, <1>4 DEF HealNext

\* The variables of the pipeline keep their types.
THEOREM HealTypeCorrect == HealSpec => []HealTypeOK
<1>1. HealInv => HealTypeOK
    BY DEF HealInv
<1> QED
    BY <1>1, HealInitially, HealKeeps, PTL DEF HealSpec

\* Whichever repairs share a file and its backup, and wherever the process ends,
\* there is a whole text of every file (PatchManager.applyAndValidate).
THEOREM NothingIsLost == HealSpec => []NothingLost
<1>1. HealInv => NothingLost
    BY DEF HealInv
<1> QED
    BY <1>1, HealInitially, HealKeeps, PTL DEF HealSpec

\* Until the process ends, every file under repair is whole in its own place.
THEOREM WholeWhileAlive == HealSpec => []Whole
<1>1. HealInv => Whole
    BY DEF HealInv
<1> QED
    BY <1>1, HealInitially, HealKeeps, PTL DEF HealSpec

-----------------------------------------------------------------------------
(* The analyzer's cache, and the only way to a stale answer: the invariant *)
(* says of every map, in the file or in memory, what the property says of  *)
(* an answer.                                                              *)

\* A result that is not of its entry's hash: one of the other kind has renewed it.
Renewed(entries) == \A p \in Paths : \A kind \in Kinds :
  Result(entries[p], kind) \notin {None, entries[p].hash} =>
    [path |-> p, kind |-> Other(kind), text |-> entries[p].hash] \in computed

\* Whoever computes has the text asked about, and has been noted.
Noted == \A a \in Analysers : progress[a] \in {"computing", "saving"} =>
  query[a] \in computed /\ answer[a] = query[a].text

CacheInv ==
  /\ CacheTypeOK
  /\ Renewed(stored)
  /\ \A a \in Analysers : Renewed(held[a])
  /\ Noted
  /\ StaleOnlyByTheOther

\* A query has the fields of one.
LEMMA QueryFields ==
  ASSUME NEW q \in Queries
  PROVE  /\ q.path \in Paths /\ q.kind \in Kinds /\ q.text \in Contents
         /\ q = [path |-> q.path, kind |-> q.kind, text |-> q.text]
         /\ q.text # None
BY CacheAssumption DEF Queries

\* An entry has the fields of one.
LEMMA EntryFields ==
  ASSUME NEW entries \in Maps, NEW p \in Paths
  PROVE  /\ entries[p] \in Entry
         /\ entries[p].hash \in Contents \cup {None}
         /\ entries[p].analysis \in Contents \cup {None}
         /\ entries[p].fingerprint \in Contents \cup {None}
BY DEF Maps, Entry

\* The empty cache is a map, and has nothing stale.
LEMMA EmptyIsFresh == EmptyMap \in Maps /\ Renewed(EmptyMap)
<1>1. EmptyMap \in Maps
  BY DEF EmptyMap, NoEntry, Maps, Entry
<1>2. ASSUME NEW p \in Paths, NEW kind \in Kinds
      PROVE  Result(EmptyMap[p], kind) = None
  BY DEF EmptyMap, NoEntry, Result
<1> QED
  BY <1>1, <1>2 DEF Renewed

\* What get returns is a text or nothing.
LEMMA GetIsText ==
  ASSUME NEW entries \in Maps, NEW q \in Queries
  PROVE  Get(entries, q) \in Contents \cup {None}
BY QueryFields, EntryFields DEF Get, Result

\* A result of another text is found only if the other kind has been computed.
LEMMA GetIsRenewed ==
  ASSUME NEW entries \in Maps, Renewed(entries), NEW q \in Queries,
         Get(entries, q) # None, Get(entries, q) # q.text
  PROVE  Otherwise(q) \in computed
<1>1. entries[q.path].hash = q.text /\ Get(entries, q) = Result(entries[q.path], q.kind)
  BY DEF Get
<1>2. q.path \in Paths /\ q.kind \in Kinds
  BY QueryFields
<1> QED
  BY <1>1, <1>2 DEF Renewed, Otherwise

\* set keeps what is said of a map, if the query has been noted.
LEMMA SetKeeps ==
  ASSUME NEW entries \in Maps, Renewed(entries), NEW q \in Queries, q \in computed
  PROVE  Set(entries, q) \in Maps /\ Renewed(Set(entries, q))
<1> DEFINE m == Set(entries, q)
           e == [hash |-> q.text,
                 analysis |-> IF q.kind = "analysis" THEN q.text ELSE entries[q.path].analysis,
                 fingerprint |-> IF q.kind = "analysis" THEN entries[q.path].fingerprint
                                 ELSE q.text]
<1>0. q.path \in Paths /\ q.kind \in Kinds /\ q.text \in Contents
  BY QueryFields
<1>1. e \in Entry
  BY <1>0, EntryFields DEF Entry
<1>2. m = [entries EXCEPT ![q.path] = e]
  BY DEF Set
<1>3. m \in Maps
  BY <1>1, <1>2 DEF Maps
<1>4. m[q.path] = e /\ \A p \in Paths \ {q.path} : m[p] = entries[p]
  BY <1>0, <1>2 DEF Maps
<1>5. Result(e, q.kind) = q.text /\ e.hash = q.text
  BY <1>0 DEF Result
<1>6. ASSUME NEW p \in Paths, NEW kind \in Kinds,
             Result(m[p], kind) \notin {None, m[p].hash}
      PROVE  [path |-> p, kind |-> Other(kind), text |-> m[p].hash] \in computed
  <2>1. CASE p # q.path
    <3>1. m[p] = entries[p]
      BY <1>4, <2>1
    <3> HIDE DEF m
    <3> QED
      BY <1>6, <3>1 DEF Renewed
  <2>2. CASE p = q.path
    <3>1. m[p] = e
      BY <1>4, <2>2
    <3>2. kind # q.kind
      BY <1>5, <1>6, <3>1
    <3>3. Other(kind) = q.kind
      BY <1>0, <3>2 DEF Kinds, Other
    <3>4. m[p].hash = q.text
      BY <1>5, <3>1
    <3> QED
      BY <2>2, <3>3, <3>4, QueryFields
  <2> QED
    BY <2>1, <2>2
<1> QED
  BY <1>3, <1>6 DEF Renewed

\* What has been computed only grows: maps that were as said before a step are so
\* after it.
LEMMA MapsStay ==
  ASSUME computed \subseteq computed', Renewed(stored'), \A a \in Analysers : Renewed(held'[a])
  PROVE  Renewed(stored)' /\ \A a \in Analysers : Renewed(held[a])'
BY DEF Renewed

\* The analyzer starts with an empty cache.
LEMMA CacheInitially == CacheInit => CacheInv
<1> SUFFICES ASSUME CacheInit PROVE CacheInv
  OBVIOUS
<1>1. (CHOOSE q \in Queries : TRUE) \in Queries
  <2>1. PICK p \in Paths, words \in Contents : TRUE
    BY CacheAssumption
  <2>2. [path |-> p, kind |-> "analysis", text |-> words] \in Queries
    BY DEF Queries, Kinds
  <2> QED
    BY <2>2
<1>2. query \in [Analysers -> Queries]
  BY <1>1 DEF CacheInit
<1>3. CacheTypeOK
  BY <1>2, EmptyIsFresh, CacheAssumption DEF CacheInit, CacheTypeOK
<1>4. \A a \in Analysers : held[a] = EmptyMap /\ progress[a] = "idle"
  BY DEF CacheInit
<1>5. stored = EmptyMap
  BY DEF CacheInit
<1>6. Renewed(stored) /\ \A a \in Analysers : Renewed(held[a])
  BY <1>4, <1>5, EmptyIsFresh
<1> QED
  BY <1>3, <1>4, <1>6 DEF CacheInv, Noted, StaleOnlyByTheOther

\* A request that is asked finds the cache as the file has it.
LEMMA AskKeeps ==
  ASSUME CacheInv, NEW a \in Analysers, NEW q \in Queries, Ask(a, q),
         computed \subseteq computed'
  PROVE  /\ Renewed(stored)' /\ \A b \in Analysers : Renewed(held[b])'
         /\ stored' \in Maps /\ held' \in [Analysers -> Maps]
         /\ query' \in [Analysers -> Queries] /\ requests' \in 0..MaxRequests
         /\ query'[a] = q /\ \A b \in Analysers \ {a} : query'[b] = query[b]
<1>0. CacheTypeOK /\ Renewed(stored) /\ \A b \in Analysers : Renewed(held[b])
  BY DEF CacheInv
<1>1. stored' = stored /\ held' = [held EXCEPT ![a] = stored] /\ query' = [query EXCEPT ![a] = q]
  BY DEF Ask
<1>2. \A b \in Analysers : held'[b] = held[b] \/ held'[b] = stored
  BY <1>0, <1>1 DEF CacheTypeOK
<1>3. Renewed(stored') /\ \A b \in Analysers : Renewed(held'[b])
  BY <1>0, <1>1, <1>2
<1>4. Renewed(stored)' /\ \A b \in Analysers : Renewed(held[b])'
  BY <1>3, MapsStay
<1>5. requests' \in 0..MaxRequests
  BY <1>0, CacheAssumption DEF Ask, CacheTypeOK
<1> QED
  BY <1>0, <1>1, <1>4, <1>5 DEF CacheTypeOK

\* A result that is found.
LEMMA HitKeeps ==
  ASSUME CacheInv, NEW a \in Analysers, NEW q \in Queries, Hit(a, q)
  PROVE  CacheInv'
<1>0. CacheTypeOK /\ Renewed(stored) /\ Noted /\ StaleOnlyByTheOther
  BY DEF CacheInv
<1>1. /\ Ask(a, q) /\ computed' = computed /\ Get(stored, q) # None
      /\ progress' = [progress EXCEPT ![a] = "answered"]
      /\ answer' = [answer EXCEPT ![a] = Get(stored, q)]
  BY DEF Hit
<1>2. /\ Renewed(stored)' /\ \A b \in Analysers : Renewed(held[b])'
      /\ stored' \in Maps /\ held' \in [Analysers -> Maps]
      /\ query' \in [Analysers -> Queries] /\ requests' \in 0..MaxRequests
      /\ query'[a] = q /\ \A b \in Analysers \ {a} : query'[b] = query[b]
  BY <1>1, AskKeeps
<1>3. stored \in Maps
  BY <1>0 DEF CacheTypeOK
<1>4. Get(stored, q) \in Contents \cup {None}
  BY <1>3, GetIsText
<1>5. CacheTypeOK'
  BY <1>0, <1>1, <1>2, <1>4 DEF CacheTypeOK
<1>6. /\ progress'[a] = "answered" /\ answer'[a] = Get(stored, q)
      /\ \A b \in Analysers \ {a} : progress'[b] = progress[b] /\ answer'[b] = answer[b]
  BY <1>0, <1>1 DEF CacheTypeOK
<1>7. Noted'
  BY <1>0, <1>1, <1>2, <1>6 DEF Noted
<1>8. StaleOnlyByTheOther'
  <2>1. Get(stored, q) # q.text => Otherwise(q) \in computed
    BY <1>0, <1>1, <1>3, GetIsRenewed
  <2>2. ASSUME NEW b \in Analysers, progress'[b] = "answered", answer'[b] # query'[b].text
        PROVE  Otherwise(query'[b]) \in computed'
    <3>1. CASE b = a
      BY <1>1, <1>2, <1>6, <2>1, <2>2, <3>1
    <3>2. CASE b # a
      BY <1>0, <1>1, <1>2, <1>6, <2>2, <3>2 DEF StaleOnlyByTheOther
    <3> QED
      BY <3>1, <3>2
  <2> QED
    BY <2>2 DEF StaleOnlyByTheOther, Otherwise
<1> QED
  BY <1>2, <1>5, <1>7, <1>8 DEF CacheInv

\* A result that has to be computed.
LEMMA MissKeeps ==
  ASSUME CacheInv, NEW a \in Analysers, NEW q \in Queries, Miss(a, q)
  PROVE  CacheInv'
<1>0. CacheTypeOK /\ Noted /\ StaleOnlyByTheOther
  BY DEF CacheInv
<1>1. /\ Ask(a, q)
      /\ progress' = [progress EXCEPT ![a] = IF Unparsed(q) THEN "answered" ELSE "computing"]
      /\ answer' = [answer EXCEPT ![a] = q.text]
      /\ computed' = IF Unparsed(q) THEN computed ELSE computed \cup {q}
  BY DEF Miss
<1>2. computed \subseteq computed' /\ computed' \subseteq Queries
  BY <1>0, <1>1 DEF CacheTypeOK
<1>3. /\ Renewed(stored)' /\ \A b \in Analysers : Renewed(held[b])'
      /\ stored' \in Maps /\ held' \in [Analysers -> Maps]
      /\ query' \in [Analysers -> Queries] /\ requests' \in 0..MaxRequests
      /\ query'[a] = q /\ \A b \in Analysers \ {a} : query'[b] = query[b]
  BY <1>1, <1>2, AskKeeps
<1>4. CacheTypeOK'
  BY <1>0, <1>1, <1>2, <1>3, QueryFields DEF CacheTypeOK
<1>5. /\ progress'[a] \in {"computing", "saving"} => q \in computed'
      /\ answer'[a] = q.text
      /\ \A b \in Analysers \ {a} : progress'[b] = progress[b] /\ answer'[b] = answer[b]
  BY <1>0, <1>1 DEF CacheTypeOK
<1>6. Noted'
  BY <1>0, <1>2, <1>3, <1>5 DEF Noted
<1>7. StaleOnlyByTheOther'
  <2>1. ASSUME NEW b \in Analysers, progress'[b] = "answered", answer'[b] # query'[b].text
        PROVE  Otherwise(query'[b]) \in computed'
    BY <1>0, <1>2, <1>3, <1>5, <2>1 DEF StaleOnlyByTheOther
  <2> QED
    BY <2>1 DEF StaleOnlyByTheOther, Otherwise
<1> QED
  BY <1>3, <1>4, <1>6, <1>7 DEF CacheInv

\* A save, from the truncation to its end, and a death in it: the file holds what it
\* held, the map of the one who saves, or nothing that parses.
LEMMA SaveKeeps ==
  ASSUME CacheInv, NEW a \in Analysers,
         SaveBegins(a) \/ SaveEnds(a) \/ AnalyserDies(a)
  PROVE  CacheInv'
<1>0. /\ CacheTypeOK /\ Renewed(stored) /\ \A b \in Analysers : Renewed(held[b])
      /\ Noted /\ StaleOnlyByTheOther
  BY DEF CacheInv
<1>1. /\ UNCHANGED <<query, answer, computed, requests>>
      /\ stored' \in {EmptyMap, stored, held[a]}
  BY DEF SaveBegins, SaveEnds, AnalyserDies
<1>2. stored' \in Maps /\ Renewed(stored')
  BY <1>0, <1>1, EmptyIsFresh DEF CacheTypeOK
<1>3. held' \in [Analysers -> Maps] /\ \A b \in Analysers : Renewed(held'[b])
  <2>1. CASE SaveBegins(a)
    <3>1. held' = [held EXCEPT ![a] = Set(held[a], query[a])] /\ progress[a] = "computing"
      BY <2>1 DEF SaveBegins
    <3>2. query[a] \in Queries /\ query[a] \in computed /\ held[a] \in Maps
      BY <1>0, <3>1 DEF Noted, CacheTypeOK
    <3>3. Set(held[a], query[a]) \in Maps /\ Renewed(Set(held[a], query[a]))
      BY <1>0, <3>2, SetKeeps
    <3>4. \A b \in Analysers : held'[b] = IF b = a THEN Set(held[a], query[a]) ELSE held[b]
      BY <1>0, <3>1 DEF CacheTypeOK
    <3> QED
      BY <1>0, <3>1, <3>3, <3>4 DEF CacheTypeOK
  <2>2. CASE SaveEnds(a) \/ AnalyserDies(a)
    BY <1>0, <2>2 DEF SaveEnds, AnalyserDies, CacheTypeOK
  <2> QED
    BY <2>1, <2>2
<1>4. Renewed(stored)' /\ \A b \in Analysers : Renewed(held[b])'
  BY <1>1, <1>2, <1>3, MapsStay
<1>5. /\ progress' \in [Analysers -> {"idle", "computing", "saving", "answered"}]
      /\ \A b \in Analysers \ {a} : progress'[b] = progress[b]
      /\ progress'[a] \in {"computing", "saving"} => progress[a] = "computing"
      /\ progress'[a] = "answered" => progress[a] = "saving"
  BY <1>0 DEF SaveBegins, SaveEnds, AnalyserDies, CacheTypeOK
<1>6. CacheTypeOK'
  BY <1>0, <1>1, <1>2, <1>3, <1>5 DEF CacheTypeOK
<1>7. Noted'
  BY <1>0, <1>1, <1>5 DEF Noted
<1>8. StaleOnlyByTheOther'
  <2>1. ASSUME NEW b \in Analysers, progress'[b] = "answered", answer'[b] # query'[b].text
        PROVE  Otherwise(query'[b]) \in computed'
    <3>1. CASE b = a
      BY <1>0, <1>1, <1>5, <2>1, <3>1 DEF Noted
    <3>2. CASE b # a
      BY <1>0, <1>1, <1>5, <2>1, <3>2 DEF StaleOnlyByTheOther
    <3> QED
      BY <3>1, <3>2
  <2> QED
    BY <2>1 DEF StaleOnlyByTheOther, Otherwise
<1> QED
  BY <1>4, <1>6, <1>7, <1>8 DEF CacheInv

\* Every step of the analyzer keeps the invariant.
LEMMA CacheKeeps == CacheInv /\ [CacheNext]_cacheVars => CacheInv'
<1> SUFFICES ASSUME CacheInv, [CacheNext]_cacheVars PROVE CacheInv'
  OBVIOUS
<1>1. ASSUME NEW a \in Analysers, NEW q \in Queries, Hit(a, q)
      PROVE  CacheInv'
  BY <1>1, HitKeeps
<1>2. ASSUME NEW a \in Analysers, NEW q \in Queries, Miss(a, q)
      PROVE  CacheInv'
  BY <1>2, MissKeeps
<1>3. ASSUME NEW a \in Analysers, SaveBegins(a) \/ SaveEnds(a) \/ AnalyserDies(a)
      PROVE  CacheInv'
  BY <1>3, SaveKeeps
<1>4. CASE UNCHANGED cacheVars
  BY <1>4 DEF cacheVars, CacheInv, CacheTypeOK, Renewed, Noted, StaleOnlyByTheOther, Otherwise
<1> QED
  BY <1>1, <1>2, <1>3, <1>4 DEF CacheNext

\* The variables of the analyzer's cache keep their types.
THEOREM CacheTypeCorrect == CacheSpec => []CacheTypeOK
<1>1. CacheInv => CacheTypeOK
  BY DEF CacheInv
<1> QED
  BY <1>1, CacheInitially, CacheKeeps, PTL DEF CacheSpec

\* An answer is of another text only if a result of the other kind was computed for
\* the text that was asked about (cache.rs, set_analysis and set_fingerprint).
THEOREM OnlyTheOtherMakesStale == CacheSpec => []StaleOnlyByTheOther
<1>1. CacheInv => StaleOnlyByTheOther
  BY DEF CacheInv
<1> QED
  BY <1>1, CacheInitially, CacheKeeps, PTL DEF CacheSpec

-----------------------------------------------------------------------------
(* The database.  What a vault holds are answered calls, which no longer   *)
(* change; so the steps that matter are those of a call not yet answered   *)
(* (VaultCallStep, VaultWriteStep), and the order of first tries (turn)    *)
(* bounds that of every call in a vault.                                   *)

VaultStates == {"unasked", "missed", "waiting", "fulfilled", "rejected", "broken"}
VaultCall ==
  [state : VaultStates, hub : Nat, tries : Nat, turn : Nat, stacks : Nat]

\* What every variable of the vault may hold.
VaultTypeOK ==
  /\ connections \in Seq([path : Vaults, open : BOOLEAN])
  /\ instance \in Nat
  /\ request \in [Calls -> VaultCall]
  /\ turns \in Nat
  /\ vault \in [Vaults -> Seq(Calls)]
  /\ stackCache \in [Vaults -> Nat]

\* What the state of a call says of it: it has a hub once it was made, a place in the
\* order of first tries, and no lock was met before the first.
CallsFit ==
  \A r \in Calls :
    /\ request[r].turn <= turns
    /\ request[r].state # "unasked" => request[r].hub \in DOMAIN connections
    /\ request[r].state = "waiting" => request[r].tries > 0
    /\ request[r].state = "missed" => r \in Listings /\ request[r].stacks = 0

\* A cache that is set was set by a listing that was applied to its vault.
CacheWasStored ==
  \A v \in Vaults : stackCache[v] # 0 =>
    \E i \in DOMAIN vault[v] :
      vault[v][i] \in Listings /\ request[vault[v][i]].stacks = stackCache[v]

\* The hubs that were forgotten are among those made, and the instance is none of them.
ForgottenApart == forgotten \subseteq (1..Len(connections)) \ {instance}

VaultInv ==
  VaultTypeOK /\ OneConnection /\ CallsFit /\ AppliedOnce /\ LostForAReason
    /\ PassedAtALock /\ AnswersWereStored /\ CacheWasStored /\ ForgottenApart

\* A call that is not answered has no statement in any vault yet.
LEMMA VaultUnanswered ==
  ASSUME VaultInv, NEW r \in Calls, request[r].state # "fulfilled"
  PROVE  \A v \in Vaults : \A i \in DOMAIN vault[v] : vault[v][i] # r
  BY DEF VaultInv, AppliedOnce

\* The elements of a vault are calls.
LEMMA VaultElements ==
  ASSUME VaultTypeOK
  PROVE  \A v \in Vaults : /\ vault[v] \in Seq(Calls)
                           /\ DOMAIN vault[v] = 1..Len(vault[v])
                           /\ Len(vault[v]) \in Nat
                           /\ \A i \in DOMAIN vault[v] : vault[v][i] \in Calls
  <1> TAKE v \in Vaults
  <1>1. vault[v] \in Seq(Calls)  BY DEF VaultTypeOK
  <1> QED BY <1>1, ElementOfSeq, LenProperties

\* getInstance and close only append to the hubs and close some: what calls and vaults
\* say of their hubs stays true.
LEMMA VaultHubsStep ==
  ASSUME VaultInv, UNCHANGED <<request, turns, vault, stackCache>>,
         connections' \in Seq([path : Vaults, open : BOOLEAN]), instance' \in Nat,
         OneConnection', ForgottenApart',
         DOMAIN connections \subseteq DOMAIN connections',
         \A h \in DOMAIN connections : /\ connections'[h].path = connections[h].path
                                       /\ connections'[h].open => connections[h].open
  PROVE  VaultInv'
  <1>1. VaultTypeOK' /\ CallsFit'
    BY DEF VaultInv, VaultTypeOK, CallsFit
  <1>2. AppliedOnce' /\ PassedAtALock' /\ AnswersWereStored' /\ CacheWasStored'
    BY DEF VaultInv, AppliedOnce, PassedAtALock, AnswersWereStored, CacheWasStored
  <1>3. LostForAReason'
    <2> SUFFICES ASSUME NEW m \in Memories
                 PROVE  LET call == request[m]
                            hub == connections'[call.hub]
                        IN /\ call.state = "fulfilled" =>
                                \E i \in DOMAIN vault[hub.path] : vault[hub.path][i] = m
                           /\ call.state = "rejected" =>
                                \/ call.tries = maxRetries
                                \/ ~hub.open \/ hub.path \notin WithInsights
      BY DEF LostForAReason
    <2>1. CASE request[m].state \in {"fulfilled", "rejected"}
      <3>1. request[m].hub \in DOMAIN connections
        BY <2>1 DEF VaultInv, CallsFit, Calls
      <3> QED BY <3>1 DEF VaultInv, LostForAReason
    <2> QED BY <2>1
  <1> QED BY <1>1, <1>2, <1>3 DEF VaultInv

\* Closing a hub, or none, leaves the others as they are, and every hub where it was.
LEMMA VaultClosed ==
  ASSUME VaultInv, NEW h \in 0..Len(connections)
  PROVE  /\ Closed(h) \in Seq([path : Vaults, open : BOOLEAN])
         /\ Len(Closed(h)) = Len(connections)
         /\ \A g \in 1..Len(connections) : /\ Closed(h)[g].path = connections[g].path
                                           /\ Closed(h)[g].open = (connections[g].open /\ g # h)
  <1>1. /\ connections \in Seq([path : Vaults, open : BOOLEAN])
        /\ DOMAIN connections = 1..Len(connections) /\ Len(connections) \in Nat
        /\ \A g \in 1..Len(connections) : connections[g] \in [path : Vaults, open : BOOLEAN]
    BY LenProperties, ElementOfSeq DEF VaultInv, VaultTypeOK
  <1>2. \A g \in 1..Len(connections) : connections[g].open \in BOOLEAN
    BY <1>1
  <1>3. CASE h = 0
    <2>1. \A g \in 1..Len(connections) : g # 0
      BY <1>1
    <2> QED BY <1>1, <1>2, <1>3, <2>1 DEF Closed
  <1>4. CASE h # 0
    <2> DEFINE shut == [connections[h] EXCEPT !.open = FALSE]
    <2>1. h \in 1..Len(connections)
      BY <1>1, <1>4
    <2>2. /\ shut \in [path : Vaults, open : BOOLEAN]
          /\ shut.path = connections[h].path /\ shut.open = FALSE
      BY <1>1, <2>1
    <2>3. Closed(h) = [connections EXCEPT ![h] = shut]
      BY <1>1, <1>4 DEF Closed
    <2> HIDE DEF shut
    <2>4. /\ Closed(h) \in Seq([path : Vaults, open : BOOLEAN])
          /\ Len(Closed(h)) = Len(connections)
          /\ Closed(h)[h] = shut
          /\ \A g \in 1..Len(connections) : g # h => Closed(h)[g] = connections[g]
      BY <1>1, <2>1, <2>2, <2>3, ExceptSeq
    <2>5. ASSUME NEW g \in 1..Len(connections)
          PROVE  /\ Closed(h)[g].path = connections[g].path
                 /\ Closed(h)[g].open = (connections[g].open /\ g # h)
      <3>1. CASE g = h  BY <3>1, <2>2, <2>4
      <3>2. CASE g # h  BY <3>2, <1>2, <2>4
      <3> QED BY <3>1, <3>2
    <2> QED BY <2>4, <2>5
  <1> QED BY <1>3, <1>4

\* getInstance leaves the hub it makes open, and those that were forgotten.
LEMMA VaultGetInstance ==
  ASSUME VaultInv, NEW root \in Roots, getInstance(root)
  PROVE  VaultInv'
  <1> DEFINE shut == Closed(instance)
  <1>0. instance \in 0..Len(connections)
    BY DEF VaultInv, OneConnection
  <1>s. /\ shut \in Seq([path : Vaults, open : BOOLEAN]) /\ Len(shut) = Len(connections)
        /\ \A h \in 1..Len(connections) : /\ shut[h].path = connections[h].path
                                          /\ shut[h].open = (connections[h].open /\ h # instance)
    BY <1>0, VaultClosed
  <1>c. connections \in Seq([path : Vaults, open : BOOLEAN])
    BY DEF VaultInv, VaultTypeOK
  <1> HIDE DEF shut
  <1>1. /\ shut \in Seq([path : Vaults, open : BOOLEAN]) /\ Len(shut) = Len(connections)
        /\ DOMAIN shut = 1..Len(connections)
        /\ DOMAIN connections = 1..Len(connections) /\ Len(connections) \in Nat
        /\ \A h \in 1..Len(connections) : /\ shut[h].path = connections[h].path
                                          /\ shut[h].open = (connections[h].open /\ h # instance)
    BY <1>s, <1>c, LenProperties
  <1> USE DEF shut
  <1>a. /\ \A h \in 1..Len(connections) : connections[h].open <=> h = instance \/ h \in forgotten
        /\ forgotten \subseteq (1..Len(connections)) \ {instance}
    BY <1>1 DEF VaultInv, OneConnection, ForgottenApart
  <1>b. /\ \A h \in 1..Len(connections) : shut[h].open <=> h \in forgotten
        /\ \A h \in 1..Len(connections) : shut[h].open => connections[h].open
    BY <1>1, <1>a
  <1>2. PICK path \in resolveDbPath(root) :
          /\ \/ /\ connections' = Append(shut, [path |-> path, open |-> TRUE])
                /\ instance' = Len(connections) + 1
             \/ connections' = shut /\ instance' = 0
          /\ UNCHANGED <<forgotten, request, turns, vault, stackCache>>
    BY DEF getInstance
  <1> HIDE DEF shut
  <1>3. path \in Vaults
    BY DEF resolveDbPath, Vaults
  <1>4. CASE connections' = shut /\ instance' = 0
    <2>1. OneConnection'
      <3>1. \A h \in 1..Len(connections) : h # 0
        BY <1>1
      <3> QED BY <1>1, <1>b, <1>2, <1>4, <3>1 DEF OneConnection
    <2>2. ForgottenApart'
      BY <1>1, <1>a, <1>2, <1>4 DEF ForgottenApart
    <2> QED BY <1>1, <1>b, <1>2, <1>4, <2>1, <2>2, VaultHubsStep
  <1>5. CASE /\ connections' = Append(shut, [path |-> path, open |-> TRUE])
             /\ instance' = Len(connections) + 1
    <2> DEFINE made == [path |-> path, open |-> TRUE]
    <2>1. made \in [path : Vaults, open : BOOLEAN] /\ made.open = TRUE
      BY <1>3
    <2>2. connections' = Append(shut, made)
      BY <1>5
    <2> HIDE DEF made
    <2>3. /\ connections' \in Seq([path : Vaults, open : BOOLEAN])
          /\ Len(connections') = Len(connections) + 1
          /\ \A h \in 1..Len(connections) : connections'[h] = shut[h]
          /\ connections'[Len(connections) + 1] = made
      BY <1>1, <2>1, <2>2, AppendProperties
    <2>4. DOMAIN connections' = 1..(Len(connections) + 1)
      BY <2>3, LenProperties
    <2>5. OneConnection'
      <3>1. ASSUME NEW h \in 1..(Len(connections) + 1)
            PROVE  connections'[h].open <=> h = Len(connections) + 1 \/ h \in forgotten
        <4>1. CASE h = Len(connections) + 1  BY <4>1, <2>1, <2>3
        <4>2. CASE h # Len(connections) + 1
          <5>1. h \in 1..Len(connections)  BY <4>2, <1>1
          <5> QED BY <5>1, <4>2, <1>1, <1>b, <2>3
        <4> QED BY <4>1, <4>2
      <3> QED BY <3>1, <1>1, <1>2, <1>5, <2>3, <2>4 DEF OneConnection
    <2>6. DOMAIN connections \subseteq DOMAIN connections'
      BY <1>1, <2>4
    <2>7. \A h \in DOMAIN connections : /\ connections'[h].path = connections[h].path
                                        /\ connections'[h].open => connections[h].open
      BY <1>1, <1>b, <2>3
    <2>8. instance' \in Nat
      BY <1>1, <1>5
    <2>9. ForgottenApart'
      BY <1>1, <1>a, <1>2, <1>5, <2>3 DEF ForgottenApart
    <2> QED BY <1>2, <2>3, <2>5, <2>6, <2>7, <2>8, <2>9, VaultHubsStep
  <1> QED BY <1>2, <1>4, <1>5

\* close leaves the hub it closes closed, and forgets the instance.
LEMMA VaultClose ==
  ASSUME VaultInv, NEW h \in DOMAIN connections, close(h)
  PROVE  VaultInv'
  <1>0. /\ DOMAIN connections = 1..Len(connections) /\ Len(connections) \in Nat
        /\ h \in 0..Len(connections) /\ h # 0
    BY LenProperties DEF VaultInv, VaultTypeOK
  <1>1. /\ connections' = Closed(h) /\ instance' = 0
        /\ forgotten' = (forgotten \cup ({instance} \ {0})) \ {h}
        /\ UNCHANGED <<request, turns, vault, stackCache>>
    BY DEF close
  <1>s. /\ Closed(h) \in Seq([path : Vaults, open : BOOLEAN])
        /\ Len(Closed(h)) = Len(connections)
        /\ \A g \in 1..Len(connections) : /\ Closed(h)[g].path = connections[g].path
                                          /\ Closed(h)[g].open = (connections[g].open /\ g # h)
    BY <1>0, VaultClosed
  <1>2. /\ connections' \in Seq([path : Vaults, open : BOOLEAN])
        /\ Len(connections') = Len(connections) /\ DOMAIN connections' = 1..Len(connections)
        /\ \A g \in 1..Len(connections) : /\ connections'[g].path = connections[g].path
                                          /\ connections'[g].open = (connections[g].open /\ g # h)
    BY <1>s, <1>1, LenProperties
  <1>u. OneConnection /\ ForgottenApart
    BY DEF VaultInv
  <1>3. /\ \A g \in 1..Len(connections) : connections[g].open <=> g = instance \/ g \in forgotten
        /\ forgotten \subseteq (1..Len(connections)) \ {instance}
        /\ instance \in 0..Len(connections)
    BY <1>0, <1>u DEF OneConnection, ForgottenApart
  <1>n. \A g \in 1..Len(connections) : g # 0
    BY <1>0
  <1>f. \A g \in 1..Len(connections) : g \in forgotten' <=> (g = instance \/ g \in forgotten) /\ g # h
    BY <1>1, <1>n
  <1>4. \A g \in 1..Len(connections) : connections'[g].open <=> g \in forgotten'
    <2> TAKE g \in 1..Len(connections)
    <2>1. connections'[g].open <=> connections[g].open /\ g # h
      BY <1>2
    <2>2. connections[g].open <=> g = instance \/ g \in forgotten
      BY <1>3
    <2> QED BY <2>1, <2>2, <1>f
  <1>5. OneConnection'
    <2>1. instance' \in 0..Len(connections')
      BY <1>0, <1>1, <1>2
    <2>2. \A g \in 1..Len(connections) : connections'[g].open <=> g = instance' \/ g \in forgotten'
      BY <1>4, <1>1, <1>n
    <2> QED BY <1>2, <2>1, <2>2 DEF OneConnection
  <1>6. ForgottenApart'
    <2>1. \A g \in forgotten' : g \in 1..Len(connections) /\ g # 0
      <3> TAKE g \in forgotten'
      <3>1. g \in forgotten \/ (g = instance /\ g # 0)  BY <1>1
      <3>2. CASE g \in forgotten
        BY <3>2, <1>3, <1>n
      <3>3. CASE g = instance /\ g # 0
        <4>1. g \in 0..Len(connections)  BY <3>3, <1>3
        <4> QED BY <3>3, <4>1, <1>0
      <3> QED BY <3>1, <3>2, <3>3
    <2> QED BY <2>1, <1>1, <1>2 DEF ForgottenApart
  <1>7. \A g \in DOMAIN connections : /\ connections'[g].path = connections[g].path
                                      /\ connections'[g].open => connections[g].open
    BY <1>0, <1>2
  <1>8. instance' \in Nat /\ DOMAIN connections \subseteq DOMAIN connections'
    BY <1>0, <1>1, <1>2
  <1> QED BY <1>1, <1>2, <1>5, <1>6, <1>7, <1>8, VaultHubsStep

\* What a vault holds says the same of itself when a call that is not in it moves.
LEMMA VaultOthersStay ==
  ASSUME VaultInv, NEW r \in Calls, request[r].state # "fulfilled",
         NEW call, request' = [request EXCEPT ![r] = call]
  PROVE  /\ request'[r] = call
         /\ \A q \in Calls : q # r => request'[q] = request[q]
         /\ \A v \in Vaults : \A i \in DOMAIN vault[v] :
              vault[v][i] \in Calls /\ vault[v][i] # r
                /\ request'[vault[v][i]] = request[vault[v][i]]
  <1>1. request \in [Calls -> VaultCall]
    BY DEF VaultInv, VaultTypeOK
  <1>2. request'[r] = call /\ \A q \in Calls : q # r => request'[q] = request[q]
    BY <1>1
  <1>3. \A v \in Vaults : \A i \in DOMAIN vault[v] :
          vault[v][i] \in Calls /\ vault[v][i] # r
    BY VaultUnanswered, VaultElements DEF VaultInv
  <1> QED BY <1>2, <1>3

\* A call moves without writing: it waits, misses the cache, is given up, or is
\* answered from the cache.
LEMMA VaultCallStep ==
  ASSUME VaultInv, NEW r \in Calls, request[r].state # "fulfilled",
         NEW call \in VaultCall, request' = [request EXCEPT ![r] = call],
         UNCHANGED <<connections, instance, forgotten, vault, stackCache>>,
         turns' \in Nat, turns' >= turns, call.turn <= turns',
         call.hub \in DOMAIN connections, call.state # "unasked",
         call.state = "waiting" => call.tries > 0,
         call.state = "missed" => r \in Listings /\ call.stacks = 0,
         call.state = "fulfilled" =>
           /\ r \notin Memories
           /\ call.stacks # 0 => \E v \in Vaults : \E i \in DOMAIN vault[v] :
                vault[v][i] \in Listings /\ request[vault[v][i]].stacks = call.stacks,
         r \in Memories /\ call.state = "rejected" =>
           \/ call.tries = maxRetries
           \/ ~connections[call.hub].open \/ connections[call.hub].path \notin WithInsights
  PROVE  VaultInv'
  <1>1. /\ request'[r] = call
        /\ \A q \in Calls : q # r => request'[q] = request[q]
        /\ \A v \in Vaults : \A i \in DOMAIN vault[v] :
             vault[v][i] \in Calls /\ vault[v][i] # r
               /\ request'[vault[v][i]] = request[vault[v][i]]
    BY VaultOthersStay
  <1>2. VaultTypeOK'
    BY DEF VaultInv, VaultTypeOK
  <1>3. CallsFit'
    <2> SUFFICES ASSUME NEW q \in Calls
                 PROVE  /\ request'[q].turn <= turns'
                        /\ request'[q].state # "unasked" =>
                             request'[q].hub \in DOMAIN connections
                        /\ request'[q].state = "waiting" => request'[q].tries > 0
                        /\ request'[q].state = "missed" => q \in Listings /\ request'[q].stacks = 0
      BY DEF CallsFit
    <2>1. CASE q = r  BY <2>1, <1>1
    <2>2. CASE q # r
      <3>1. request[q] \in VaultCall /\ turns \in Nat
        BY DEF VaultInv, VaultTypeOK
      <3>2. request[q].turn \in Nat /\ request[q].turn <= turns
        BY <3>1 DEF VaultCall, VaultInv, CallsFit
      <3> QED BY <2>2, <1>1, <3>1, <3>2 DEF VaultInv, CallsFit
    <2> QED BY <2>1, <2>2
  <1>4. AppliedOnce' /\ PassedAtALock' /\ CacheWasStored'
    BY <1>1 DEF VaultInv, AppliedOnce, PassedAtALock, CacheWasStored
  <1>5. AnswersWereStored'
    <2> SUFFICES ASSUME NEW l \in Listings, request'[l].state = "fulfilled", request'[l].stacks # 0
                 PROVE  \E v \in Vaults : \E i \in DOMAIN vault[v] :
                          vault[v][i] \in Listings
                            /\ request'[vault[v][i]].stacks = request'[l].stacks
      BY DEF AnswersWereStored
    <2>1. CASE l = r  BY <2>1, <1>1
    <2>2. CASE l # r
      <3>1. request'[l] = request[l]  BY <2>2, <1>1 DEF Calls
      <3> QED BY <3>1, <1>1 DEF VaultInv, AnswersWereStored
    <2> QED BY <2>1, <2>2
  <1>6. LostForAReason'
    <2> SUFFICES ASSUME NEW m \in Memories
                 PROVE  LET now == request'[m]
                            hub == connections[now.hub]
                        IN /\ now.state = "fulfilled" =>
                                \E i \in DOMAIN vault[hub.path] : vault[hub.path][i] = m
                           /\ now.state = "rejected" =>
                                \/ now.tries = maxRetries
                                \/ ~hub.open \/ hub.path \notin WithInsights
      BY DEF LostForAReason
    <2>1. CASE m = r  BY <2>1, <1>1
    <2>2. CASE m # r
      <3>1. request'[m] = request[m]  BY <2>2, <1>1 DEF Calls
      <3> QED BY <3>1 DEF VaultInv, LostForAReason
    <2> QED BY <2>1, <2>2
  <1>7. OneConnection' /\ ForgottenApart'
    BY DEF VaultInv, OneConnection, ForgottenApart
  <1> QED BY <1>2, <1>3, <1>4, <1>5, <1>6, <1>7 DEF VaultInv

\* A call writes: its statement is the last of its vault, later in order than all
\* that were tried before it, unless it met a lock.
Writes(r, call, path) ==
  /\ request[r].state # "fulfilled" /\ request' = [request EXCEPT ![r] = call]
  /\ UNCHANGED <<connections, instance, forgotten>>
  /\ turns' \in Nat /\ turns' >= turns /\ call.turn <= turns'
  /\ call.turn > turns \/ call.tries > 0
  /\ call.hub \in DOMAIN connections /\ call.state = "fulfilled"
  /\ path = connections[call.hub].path
  /\ vault' = [vault EXCEPT ![path] = Append(@, r)]
  /\ stackCache' = IF r \in Listings THEN [stackCache EXCEPT ![path] = call.stacks]
                   ELSE stackCache

\* It keeps the invariant.
LEMMA VaultWriteStep ==
  ASSUME VaultInv, NEW r \in Calls, NEW call \in VaultCall, NEW path \in Vaults,
         Writes(r, call, path)
  PROVE  VaultInv'
  <1>1. /\ request'[r] = call
        /\ \A q \in Calls : q # r => request'[q] = request[q]
        /\ \A v \in Vaults : \A i \in DOMAIN vault[v] :
             vault[v][i] \in Calls /\ vault[v][i] # r
               /\ request'[vault[v][i]] = request[vault[v][i]]
    BY VaultOthersStay DEF Writes
  <1>u. /\ connections' = connections /\ instance' = instance /\ forgotten' = forgotten
        /\ turns' \in Nat /\ turns' >= turns /\ call.turn <= turns'
        /\ call.turn > turns \/ call.tries > 0
        /\ call.hub \in DOMAIN connections /\ call.state = "fulfilled"
        /\ path = connections[call.hub].path
    BY DEF Writes
  <1> DEFINE n == Len(vault[path]) + 1
  <1>2. /\ vault \in [Vaults -> Seq(Calls)] /\ turns \in Nat
        /\ stackCache \in [Vaults -> Nat] /\ request \in [Calls -> VaultCall]
    BY DEF VaultInv, VaultTypeOK
  <1>3. /\ vault'[path] = Append(vault[path], r)
        /\ \A v \in Vaults : v # path => vault'[v] = vault[v]
        /\ DOMAIN vault' = Vaults /\ vault' = [vault EXCEPT ![path] = vault'[path]]
        /\ \A v \in Vaults : r \in Listings /\ v = path => stackCache'[v] = call.stacks
        /\ \A v \in Vaults : ~(r \in Listings /\ v = path) => stackCache'[v] = stackCache[v]
    BY <1>2 DEF Writes
  <1>4. /\ Len(vault[path]) \in Nat /\ DOMAIN vault[path] = 1..Len(vault[path])
        /\ vault'[path] \in Seq(Calls)
        /\ DOMAIN vault'[path] = 1..n /\ n \in DOMAIN vault'[path]
        /\ vault'[path][n] = r
        /\ \A i \in DOMAIN vault[path] : i \in DOMAIN vault'[path]
             /\ vault'[path][i] = vault[path][i] /\ i < n
        /\ \A i \in DOMAIN vault'[path] : i = n \/ i \in DOMAIN vault[path]
    <2>1. /\ vault'[path] \in Seq(Calls) /\ Len(vault'[path]) = n
          /\ \A i \in 1..Len(vault[path]) : vault'[path][i] = vault[path][i]
          /\ vault'[path][n] = r
      BY <1>2, <1>3, AppendProperties
    <2>2. DOMAIN vault'[path] = 1..n /\ DOMAIN vault[path] = 1..Len(vault[path])
            /\ Len(vault[path]) \in Nat
      BY <1>2, <2>1, LenProperties
    <2> QED BY <2>1, <2>2
  <1> HIDE DEF n
  <1>5. VaultTypeOK'
    <2>1. vault' \in [Vaults -> Seq(Calls)]  BY <1>2, <1>3, <1>4
    <2>2. stackCache' \in [Vaults -> Nat]  BY <1>2 DEF VaultCall, Writes
    <2>3. request' \in [Calls -> VaultCall]  BY <1>2 DEF Writes
    <2> QED BY <2>1, <2>2, <2>3, <1>u DEF VaultInv, VaultTypeOK
  <1>6. CallsFit'
    <2> SUFFICES ASSUME NEW q \in Calls
                 PROVE  /\ request'[q].turn <= turns'
                        /\ request'[q].state # "unasked" =>
                             request'[q].hub \in DOMAIN connections
                        /\ request'[q].state = "waiting" => request'[q].tries > 0
                        /\ request'[q].state = "missed" => q \in Listings /\ request'[q].stacks = 0
      BY <1>u DEF CallsFit
    <2>1. CASE q = r  BY <2>1, <1>1, <1>u
    <2>2. CASE q # r
      <3>1. request[q] \in VaultCall
        BY <1>2
      <3>2. request[q].turn \in Nat /\ request[q].turn <= turns
        BY <3>1 DEF VaultCall, VaultInv, CallsFit
      <3> QED BY <2>2, <1>1, <1>2, <3>1, <3>2, <1>u DEF VaultInv, CallsFit
    <2> QED BY <2>1, <2>2
  \* A statement of a vault now: the new one, or one from before.
  <1>7. \A v \in Vaults : \A i \in DOMAIN vault'[v] :
          \/ v = path /\ i = n /\ vault'[v][i] = r /\ i \notin DOMAIN vault[v]
          \/ /\ i \in DOMAIN vault[v] /\ vault'[v][i] = vault[v][i]
             /\ vault[v][i] # r /\ request'[vault'[v][i]] = request[vault[v][i]]
    BY <1>1, <1>3, <1>4
  <1>8. \A v \in Vaults : \A i \in DOMAIN vault[v] :
          i \in DOMAIN vault'[v] /\ vault'[v][i] = vault[v][i]
    BY <1>3, <1>4
  <1>9. AppliedOnce'
    <2> SUFFICES ASSUME NEW v \in Vaults, NEW w \in Vaults,
                        NEW i \in DOMAIN vault'[v], NEW j \in DOMAIN vault'[w]
                 PROVE  /\ request'[vault'[v][i]].state = "fulfilled"
                        /\ vault'[v][i] = vault'[w][j] => v = w /\ i = j
      BY DEF AppliedOnce
    <2>1. request'[vault'[v][i]].state = "fulfilled"
      BY <1>1, <1>7, <1>u DEF VaultInv, AppliedOnce
    <2>2. vault'[v][i] = vault'[w][j] => v = w /\ i = j
      BY <1>7 DEF VaultInv, AppliedOnce
    <2> QED BY <2>1, <2>2
  <1>10. PassedAtALock'
    <2> SUFFICES ASSUME NEW v \in Vaults, NEW i \in DOMAIN vault'[v],
                        NEW j \in DOMAIN vault'[v], i < j,
                        request'[vault'[v][i]].turn > request'[vault'[v][j]].turn
                 PROVE  request'[vault'[v][j]].tries > 0
      BY DEF PassedAtALock
    <2>1. \/ v = path /\ i = n /\ i \notin DOMAIN vault[v]
          \/ /\ i \in DOMAIN vault[v] /\ vault'[v][i] = vault[v][i]
             /\ request'[vault'[v][i]] = request[vault[v][i]]
      BY <1>7
    <2>2. \/ v = path /\ j = n /\ vault'[v][j] = r /\ j \notin DOMAIN vault[v]
          \/ /\ j \in DOMAIN vault[v] /\ vault'[v][j] = vault[v][j]
             /\ request'[vault'[v][j]] = request[vault[v][j]]
      BY <1>7
    <2>3. CASE i \in DOMAIN vault[v] /\ j \in DOMAIN vault[v]
      <3>1. request'[vault'[v][i]] = request[vault[v][i]]
        BY <2>1, <2>3
      <3>2. request'[vault'[v][j]] = request[vault[v][j]]
        BY <2>2, <2>3
      <3> QED BY <2>3, <3>1, <3>2 DEF VaultInv, PassedAtALock
    <2>4. CASE i \in DOMAIN vault[v] /\ j \notin DOMAIN vault[v]
      <3>1. /\ vault'[v][j] = r /\ request'[vault'[v][i]] = request[vault[v][i]]
            /\ vault[v][i] \in Calls
        BY <2>1, <2>2, <2>4, <1>1
      <3>2. request[vault[v][i]] \in VaultCall
        BY <3>1, <1>2
      <3>3. request[vault[v][i]].turn \in Nat /\ request[vault[v][i]].turn <= turns
        BY <3>1, <3>2 DEF VaultCall, VaultInv, CallsFit
      <3>4. call.turn \in Nat
        BY DEF VaultCall
      <3>5. request[vault[v][i]].turn > call.turn
        BY <3>1, <1>1
      <3>6. ~(call.turn > turns)
        BY <3>3, <3>4, <3>5, <1>2
      <3> QED BY <3>1, <3>6, <1>1, <1>u
    <2>5. CASE i \notin DOMAIN vault[v]
      <3>1. v = path /\ i = n  BY <2>1, <2>5
      <3>2. DOMAIN vault'[path] = 1..n /\ n \in Nat
        <4>1. n \in Nat
          <5>1. Len(vault[path]) \in Nat  BY <1>4
          <5> QED BY <5>1 DEF n
        <4> QED BY <1>4, <4>1
      <3>3. j \in 1..n  BY <3>1, <3>2
      <3> QED BY <3>1, <3>2, <3>3
    <2> QED BY <2>3, <2>4, <2>5
  <1>11. AnswersWereStored'
    <2> SUFFICES ASSUME NEW l \in Listings, request'[l].state = "fulfilled", request'[l].stacks # 0
                 PROVE  \E v \in Vaults : \E i \in DOMAIN vault'[v] :
                          vault'[v][i] \in Listings
                            /\ request'[vault'[v][i]].stacks = request'[l].stacks
      BY DEF AnswersWereStored
    <2>1. CASE l = r  BY <2>1, <1>4
    <2>2. CASE l # r
      <3>1. request'[l] = request[l]  BY <2>2, <1>1 DEF Calls
      <3>2. PICK v \in Vaults : \E i \in DOMAIN vault[v] :
              vault[v][i] \in Listings /\ request[vault[v][i]].stacks = request[l].stacks
        BY <3>1 DEF VaultInv, AnswersWereStored
      <3> QED BY <3>1, <3>2, <1>1, <1>8
    <2> QED BY <2>1, <2>2
  <1>12. CacheWasStored'
    <2> SUFFICES ASSUME NEW v \in Vaults, stackCache'[v] # 0
                 PROVE  \E i \in DOMAIN vault'[v] :
                          vault'[v][i] \in Listings
                            /\ request'[vault'[v][i]].stacks = stackCache'[v]
      BY DEF CacheWasStored
    <2>1. CASE r \in Listings /\ v = path
      BY <2>1, <1>1, <1>2, <1>3, <1>4
    <2>2. CASE ~(r \in Listings /\ v = path)
      <3>1. stackCache'[v] = stackCache[v]  BY <2>2, <1>3
      <3>2. PICK i \in DOMAIN vault[v] :
              vault[v][i] \in Listings /\ request[vault[v][i]].stacks = stackCache[v]
        BY <3>1 DEF VaultInv, CacheWasStored
      <3> QED BY <3>1, <3>2, <1>1, <1>8
    <2> QED BY <2>1, <2>2
  <1>13. LostForAReason'
    <2> SUFFICES ASSUME NEW m \in Memories
                 PROVE  LET now == request'[m]
                            hub == connections[now.hub]
                        IN /\ now.state = "fulfilled" =>
                                \E i \in DOMAIN vault'[hub.path] : vault'[hub.path][i] = m
                           /\ now.state = "rejected" =>
                                \/ now.tries = maxRetries
                                \/ ~hub.open \/ hub.path \notin WithInsights
      BY <1>u DEF LostForAReason
    <2>1. CASE m = r  BY <2>1, <1>1, <1>4, <1>u
    <2>2. CASE m # r
      <3>1. request'[m] = request[m] /\ m \in Calls  BY <2>2, <1>1 DEF Calls
      <3>2. CASE request[m].state = "fulfilled"
        <4>1. request[m].hub \in DOMAIN connections
          BY <3>1, <3>2 DEF VaultInv, CallsFit
        <4>2. connections[request[m].hub].path \in Vaults
          <5>1. /\ connections \in Seq([path : Vaults, open : BOOLEAN])
                /\ DOMAIN connections = 1..Len(connections)
            BY LenProperties DEF VaultInv, VaultTypeOK
          <5>2. connections[request[m].hub] \in [path : Vaults, open : BOOLEAN]
            BY <4>1, <5>1, ElementOfSeq
          <5> QED BY <5>2
        <4>3. PICK i \in DOMAIN vault[connections[request[m].hub].path] :
                vault[connections[request[m].hub].path][i] = m
          BY <3>2 DEF VaultInv, LostForAReason
        <4> QED BY <3>1, <3>2, <4>2, <4>3, <1>8
      <3>3. CASE request[m].state # "fulfilled"
        BY <3>1, <3>3 DEF VaultInv, LostForAReason
      <3> QED BY <3>2, <3>3
    <2> QED BY <2>1, <2>2
  <1>14. OneConnection' /\ ForgottenApart'
    BY <1>u DEF VaultInv, OneConnection, ForgottenApart
  <1> QED BY <1>5, <1>6, <1>9, <1>10, <1>11, <1>12, <1>13, <1>14 DEF VaultInv

\* One pass of execute, the first of a call or a later one.
LEMMA VaultExecute ==
  ASSUME VaultAssumption, VaultInv, NEW r \in Calls, NEW call \in VaultCall,
         request[r].state # "fulfilled",
         UNCHANGED <<connections, instance, forgotten>>,
         turns' \in Nat, turns' >= turns, call.turn <= turns',
         call.turn > turns \/ call.tries > 0,
         call.hub \in DOMAIN connections, executeSQL(r, call)
  PROVE  VaultInv'
  <1> DEFINE hub == connections[call.hub]
  <1>1. hub \in [path : Vaults, open : BOOLEAN] /\ hub.path \in Vaults
    <2>1. /\ connections \in Seq([path : Vaults, open : BOOLEAN])
          /\ DOMAIN connections = 1..Len(connections)
      BY LenProperties DEF VaultInv, VaultTypeOK
    <2>2. hub \in [path : Vaults, open : BOOLEAN]
      BY <2>1, ElementOfSeq
    <2> QED BY <2>2
  <1>2. PICK error \in {"none", "locked", "other"} :
          LET state == Tried(r, hub, error)
              applied == state = "fulfilled" /\ error = "none"
          IN /\ request' = [request EXCEPT ![r] =
                  [call EXCEPT !.state = state,
                               !.tries = IF state = "waiting" THEN call.tries + 1 ELSE call.tries]]
             /\ vault' = IF applied THEN [vault EXCEPT ![hub.path] = Append(@, r)] ELSE vault
             /\ stackCache' = IF applied /\ r \in Listings
                              THEN [stackCache EXCEPT ![hub.path] = call.stacks] ELSE stackCache
    BY DEF executeSQL, VaultCall
  <1>3. \/ ~hub.open \/ ~HasTable(r, hub.path)
        \/ hub.open /\ HasTable(r, hub.path) /\ error = "other"
        \/ hub.open /\ HasTable(r, hub.path) /\ error = "locked"
        \/ hub.open /\ HasTable(r, hub.path) /\ error = "none"
    BY <1>1, <1>2
  <1> DEFINE After(state, n) == [call EXCEPT !.state = state, !.tries = n]
  <1>4. \A state \in VaultStates, n \in Nat :
          /\ After(state, n) \in VaultCall
          /\ After(state, n).state = state /\ After(state, n).tries = n
          /\ After(state, n).hub = call.hub /\ After(state, n).turn = call.turn
          /\ After(state, n).stacks = call.stacks
    BY DEF VaultCall
  <1> HIDE DEF After
  <1>5. call.tries \in Nat /\ call.tries + 1 \in Nat /\ call.tries + 1 > 0
          /\ "waiting" \in VaultStates /\ "rejected" \in VaultStates
          /\ "fulfilled" \in VaultStates /\ "broken" \in VaultStates
    BY DEF VaultCall, VaultStates
  <1>6. CASE ~hub.open \/ ~HasTable(r, hub.path)
    <2>1. Tried(r, hub, error) = "rejected"
      BY <1>6 DEF Tried
    <2>2. /\ request' = [request EXCEPT ![r] = After("rejected", call.tries)]
          /\ vault' = vault /\ stackCache' = stackCache
      BY <1>2, <2>1 DEF After
    <2>3. After("rejected", call.tries) \in VaultCall
            /\ After("rejected", call.tries).state = "rejected"
            /\ After("rejected", call.tries).hub = call.hub
            /\ After("rejected", call.tries).turn = call.turn
      BY <1>4, <1>5
    <2>4. r \in Memories => ~hub.open \/ hub.path \notin WithInsights
      BY <1>6 DEF HasTable
    <2> QED BY <2>2, <2>3, <2>4, VaultCallStep
  <1>9. CASE hub.open /\ HasTable(r, hub.path) /\ error = "other"
    <2>1. Tried(r, hub, error) = "broken"
      BY <1>9 DEF Tried
    <2>2. /\ request' = [request EXCEPT ![r] = After("broken", call.tries)]
          /\ vault' = vault /\ stackCache' = stackCache
      BY <1>2, <2>1 DEF After
    <2>3. After("broken", call.tries) \in VaultCall
            /\ After("broken", call.tries).state = "broken"
            /\ After("broken", call.tries).hub = call.hub
            /\ After("broken", call.tries).turn = call.turn
      BY <1>4, <1>5
    <2> QED BY <2>2, <2>3, VaultCallStep
  <1>7. CASE hub.open /\ HasTable(r, hub.path) /\ error = "locked"
    <2>1. Tried(r, hub, error) = "waiting"
      BY <1>7 DEF Tried
    <2>2. /\ request' = [request EXCEPT ![r] = After("waiting", call.tries + 1)]
          /\ vault' = vault /\ stackCache' = stackCache
      BY <1>2, <2>1 DEF After
    <2>3. After("waiting", call.tries + 1) \in VaultCall
            /\ After("waiting", call.tries + 1).state = "waiting"
            /\ After("waiting", call.tries + 1).tries > 0
            /\ After("waiting", call.tries + 1).hub = call.hub
            /\ After("waiting", call.tries + 1).turn = call.turn
      BY <1>4, <1>5
    <2> QED BY <2>2, <2>3, VaultCallStep
  <1>8. CASE hub.open /\ HasTable(r, hub.path) /\ error = "none"
    <2>1. Tried(r, hub, error) = "fulfilled"
      BY <1>8 DEF Tried
    <2>2. /\ request' = [request EXCEPT ![r] = After("fulfilled", call.tries)]
          /\ vault' = [vault EXCEPT ![hub.path] = Append(@, r)]
          /\ stackCache' = IF r \in Listings THEN [stackCache EXCEPT ![hub.path] = call.stacks]
                           ELSE stackCache
      BY <1>2, <1>8, <2>1 DEF After
    <2>3. After("fulfilled", call.tries) \in VaultCall
            /\ After("fulfilled", call.tries).state = "fulfilled"
            /\ After("fulfilled", call.tries).tries = call.tries
            /\ After("fulfilled", call.tries).hub = call.hub
            /\ After("fulfilled", call.tries).turn = call.turn
            /\ After("fulfilled", call.tries).stacks = call.stacks
      BY <1>4, <1>5
    <2>4. Writes(r, After("fulfilled", call.tries), hub.path)
      BY <2>2, <2>3 DEF Writes
    <2> QED BY <1>1, <2>3, <2>4, VaultWriteStep
  <1> QED BY <1>3, <1>6, <1>7, <1>8, <1>9

LEMMA VaultStarts ==
  ASSUME VaultInit
  PROVE  VaultInv
  <1>1. Unasked \in VaultCall /\ Unasked.state = "unasked" /\ Unasked.turn = 0
    BY DEF Unasked, VaultCall, VaultStates
  <1>2. \A S : << >> \in Seq(S) /\ Len(<< >>) = 0 /\ DOMAIN << >> = {}
    BY EmptySeq, LenProperties
  <1>3. \A r \in Calls : request[r] = Unasked
    BY DEF VaultInit
  <1>4. VaultTypeOK
    BY <1>1, <1>2 DEF VaultInit, VaultTypeOK
  <1>5. OneConnection /\ ForgottenApart
    BY <1>2 DEF VaultInit, OneConnection, ForgottenApart
  <1>6. CallsFit
    BY <1>1, <1>3 DEF VaultInit, CallsFit
  <1>7. AppliedOnce /\ PassedAtALock /\ CacheWasStored
    BY <1>2 DEF VaultInit, AppliedOnce, PassedAtALock, CacheWasStored
  <1>8. LostForAReason /\ AnswersWereStored
    BY <1>1, <1>3 DEF LostForAReason, AnswersWereStored, Calls
  <1> QED BY <1>4, <1>5, <1>6, <1>7, <1>8 DEF VaultInv

\* A first pass, of either kind of call.
LEMMA VaultBegin ==
  ASSUME VaultAssumption, VaultInv, NEW r \in Calls, NEW call \in VaultCall,
         request[r].state # "fulfilled", UNCHANGED <<connections, instance, forgotten>>,
         call.hub \in DOMAIN connections, Begin(r, call)
  PROVE  VaultInv'
  <1> DEFINE made == [call EXCEPT !.turn = turns + 1]
  <1>1. turns \in Nat /\ turns + 1 \in Nat /\ turns' = turns + 1
    BY DEF VaultInv, VaultTypeOK, Begin
  <1>2. made \in VaultCall /\ made.turn = turns + 1 /\ made.hub = call.hub
    BY <1>1 DEF VaultCall
  <1>3. executeSQL(r, made)
    BY DEF Begin
  <1> HIDE DEF made
  <1>4. turns' >= turns /\ turns' \in Nat /\ made.turn <= turns' /\ made.turn > turns
    BY <1>1, <1>2
  <1> QED BY <1>2, <1>3, <1>4, VaultExecute

LEMMA VaultRemember ==
  ASSUME VaultAssumption, VaultInv, NEW m \in Memories, rememberFinding(m)
  PROVE  VaultInv'
  <1>1. PICK h \in DOMAIN connections : Begin(m, [request[m] EXCEPT !.hub = h])
    BY DEF rememberFinding
  <1>2. /\ request[m].state = "unasked" /\ m \in Calls
        /\ UNCHANGED <<connections, instance, forgotten>>
    BY DEF rememberFinding, Calls
  <1>3. h \in Nat /\ request[m] \in VaultCall
    BY <1>2, LenProperties DEF VaultInv, VaultTypeOK
  <1> DEFINE call == [request[m] EXCEPT !.hub = h]
  <1>4. call \in VaultCall /\ call.hub = h
    BY <1>3 DEF VaultCall
  <1>5. Begin(m, call)
    BY <1>1
  <1> HIDE DEF call
  <1> QED BY <1>2, <1>4, <1>5, VaultBegin

LEMMA VaultList ==
  ASSUME VaultAssumption, VaultInv, NEW l \in Listings, loadAllStacks(l)
  PROVE  VaultInv'
  <1> DEFINE known == stackCache[connections[instance].path]
  <1>0. PICK state \in {IF known = 0 THEN "missed" ELSE "fulfilled", "broken"} :
          request' = [request EXCEPT ![l] =
            [request[l] EXCEPT !.hub = instance, !.stacks = known, !.state = state]]
    BY DEF loadAllStacks
  <1> DEFINE call == [request[l] EXCEPT !.hub = instance, !.stacks = known, !.state = state]
  <1>1. /\ request[l].state = "unasked" /\ l \in Calls /\ l \notin Memories
        /\ instance # 0 /\ request' = [request EXCEPT ![l] = call]
        /\ UNCHANGED <<connections, instance, forgotten, turns, vault, stackCache>>
    BY <1>0 DEF loadAllStacks, Calls, VaultAssumption
  <1>2. /\ connections \in Seq([path : Vaults, open : BOOLEAN])
        /\ DOMAIN connections = 1..Len(connections) /\ Len(connections) \in Nat
        /\ instance \in 0..Len(connections)
    BY LenProperties DEF VaultInv, VaultTypeOK, OneConnection
  <1>3. instance \in DOMAIN connections /\ instance \in Nat
    BY <1>1, <1>2
  <1>4. connections[instance].path \in Vaults
    <2>1. connections[instance] \in [path : Vaults, open : BOOLEAN]
      BY <1>2, <1>3, ElementOfSeq
    <2> QED BY <2>1
  <1>5. known \in Nat /\ request[l] \in VaultCall /\ turns \in Nat
    BY <1>1, <1>4 DEF VaultInv, VaultTypeOK
  <1>6. known # 0 => \E i \in DOMAIN vault[connections[instance].path] :
          /\ vault[connections[instance].path][i] \in Listings
          /\ request[vault[connections[instance].path][i]].stacks = known
    BY <1>4 DEF VaultInv, CacheWasStored
  <1> HIDE DEF known
  <1>7. /\ call \in VaultCall /\ call.hub = instance /\ call.stacks = known
        /\ call.turn = request[l].turn /\ call.state = state
    BY <1>0, <1>3, <1>5 DEF VaultCall, VaultStates
  <1>8. call.turn <= turns /\ turns' = turns /\ turns' >= turns /\ turns' \in Nat
    BY <1>1, <1>5, <1>7 DEF VaultInv, CallsFit, VaultCall
  <1> HIDE DEF call
  <1>10. call.state # "unasked" /\ call.state # "waiting" /\ call.state # "rejected"
    BY <1>0, <1>7
  <1>11. call.stacks # 0 =>
           \E v \in Vaults : \E i \in DOMAIN vault[v] :
             vault[v][i] \in Listings /\ request[vault[v][i]].stacks = call.stacks
    BY <1>4, <1>6, <1>7
  <1> QED BY <1>1, <1>3, <1>7, <1>8, <1>10, <1>11, VaultCallStep

\* A listing that finds no directory, or a file it cannot parse, ends without a write.
LEMMA VaultListEnds ==
  ASSUME VaultAssumption, VaultInv, NEW l \in Listings, FindNoRegistry(l) \/ FailToParse(l)
  PROVE  VaultInv'
  <1>1. PICK state \in {"fulfilled", "broken"} : request' = [request EXCEPT ![l].state = state]
    BY DEF FindNoRegistry, FailToParse
  <1> DEFINE call == [request[l] EXCEPT !.state = state]
  <1>2. /\ request[l].state = "missed" /\ l \in Calls /\ l \notin Memories
        /\ request' = [request EXCEPT ![l] = call]
        /\ UNCHANGED <<connections, instance, forgotten, turns, vault, stackCache>>
    BY <1>1 DEF FindNoRegistry, FailToParse, Calls, VaultAssumption
  <1>3. /\ request[l] \in VaultCall /\ turns \in Nat /\ request[l].turn <= turns
        /\ request[l].hub \in DOMAIN connections /\ request[l].stacks = 0
    BY <1>2 DEF VaultInv, VaultTypeOK, CallsFit
  <1>4. /\ call \in VaultCall /\ call.state = state /\ call.stacks = 0
        /\ call.turn = request[l].turn /\ call.hub = request[l].hub
    BY <1>1, <1>3 DEF VaultCall, VaultStates
  <1> HIDE DEF call
  <1>5. turns' \in Nat /\ turns' >= turns /\ call.turn <= turns'
    BY <1>2, <1>3, <1>4
  <1> QED BY <1>1, <1>2, <1>3, <1>4, <1>5, VaultCallStep

LEMMA VaultStore ==
  ASSUME VaultAssumption, VaultInv, NEW l \in Listings, StoreStacks(l)
  PROVE  VaultInv'
  <1>1. PICK edition \in 1..MaxEditions : Begin(l, [request[l] EXCEPT !.stacks = edition])
    BY DEF StoreStacks
  <1> DEFINE call == [request[l] EXCEPT !.stacks = edition]
  <1>2. /\ request[l].state = "missed" /\ l \in Calls /\ Begin(l, call)
        /\ UNCHANGED <<connections, instance, forgotten>>
    BY <1>1 DEF StoreStacks, Calls
  <1>e. edition \in Nat
    BY DEF VaultAssumption
  <1>3. request[l] \in VaultCall /\ edition \in Nat /\ request[l].hub \in DOMAIN connections
    BY <1>2, <1>e DEF VaultInv, VaultTypeOK, CallsFit
  <1>4. call \in VaultCall /\ call.hub = request[l].hub
    BY <1>3 DEF VaultCall
  <1> HIDE DEF call
  <1> QED BY <1>2, <1>3, <1>4, VaultBegin

LEMMA VaultRetry ==
  ASSUME VaultAssumption, VaultInv, NEW r \in Calls, Retry(r)
  PROVE  VaultInv'
  <1>1. /\ request[r].state = "waiting" /\ executeSQL(r, request[r])
        /\ UNCHANGED <<connections, instance, forgotten, turns>>
    BY DEF Retry
  <1>2. /\ request[r] \in VaultCall /\ turns \in Nat /\ request[r].turn <= turns
        /\ request[r].hub \in DOMAIN connections /\ request[r].tries > 0
    BY <1>1 DEF VaultInv, VaultTypeOK, CallsFit
  <1>3. turns' \in Nat /\ turns' >= turns /\ request[r].turn <= turns'
    BY <1>1, <1>2
  <1> QED BY <1>1, <1>2, <1>3, VaultExecute

LEMMA VaultGiveUp ==
  ASSUME VaultInv, NEW r \in Calls, GiveUp(r)
  PROVE  VaultInv'
  <1> DEFINE call == [request[r] EXCEPT !.state = "rejected"]
  <1>1. /\ request[r].state = "waiting" /\ request[r].tries = maxRetries
        /\ request' = [request EXCEPT ![r] = call]
        /\ UNCHANGED <<connections, instance, forgotten, turns, vault, stackCache>>
    BY DEF GiveUp
  <1>2. /\ request[r] \in VaultCall /\ turns \in Nat /\ request[r].turn <= turns
        /\ request[r].hub \in DOMAIN connections
    BY <1>1 DEF VaultInv, VaultTypeOK, CallsFit
  <1>3. /\ call \in VaultCall /\ call.state = "rejected" /\ call.tries = maxRetries
        /\ call.turn = request[r].turn /\ call.hub = request[r].hub
    BY <1>1, <1>2 DEF VaultCall, VaultStates
  <1> HIDE DEF call
  <1>4. turns' \in Nat /\ turns' >= turns /\ call.turn <= turns'
    BY <1>1, <1>2, <1>3
  <1> QED BY <1>1, <1>2, <1>3, <1>4, VaultCallStep

\* The invariant of the vault: what callers rely on, with the states of the calls
\* (CallsFit), the origin of the cache (CacheWasStored) and the place of the forgotten
\* hubs (ForgottenApart) it rests on.
THEOREM VaultInvariant == VaultSpec => []VaultInv
  <1>1. VaultInit => VaultInv
    BY VaultStarts
  <1>2. VaultInv /\ [VaultNext]_vaultVars => VaultInv'
    <2> SUFFICES ASSUME VaultInv, [VaultNext]_vaultVars
                 PROVE  VaultInv'
      OBVIOUS
    <2> USE VaultAssumption
    <2>1. ASSUME NEW root \in Roots, getInstance(root) PROVE VaultInv'
      BY <2>1, VaultGetInstance
    <2>2. ASSUME NEW h \in DOMAIN connections, close(h) PROVE VaultInv'
      BY <2>2, VaultClose
    <2>3. ASSUME NEW m \in Memories, rememberFinding(m) PROVE VaultInv'
      BY <2>3, VaultRemember
    <2>4. ASSUME NEW l \in Listings, loadAllStacks(l) PROVE VaultInv'
      BY <2>4, VaultList
    <2>5. ASSUME NEW l \in Listings, StoreStacks(l) PROVE VaultInv'
      BY <2>5, VaultStore
    <2>6. ASSUME NEW r \in Calls, Retry(r) PROVE VaultInv'
      BY <2>6, VaultRetry
    <2>7. ASSUME NEW r \in Calls, GiveUp(r) PROVE VaultInv'
      BY <2>7, VaultGiveUp
    <2>8. ASSUME NEW l \in Listings, FindNoRegistry(l) \/ FailToParse(l) PROVE VaultInv'
      BY <2>8, VaultListEnds
    <2>9. CASE UNCHANGED vaultVars
      BY <2>9 DEF vaultVars, VaultInv, VaultTypeOK, OneConnection, CallsFit, AppliedOnce,
           LostForAReason, PassedAtALock, AnswersWereStored, CacheWasStored, ForgottenApart
    <2> QED BY <2>1, <2>2, <2>3, <2>4, <2>5, <2>6, <2>7, <2>8, <2>9 DEF VaultNext
  <1> QED BY <1>1, <1>2, PTL DEF VaultSpec

\* One connection but for those forgotten, writes applied once, a reason for every
\* loss, only the lock reorders, and the stacks listings answer were stored, for any
\* projects, calls, retries, failures and closes.
THEOREM VaultIsReliable == VaultSpec => []VaultKeepsItsWord
  <1>1. VaultInv => VaultKeepsItsWord
    BY DEF VaultInv, VaultKeepsItsWord
  <1> QED BY <1>1, VaultInvariant, PTL

-----------------------------------------------------------------------------
(* The validation.  A verdict is computed from sums, which forget the      *)
(* processes they are sums of: the invariant says that they are true of    *)
(* the list of those that have ended (TrueOf), for which every result must *)
(* be true of its own process (ResultFits).                                *)

\* What makes a failure real.
Fails(e) ==
  \/ Bad(e)
  \/ "noise" \in DOMAIN e /\ e.noise = "1 fail"
  \/ "failedSaid" \in DOMAIN e /\ e.failedSaid

\* The sums of the results so far.
Sums == [success : BOOLEAN, total_run : Nat, failed : Nat]

\* A verdict over the processes es.
TrueOf(sums, es) ==
  /\ sums.success => ~\E i \in DOMAIN es : Bad(es[i])
  /\ ~sums.success => \E i \in DOMAIN es : Fails(es[i])
  /\ sums.failed > sums.total_run => \E i \in DOMAIN es : Uncounted(es[i])

\* The processes are a list, empty until the plan is made; the sums are true of it.
ValidInv ==
  /\ stage \in {"idle", "verifying", "running", "done"}
  /\ \E S : ended \in Seq(S)
  /\ summed \in Sums
  /\ stage \in {"idle", "verifying"} => ended = << >>
  /\ stage # "done" => TrueOf(summed, ended) /\ judged = NoVerdict
  /\ RunIsJudged

\* A result that is true of a process.
Fits(r, e) ==
  /\ r.success \in BOOLEAN /\ r.total_run \in Nat /\ r.failed \in Nat
  /\ r.success => ~Bad(e)
  /\ ~r.success => Fails(e)
  /\ r.failed > r.total_run => Uncounted(e)

\* The result of a process is true of it, whatever it prints.
LEMMA ResultFits ==
  ASSUME NEW p, NEW e \in EndsOf(p), ~(e.process = "bun" /\ ~e.started)
  PROVE  Fits(ResultOf(e), e)
<1>1. CASE p = "bun"
  <2>1. /\ e \in [process : {"bun"}, started : {TRUE}, code : {0, 1}, pass : 0..2, fail : 0..1,
                  noise : {"none", "2 pass", "1 fail"}]
        /\ e.code = 0 => e.fail = 0 /\ e.pass > 0
    BY <1>1 DEF EndsOf, BunEnds
  <2>2. ResultOf(e) = parseBunOutput(e)
    BY <2>1 DEF ResultOf
  <2> DEFINE passed == IF e.noise = "2 pass" THEN 2 ELSE e.pass
             failed == IF e.noise = "1 fail" THEN 1 ELSE e.fail
  <2>3. /\ parseBunOutput(e).success = (e.code = 0 /\ failed = 0)
        /\ parseBunOutput(e).total_run = passed + failed
        /\ parseBunOutput(e).failed = failed
    BY DEF parseBunOutput
  <2>4. passed \in Nat /\ failed \in Nat
    <3>1. e.pass \in 0..2 /\ e.fail \in 0..1  BY <2>1
    <3>2. passed \in {2, e.pass} /\ failed \in {1, e.fail}  OBVIOUS
    <3> HIDE DEF passed, failed
    <3> QED BY <3>1, <3>2
  <2>5. (e.code = 0 /\ failed = 0) => ~Bad(e)
    BY <2>1 DEF Bad
  <2>6. ~(e.code = 0 /\ failed = 0) => Fails(e)
    <3>1. "noise" \in DOMAIN e
      BY <2>1
    <3> QED BY <2>1, <3>1 DEF Fails, Bad
  <2> DEFINE good == e.code = 0 /\ failed = 0
  <2>8. good \in BOOLEAN /\ (good => ~Bad(e)) /\ (~good => Fails(e))
    BY <2>5, <2>6
  <2> HIDE DEF passed, failed
  <2>7. ~(failed > passed + failed)
    BY <2>4
  <2>9. /\ ResultOf(e).success = good
        /\ ResultOf(e).total_run = passed + failed
        /\ ResultOf(e).failed = failed
    BY <2>2, <2>3
  <2> HIDE DEF good
  <2> QED BY <2>4, <2>7, <2>8, <2>9 DEF Fits
<1>2. CASE p = "zig build"
  <2>1. e \in [process : {"zig build"}, started : BOOLEAN, code : {0, 1}]
    BY <1>2 DEF EndsOf, BuildEnds
  <2>2. ResultOf(e) = BuildResult(e)
    BY <2>1 DEF ResultOf
  <2>3. e.started \in BOOLEAN /\ e.code \in {0, 1} /\ e.process = "zig build"
    BY <2>1
  <2>4. CASE ~e.started
    <3>1. ResultOf(e) = Thrown
      BY <2>2, <2>4 DEF BuildResult
    <3>2. Bad(e) /\ Fails(e) /\ Uncounted(e)
      BY <2>3, <2>4 DEF Bad, Fails, Uncounted
    <3> QED BY <3>1, <3>2 DEF Thrown, Fits
  <2>5. CASE e.started /\ e.code = 0
    <3>1. ResultOf(e) = [success |-> TRUE, total_run |-> 1, failed |-> 0, pass_rate |-> 100]
      BY <2>2, <2>5 DEF BuildResult
    <3> QED BY <2>5, <3>1 DEF Fits, Bad
  <2>6. CASE e.started /\ e.code # 0
    <3>1. ResultOf(e) = [success |-> FALSE, total_run |-> 0, failed |-> 1, pass_rate |-> 0]
      BY <2>2, <2>6 DEF BuildResult
    <3>2. Bad(e) /\ Fails(e) /\ Uncounted(e)
      BY <2>3, <2>6 DEF Bad, Fails, Uncounted
    <3> QED BY <3>1, <3>2 DEF Fits
  <2> QED BY <2>3, <2>4, <2>5, <2>6
<1>3. CASE p # "bun" /\ p # "zig build"
  <2>1. /\ e \in ZigEnds(p) /\ e.process = p
    BY <1>3 DEF EndsOf, ZigEnds
  <2>2. ResultOf(e) = ZigResult(e)
    BY <1>3, <2>1 DEF ResultOf
  <2>3. CASE ~e.started
    <3>1. ResultOf(e) = Thrown
      BY <2>2, <2>3 DEF ZigResult
    <3>2. Bad(e) /\ Fails(e) /\ Uncounted(e)
      BY <1>3, <2>1, <2>3 DEF Bad, Fails, Uncounted
    <3> QED BY <3>1, <3>2 DEF Thrown, Fits
  <2>4. CASE e.started
    <3>1. /\ e \in [process : {p}, started : {TRUE}, code : {0, 1}, all : {NotSaid, 0, 2},
                    failedSaid : BOOLEAN]
      BY <2>1, <2>4 DEF ZigEnds
    <3> DEFINE failed == e.failedSaid \/ e.code # 0
               passed == IF e.all # NotSaid THEN e.all ELSE IF failed THEN 0 ELSE 1
               total == passed + (IF failed THEN 1 ELSE 0)
    <3>2. /\ ZigResult(e).success = (e.code = 0 /\ ~failed)
          /\ ZigResult(e).total_run = total
          /\ ZigResult(e).failed = IF failed THEN 1 ELSE 0
      BY <2>4 DEF ZigResult
    <3>3. failed \in BOOLEAN /\ passed \in Nat
      BY <3>1 DEF NotSaid
    <3>4. (e.code = 0 /\ ~failed) => ~Bad(e)
      BY <3>1 DEF Bad
    <3>5. ~(e.code = 0 /\ ~failed) => Fails(e)
      <4>1. "failedSaid" \in DOMAIN e
        BY <3>1
      <4> QED BY <3>1, <4>1 DEF Bad, Fails
    <3> HIDE DEF passed, failed
    <3>6. total \in Nat /\ (IF failed THEN 1 ELSE 0) \in Nat /\ ~((IF failed THEN 1 ELSE 0) > total)
      BY <3>3
    <3> QED BY <2>2, <3>2, <3>3, <3>4, <3>5, <3>6 DEF Fits
  <2> QED BY <2>3, <2>4
<1> QED BY <1>1, <1>2, <1>3

\* A rate is a percentage when no more have failed than have run.
LEMMA RateIsPercentage ==
  ASSUME NEW total \in Nat, NEW failed \in Nat, failed <= total
  PROVE  Rate(total - failed, total) \in 0..100
<1>1. CASE total = 0
  BY <1>1 DEF Rate
<1>2. CASE total > 0
  <2> DEFINE a == 100 * (total - failed)
             q == a \div total
  <2>1. a \in Nat /\ a <= 100 * total
    OBVIOUS
  <2> HIDE DEF a
  <2>2. q \in Int /\ total * q <= a /\ a < total * (q + 1)
    BY <1>2, <2>1
  <2> HIDE DEF q
  <2>3. q >= 0
    <3>1. ASSUME q <= -1 PROVE FALSE
      <4>1. total * (q + 1) <= 0
        BY <1>2, <2>2, <3>1
      <4> QED BY <2>1, <2>2, <4>1
    <3> QED BY <2>2, <3>1
  <2>4. q <= 100
    <3>1. ASSUME q >= 101 PROVE FALSE
      <4>1. total * q >= total * 101
        BY <1>2, <2>2, <3>1
      <4> QED BY <1>2, <2>1, <2>2, <4>1
    <3> QED BY <2>2, <3>1
  <2>5. Rate(total - failed, total) = q
    BY <1>2 DEF Rate, q, a
  <2> QED BY <2>2, <2>3, <2>4, <2>5
<1> QED BY <1>1, <1>2

\* The sums stay true when a process has ended.
LEMMA PlusIsTrue ==
  ASSUME ValidInv, stage = "running", NEW p, NEW e \in EndsOf(p),
         ~(e.process = "bun" /\ ~e.started)
  PROVE  /\ Plus(summed, ResultOf(e)) \in Sums
         /\ TrueOf(Plus(summed, ResultOf(e)), Append(ended, e))
<1> DEFINE r == ResultOf(e)
           plus == Plus(summed, r)
           es == Append(ended, e)
<1>1. /\ r.success \in BOOLEAN /\ r.total_run \in Nat /\ r.failed \in Nat
      /\ r.success => ~Bad(e)
      /\ ~r.success => Fails(e)
      /\ r.failed > r.total_run => Uncounted(e)
  BY ResultFits DEF Fits
<1> HIDE DEF r
<1>2. /\ plus \in Sums
      /\ plus.success = (summed.success /\ r.success)
      /\ plus.total_run = summed.total_run + r.total_run
      /\ plus.failed = summed.failed + r.failed
  BY <1>1 DEF ValidInv, Sums, Plus
<1> HIDE DEF plus
<1>3. /\ \A i \in DOMAIN ended : i \in DOMAIN es /\ es[i] = ended[i]
      /\ Len(ended) + 1 \in DOMAIN es /\ es[Len(ended) + 1] = e
      /\ \A i \in DOMAIN es : es[i] = e \/ (i \in DOMAIN ended /\ es[i] = ended[i])
  <2>1. PICK S : ended \in Seq(S)
    BY DEF ValidInv
  <2>2. ended \in Seq(S \cup {e})
    BY <2>1, SeqMonotonic
  <2>3. /\ es \in Seq(S \cup {e}) /\ Len(es) = Len(ended) + 1
        /\ \A i \in 1..Len(ended) : es[i] = ended[i]
        /\ es[Len(ended) + 1] = e
    BY <2>2, AppendProperties
  <2>4. DOMAIN es = 1..Len(es) /\ DOMAIN ended = 1..Len(ended) /\ Len(ended) \in Nat
    BY <2>2, <2>3, LenProperties
  <2> HIDE DEF es
  <2> QED BY <2>3, <2>4
<1> HIDE DEF es
<1>4. TrueOf(summed, ended) /\ summed \in Sums
  BY DEF ValidInv
<1>5. plus.success => ~\E i \in DOMAIN es : Bad(es[i])
  BY <1>1, <1>2, <1>3, <1>4 DEF TrueOf
<1>6. ~plus.success => \E i \in DOMAIN es : Fails(es[i])
  BY <1>1, <1>2, <1>3, <1>4 DEF TrueOf
<1>7. plus.failed > plus.total_run => \E i \in DOMAIN es : Uncounted(es[i])
  <2>1. plus.failed > plus.total_run => summed.failed > summed.total_run \/ r.failed > r.total_run
    BY <1>1, <1>2, <1>4 DEF Sums
  <2> QED BY <1>1, <1>3, <1>4, <2>1 DEF TrueOf
<1> QED BY <1>2, <1>5, <1>6, <1>7 DEF TrueOf, plus, es, r

\* Nothing has been run at first, and nothing is reported.
LEMMA ValidInitially == ValidInit => ValidInv
<1> SUFFICES ASSUME ValidInit PROVE ValidInv  OBVIOUS
<1>1. ended = << >> /\ summed = NoResults /\ judged = NoVerdict /\ stage = "idle"
  BY DEF ValidInit
<1>2. << >> \in Seq({})
  BY EmptySeq
<1>3. summed \in Sums /\ TrueOf(summed, ended)
  BY <1>1 DEF NoResults, Sums, TrueOf
<1>4. RunIsJudged
  BY <1>1 DEF RunIsJudged, SuccessIsEarned, FailureIsReal, RateIsBounded, NoVerdict
<1> QED BY <1>1, <1>2, <1>3, <1>4 DEF ValidInv

\* The verdict of a run is true of the processes when the sums are.
LEMMA VerdictIsTrue ==
  ASSUME ValidInv, Conclude
  PROVE  ValidInv'
<1>1. /\ stage = "running" /\ stage' = "done"
      /\ judged' = _consolidate_results(summed)
      /\ UNCHANGED <<ended, summed>>
  BY DEF Conclude
<1>2. summed \in Sums /\ TrueOf(summed, ended) /\ \E S : ended \in Seq(S)
  BY <1>1 DEF ValidInv
<1>3. /\ judged'.success = summed.success
      /\ judged'.pass_rate = Rate(summed.total_run - summed.failed, summed.total_run)
  BY <1>1 DEF _consolidate_results
<1>4. summed.total_run \in Nat /\ summed.failed \in Nat
  BY <1>2 DEF Sums
<1>5. SuccessIsEarned'
  BY <1>1, <1>2, <1>3 DEF SuccessIsEarned, TrueOf
<1>6. FailureIsReal'
  BY <1>1, <1>2, <1>3 DEF FailureIsReal, TrueOf, Fails
<1>7. RateIsBounded'
  <2>1. CASE summed.failed <= summed.total_run
    BY <1>3, <1>4, <2>1, RateIsPercentage DEF RateIsBounded
  <2>2. CASE summed.failed > summed.total_run
    BY <1>1, <1>2, <2>2 DEF RateIsBounded, TrueOf, Uncounted
  <2> QED BY <1>4, <2>1, <2>2
<1> QED BY <1>1, <1>2, <1>5, <1>6, <1>7 DEF ValidInv, RunIsJudged

\* A process more: its result is added, or a bun that did not start is the verdict.
LEMMA RunKeeps ==
  ASSUME ValidInv, NEW e \in EndsOf(Head(queue)), RunProcess(e)
  PROVE  ValidInv'
<1>1. stage = "running" /\ ended' = Append(ended, e) /\ judged = NoVerdict
  BY DEF RunProcess, ValidInv
<1>2. PICK S : ended \in Seq(S)
  BY DEF ValidInv
<1>3. ended \in Seq(S \cup {e})
  BY <1>2, SeqMonotonic
<1>4. /\ ended' \in Seq(S \cup {e}) /\ Len(ended) + 1 \in DOMAIN ended'
      /\ ended'[Len(ended) + 1] = e
  <2>1. /\ ended' \in Seq(S \cup {e}) /\ Len(ended') = Len(ended) + 1
        /\ ended'[Len(ended) + 1] = e
    BY <1>1, <1>3, AppendProperties
  <2> QED BY <1>3, <2>1, LenProperties
<1>5. CASE e.process = "bun" /\ ~e.started
  <2>1. /\ summed' = NoResults /\ stage' = "done"
        /\ judged' = IF asked = "validation" THEN Thrown ELSE NoVerdict
    BY <1>5 DEF RunProcess
  <2>2. ~judged'.success /\ judged'.pass_rate = 0
    BY <2>1 DEF Thrown, NoVerdict
  <2>3. \E i \in DOMAIN ended' : Bad(ended'[i])
    BY <1>4, <1>5 DEF Bad
  <2>4. RunIsJudged'
    <3>1. SuccessIsEarned'
      BY <2>2 DEF SuccessIsEarned
    <3>2. FailureIsReal'
      BY <2>3 DEF FailureIsReal
    <3>3. RateIsBounded'
      BY <2>2 DEF RateIsBounded
    <3> QED BY <3>1, <3>2, <3>3 DEF RunIsJudged
  <2> QED BY <1>4, <2>1, <2>4 DEF ValidInv, NoResults, Sums
<1>6. CASE ~(e.process = "bun" /\ ~e.started)
  <2>1. summed' = Plus(summed, ResultOf(e)) /\ stage' = "running" /\ judged' = NoVerdict
    BY <1>1, <1>6 DEF RunProcess
  <2>2. summed' \in Sums /\ TrueOf(summed', ended')
    BY <1>1, <1>6, <2>1, PlusIsTrue
  <2>3. RunIsJudged'
    <3>1. judged'.pass_rate = 0
      BY <2>1 DEF NoVerdict
    <3>2. stage' # "done"
      BY <2>1
    <3>3. SuccessIsEarned' /\ FailureIsReal'
      BY <3>2 DEF SuccessIsEarned, FailureIsReal
    <3>4. RateIsBounded'
      BY <3>1 DEF RateIsBounded
    <3> QED BY <3>3, <3>4 DEF RunIsJudged
  <2> QED BY <1>4, <2>1, <2>2, <2>3 DEF ValidInv
<1> QED BY <1>5, <1>6

\* Before anything is run: what is skipped has nothing to be wrong about.
LEMMA PlanKeeps ==
  ASSUME ValidInv,
         \/ \E zig \in BOOLEAN : runTestSuite(zig)
         \/ \E list \in FindingLists, skip \in BOOLEAN : runValidationPhase(list, skip)
         \/ \E f \in toVerify, passes \in BOOLEAN : VerifyFile(f, passes)
         \/ \E has \in BOOLEAN : verifyCoreHealth(has)
  PROVE  ValidInv'
<1>1. /\ stage \in {"idle", "verifying"} /\ UNCHANGED <<ended, summed>>
      /\ stage' \in {"verifying", "running", "done"}
      /\ \/ stage' # "done" /\ judged' = judged
         \/ stage' = "done" /\ judged' \in {Skipped, NoTestFiles}
  BY DEF runTestSuite, runValidationPhase, VerifyFile, verifyCoreHealth
<1>2. ended = << >> /\ judged = NoVerdict /\ summed \in Sums /\ TrueOf(summed, ended)
  BY <1>1 DEF ValidInv
<1>3. RunIsJudged'
  BY <1>1, <1>2
  DEF RunIsJudged, SuccessIsEarned, FailureIsReal, RateIsBounded, NoVerdict, Skipped, NoTestFiles
<1>4. \E S : ended' \in Seq(S)
  BY <1>1 DEF ValidInv
<1> QED BY <1>1, <1>2, <1>3, <1>4 DEF ValidInv

\* What is reported is true of the processes there were (TestValidation).
LEMMA ValidKeeps == ValidInv /\ [ValidNext]_validVars => ValidInv'
<1> SUFFICES ASSUME ValidInv, [ValidNext]_validVars PROVE ValidInv'  OBVIOUS
<1>1. CASE ValidNext
  BY <1>1, PlanKeeps, RunKeeps, VerdictIsTrue DEF ValidNext
<1>2. CASE UNCHANGED validVars
  BY ZenonT(60), <1>2 DEF validVars, ValidInv, RunIsJudged, SuccessIsEarned, FailureIsReal, RateIsBounded
<1> QED BY <1>1, <1>2

\* The sums are true of the processes that have ended, in every state of a validation.
THEOREM ValidInvariant == ValidSpec => []ValidInv
BY ValidInitially, ValidKeeps, PTL DEF ValidSpec

\* Whatever tests print, in whichever order processes fail and for any findings and
\* changes: a reported success had every process start and end with 0, a reported
\* failure has a reason, and the rate is a percentage unless a native process did not
\* start or the native suite has failed, either of which counts one failure of none.
THEOREM ValidationIsTrue == ValidSpec => []RunIsJudged
<1>1. ValidInv => RunIsJudged
  BY DEF ValidInv
<1> QED BY <1>1, ValidInvariant, PTL

-----------------------------------------------------------------------------
(* The coverage report.  A report reads the one before it, so the          *)
(* invariant says of the text of the last report which technologies it may *)
(* show: those the files showed then, and three by their names             *)
(* (ReportRepeats).                                                        *)

\* The names that fit a pattern.
SelfNamed == {"slm_gguf", "wasm_micro_agents", "micro_gpt_neural"}

\* A technology the report's own text shows is one of those, or one the last report saw.
ReportRepeats == Len(reports) > 0 =>
  \A tech \in DOMAIN pattern :
    text[ReportFile] \cap pattern[tech] # {} => tech \in SelfNamed \cup reports[Len(reports)].shown

\* What a report says of the catalog.
Report == [detected : SUBSET DOMAIN pattern, blindspots : SUBSET DOMAIN pattern,
           coverage : Nat, shown : SUBSET DOMAIN pattern]

\* Types.
CoverageTypeOK == DOMAIN text = ToSet(Walk) /\ reports \in Seq(Report) /\ Len(reports) <= 2

\* The invariant: what the last report has left in its own file is the only thing to
\* add to the property.
CoverageInv == CoverageTypeOK /\ CoverageIsTrue /\ ReportRepeats

\* The names of the catalog.
Technologies ==
  {"ts_bun", "slm_gguf", "local_slm_engine", "zvec_grep", "wasm_micro_agents", "zig_native_ffi",
   "go_hub_grpc", "rust_simd", "winui_dsh_desktop", "sqlite_persistence", "micro_gpt_neural"}

\* Each of them has a pattern.
LEMMA Catalog == DOMAIN pattern = Technologies
BY DEF pattern, Technologies

\* The catalog is finite.
LEMMA FewTechnologies == IsFiniteSet(Technologies)
<1>1. IsFiniteSet({})
  BY FS_EmptySet
<1>2. Technologies = {} \cup {"ts_bun"} \cup {"slm_gguf"} \cup {"local_slm_engine"} \cup {"zvec_grep"}
    \cup {"wasm_micro_agents"} \cup {"zig_native_ffi"} \cup {"go_hub_grpc"} \cup {"rust_simd"}
    \cup {"winui_dsh_desktop"} \cup {"sqlite_persistence"} \cup {"micro_gpt_neural"}
  BY DEF Technologies
<1> QED
  BY ZenonT(60), <1>1, <1>2, FS_AddElement, Zenon

\* Each of them is handled by some persona.
LEMMA EachHasPersona == Technologies \subseteq UNION {handledTechs[p] : p \in DOMAIN handledTechs}
<1>1. /\ \A p \in {"strategic_cognitive_architect", "audit_code_guardian",
                   "resilience_healing_architect", "sys_perf_architect", "ui_ux_architect"} :
           p \in DOMAIN handledTechs
      /\ handledTechs["strategic_cognitive_architect"] =
           {"slm_gguf", "local_slm_engine", "zvec_grep", "micro_gpt_neural", "ts_bun"}
      /\ handledTechs["audit_code_guardian"] = {"rust_simd", "go_hub_grpc", "ts_bun"}
      /\ handledTechs["resilience_healing_architect"] =
           {"sqlite_persistence", "ts_bun", "zig_native_ffi"}
      /\ handledTechs["sys_perf_architect"] = {"ts_bun", "wasm_micro_agents"}
      /\ handledTechs["ui_ux_architect"] = {"winui_dsh_desktop", "ts_bun"}
  BY DEF handledTechs
<1> SUFFICES ASSUME NEW tech \in Technologies
             PROVE  \E p \in DOMAIN handledTechs : tech \in handledTechs[p]
  OBVIOUS
<1> QED
  BY <1>1 DEF Technologies

\* The rounded tenths of a percent without a blind spot.
LEMMA FullCoverage == ASSUME NEW n \in Nat, n > 0 PROVE (2000 * (n - 0) + n) \div (2 * n) = 1000
<1>1. 2000 * (n - 0) + n = 1000 * (2 * n) + n
  OBVIOUS
<1>2. \A m, r \in Nat : r < m => (1000 * m + r) \div m = 1000
  BY SMT
<1> QED
  BY <1>1, <1>2
\* A set of numbers that is not empty has a least one.
LEMMA LeastOf == ASSUME NEW S \in SUBSET Nat, S # {} PROVE \E i \in S : \A j \in S : i <= j
<1>1. PICK i \in S : \A j \in S : ~ (<<j, i>> \in OpToRel(<, Nat))
  BY NatLessThanWellFounded, WFMin
<1>2. \A j \in S : ~ (j < i)
  BY <1>1 DEF OpToRel
<1> QED
  BY <1>2

\* The files are those of the walk.
LEMMA Places == /\ \A f \in ToSet(Walk) : \E i \in DOMAIN Walk : f = Walk[i]
                /\ \A i \in DOMAIN Walk : Walk[i] \in ToSet(Walk)
                /\ DOMAIN Walk \subseteq Nat
BY CoverageAssumption DEF ToSet

\* If a manifest is admitted, there is a first one.
LEMMA FirstManifest ==
  ASSUME NEW tech, NEW i \in DOMAIN manifests, manifestCheck(tech), Says(manifests[i]),
         manifests[i] = "package.json" \/ text[manifests[i]] \cap pattern[tech] # {}
  PROVE  ManifestEvidence(tech) # {}
<1> DEFINE admitted == {j \in DOMAIN manifests :
        /\ manifestCheck(tech) /\ Says(manifests[j])
        /\ manifests[j] = "package.json" \/ text[manifests[j]] \cap pattern[tech] # {}}
<1>1. i \in admitted
  OBVIOUS
<1>2. DOMAIN manifests = 1..3
  BY DEF manifests
<1>3. admitted \in SUBSET Nat
  BY <1>2
<1>4. ManifestEvidence(tech) = {manifests[k] : k \in {k \in admitted : \A j \in admitted : k <= j}}
  BY DEF ManifestEvidence
<1> HIDE DEF admitted
<1>5. PICK k \in admitted : \A j \in admitted : k <= j
  BY <1>1, <1>3, LeastOf
<1> QED
  BY <1>4, <1>5

\* What a manifest is an evidence of: the check was passed, and it is there.
LEMMA ManifestIsThere ==
  ASSUME NEW tech, NEW f \in ManifestEvidence(tech)
  PROVE  manifestCheck(tech) /\ Says(f)
BY DEF ManifestEvidence

\* A technology a manifest or a file shows has an evidence, however few are kept.
LEMMA SomeEvidence ==
  ASSUME NEW tech, NEW n \in Nat, n > 0,
         ManifestEvidence(tech) # {} \/ \E f \in ToSet(Walk) : Matches(tech, f)
  PROVE  evidences(tech, n) # {}
<1> DEFINE first == ManifestEvidence(tech)
           more == {i \in DOMAIN Walk : Walk[i] \notin first /\ Matches(tech, Walk[i])}
<1>1. evidences(tech, n) = first \cup {Walk[i] : i \in {i \in more :
                    Cardinality(first) + Cardinality({j \in more : j < i}) < n}}
  BY DEF evidences
<1>2. CASE first # {}
  BY <1>1, <1>2
<1>3. CASE first = {}
  <2>1. more # {} /\ more \in SUBSET Nat
    BY <1>3, Places
  <2> HIDE DEF more
  <2>2. PICK i \in more : \A j \in more : i <= j
    BY <2>1, LeastOf
  <2>3. {j \in more : j < i} = {}
    <3> SUFFICES ASSUME NEW j \in more, j < i PROVE FALSE
      OBVIOUS
    <3>1. j \in Nat /\ i \in Nat /\ i <= j
      BY <2>1, <2>2
    <3> QED
      BY <3>1
  <2>4. Cardinality(first) + Cardinality({j \in more : j < i}) = 0
    BY <1>3, <2>3, FS_EmptySet
  <2> QED
    BY <1>1, <2>2, <2>4
<1> QED
  BY <1>2, <1>3

\* An evidence is a manifest or a file with the pattern.
LEMMA EvidenceIsThere ==
  ASSUME NEW tech, NEW n, NEW f \in evidences(tech, n)
  PROVE  f \in ManifestEvidence(tech) \/ (f \in ToSet(Walk) /\ Matches(tech, f))
BY Places DEF evidences

\* What the files show, the diagnosis detects.
LEMMA ShownIsDetected ==
  ASSUME CoverageTypeOK
  PROVE  Shown \subseteq detectProjectTechnologies
<1> SUFFICES ASSUME NEW tech \in Shown PROVE evidences(tech, 5) # {}
  BY DEF Shown, detectProjectTechnologies
<1> SUFFICES ManifestEvidence(tech) # {} \/ \E f \in ToSet(Walk) : Matches(tech, f)
  BY SomeEvidence
<1>1. CASE \E f \in ToSet(Walk) \ {ReportFile} : Matches(tech, f)
  BY <1>1
<1>2. CASE tech \in DOMAIN PackageWords /\ manifestCheck(tech)
  <2>0. tech # "zig_native_ffi"
    BY <1>2 DEF PackageWords
  <2>1. Says("package.json")
    BY <1>2, <2>0 DEF manifestCheck
  <2>2. 1 \in DOMAIN manifests /\ manifests[1] = "package.json"
    BY DEF manifests
  <2> QED
    BY <1>2, <2>1, <2>2, FirstManifest
<1>3. CASE tech = "zig_native_ffi" /\ manifestCheck(tech)
  <2>1. "zig_native_ffi" \notin DOMAIN PackageWords
    BY DEF PackageWords
  <2>2. Says("build.zig")
    BY <1>3, <2>1 DEF manifestCheck
  <2>3. Matches(tech, "build.zig")
    BY <1>3, <2>2, CoverageAssumption DEF Matches, Says
  <2> QED
    BY <2>2, <2>3 DEF Says
<1>4. manifestCheck(tech) => tech \in DOMAIN PackageWords \/ tech = "zig_native_ffi"
  BY DEF manifestCheck
<1> QED
  BY <1>1, <1>2, <1>3, <1>4 DEF Shown

\* What it detects beyond that, it has read in its own report.
LEMMA GhostIsRead ==
  ASSUME NEW tech \in detectProjectTechnologies \ Shown
  PROVE  text[ReportFile] \cap pattern[tech] # {}
<1>1. PICK f : f \in evidences(tech, 5)
  BY DEF detectProjectTechnologies
<1>2. tech \in DOMAIN pattern
  BY DEF detectProjectTechnologies
<1>3. f \notin ManifestEvidence(tech)
  BY <1>2, ManifestIsThere DEF Shown
<1>4. f \in ToSet(Walk) /\ Matches(tech, f)
  BY <1>1, <1>3, EvidenceIsThere
<1>5. f = ReportFile
  BY <1>2, <1>4 DEF Shown
<1> QED
  BY <1>2, <1>4, <1>5, CoverageAssumption DEF Matches

\* What the new report repeats.
LEMMA NewReportRepeats ==
  ASSUME CoverageTypeOK, NEW detected \in SUBSET DOMAIN pattern, NEW tech \in DOMAIN pattern,
         ReportText(detected) \cap pattern[tech] # {}
  PROVE  tech \in SelfNamed \cup Shown
<1>0. PICK w \in pattern[tech] : w \in ReportText(detected)
  OBVIOUS
<1>1. \/ \E t \in detected : w \in NameWords(t)
      \/ \E t \in detected : \E f \in evidences(t, 2) : w \in PathWords[f]
  <2>1. CASE w \in UNION {NameWords(t) : t \in detected}
    BY <2>1
  <2>2. CASE w \in UNION {PathWords[f] : f \in UNION {evidences(t, 2) : t \in detected}}
    BY <2>2
  <2>3. w \in (UNION {NameWords(t) : t \in detected})
            \cup UNION {PathWords[f] : f \in UNION {evidences(t, 2) : t \in detected}}
    BY <1>0, Zenon DEF ReportText
  <2>4. \/ w \in UNION {NameWords(t) : t \in detected}
        \/ w \in UNION {PathWords[f] : f \in UNION {evidences(t, 2) : t \in detected}}
    BY <2>3, Zenon
  <2> QED
    BY <2>1, <2>2, <2>4
<1>2. CASE \E t \in detected : w \in NameWords(t)
  <2>1. w \in {"llama", "WASI", "MicroGPT"}
    BY <1>2 DEF NameWords
  <2>2. tech \in SelfNamed
    BY <1>1, <2>1, Catalog DEF SelfNamed, pattern, Technologies
  <2> QED BY <2>2
<1>3. CASE \E t \in detected : \E f \in evidences(t, 2) : w \in PathWords[f]
  <2>0. PICK t \in detected : \E f \in evidences(t, 2) : w \in PathWords[f]
    BY <1>3
  <2>1. PICK f \in evidences(t, 2) : w \in PathWords[f]
    BY <2>0
  <2>2. f \in ToSet(Walk) /\ text[f] # Missing
    BY <2>1, EvidenceIsThere, ManifestIsThere DEF Says, Matches, Missing
  <2>3. f # ReportFile
    BY <2>1, CoverageAssumption
  <2>4. Matches(tech, f)
    BY <2>1, <2>2 DEF Matches
  <2> QED
    BY <2>2, <2>3, <2>4 DEF Shown
<1> QED
  BY <1>1, <1>2, <1>3

\* There is no report at first.
LEMMA CoverageInitially == CoverageInit => CoverageInv
<1> SUFFICES ASSUME CoverageInit PROVE CoverageInv
  OBVIOUS
<1>1. reports = << >> /\ DOMAIN text = ToSet(Walk)
  BY CoverageAssumption DEF CoverageInit
<1> QED
  BY <1>1 DEF CoverageInv, CoverageTypeOK, CoverageIsTrue, ReportRepeats

\* Files that change leave the report as it is.
LEMMA RewriteKeeps ==
  ASSUME CoverageInv, NEW f, NEW words, Rewrite(f, words)
  PROVE  CoverageInv'
<1>1. DOMAIN text' = DOMAIN text /\ text'[ReportFile] = text[ReportFile] /\ reports' = reports
  BY CoverageAssumption DEF Rewrite, CoverageInv, CoverageTypeOK
<1> QED
  BY <1>1 DEF CoverageInv, CoverageTypeOK, CoverageIsTrue, ReportRepeats

\* The report that generateReport writes.
NewReport ==
  [detected |-> detectProjectTechnologies,
   blindspots |-> detectProjectTechnologies
                    \ UNION {handledTechs[p] : p \in DOMAIN handledTechs},
   shown |-> Shown,
   coverage |-> LET n == Cardinality(detectProjectTechnologies)
                    b == Cardinality(detectProjectTechnologies
                           \ UNION {handledTechs[p] : p \in DOMAIN handledTechs})
                IN IF n > 0 THEN (2000 * (n - b) + n) \div (2 * n) ELSE 1000]

\* What it has in it; with the lists of the personas as they are, no blind spot.
LEMMA NewReportIsFull ==
  /\ NewReport \in Report
  /\ NewReport.blindspots = {} /\ NewReport.coverage = 1000
  /\ NewReport.detected = detectProjectTechnologies /\ NewReport.shown = Shown
<1> DEFINE D == detectProjectTechnologies
           b == D \ UNION {handledTechs[p] : p \in DOMAIN handledTechs}
<1>1. D \subseteq DOMAIN pattern /\ Shown \subseteq DOMAIN pattern
  BY DEF detectProjectTechnologies, Shown
<1>2. b = {}
  BY <1>1, Catalog, EachHasPersona
<1>3. IsFiniteSet(D) /\ Cardinality(D) \in Nat
  BY <1>1, Catalog, FewTechnologies, FS_Subset, FS_CardinalityType
<1>4. Cardinality(b) = 0
  BY <1>2, FS_EmptySet
<1>5. /\ NewReport.detected = D /\ NewReport.blindspots = b /\ NewReport.shown = Shown
      /\ NewReport.coverage =
           IF Cardinality(D) > 0
           THEN (2000 * (Cardinality(D) - Cardinality(b)) + Cardinality(D)) \div (2 * Cardinality(D))
           ELSE 1000
      /\ NewReport = [detected |-> D, blindspots |-> b, shown |-> Shown, coverage |-> NewReport.coverage]
  BY DEF NewReport
<1> HIDE DEF D, b
<1>6. NewReport.coverage = 1000
  BY <1>3, <1>4, <1>5, FullCoverage
<1>7. NewReport \in Report
  BY <1>1, <1>2, <1>5, <1>6 DEF Report
<1> QED
  BY <1>2, <1>5, <1>6, <1>7 DEF D

\* The list of the last two reports.
LEMMA LastTwo ==
  ASSUME NEW S, NEW s \in Seq(S), Len(s) <= 2, NEW x \in S,
         NEW u, Len(s) = 2 => u = Tail(s), Len(s) # 2 => u = s
  PROVE  /\ Append(u, x) \in Seq(S) /\ Len(Append(u, x)) \in 1..2
         /\ Append(u, x)[Len(Append(u, x))] = x
         /\ Len(Append(u, x)) = 2 => Len(s) > 0 /\ Append(u, x)[1] = s[Len(s)]
<1>1. Len(s) \in Nat
  BY LenProperties
<1>2. u \in Seq(S) /\ Len(u) \in 0..1 /\ (Len(u) = 1 => Len(s) > 0 /\ u[1] = s[Len(s)])
  <2>1. CASE Len(s) = 2
    <3>1. s # << >>
      BY SMTT(60), <2>1
    <3>2. /\ Tail(s) \in Seq(S) /\ Len(Tail(s)) = Len(s) - 1
          /\ \A i \in 1..Len(Tail(s)) : Tail(s)[i] = s[i + 1]
      BY <3>1, HeadTailProperties
    <3>3. Len(s) - 1 = 1 /\ 1 \in 1..1 /\ 1 + 1 = 2
      BY <2>1
    <3>4. Tail(s)[1] = s[2]
      BY <3>2, <3>3
    <3> QED
      BY <2>1, <3>2, <3>3, <3>4
  <2>2. CASE Len(s) # 2
    <3>1. u = s
      BY <2>2
    <3>2. \A n \in Nat : n <= 2 /\ n # 2 => n \in 0..1 /\ (n = 1 => n > 0)
      OBVIOUS
    <3> QED
      BY <1>1, <2>2, <3>1, <3>2
  <2> QED
    BY <2>1, <2>2
<1>3. /\ Append(u, x) \in Seq(S) /\ Len(Append(u, x)) = Len(u) + 1
      /\ Append(u, x)[Len(u) + 1] = x /\ \A i \in 1..Len(u) : Append(u, x)[i] = u[i]
  BY <1>2, AppendProperties
<1>4. \A n \in 0..1 : n + 1 \in 1..2 /\ (n + 1 = 2 => n = 1 /\ 1 \in 1..n)
  OBVIOUS
<1> QED
  BY <1>2, <1>3, <1>4

\* A report more: what it has beyond the files was in the text of the last one, which
\* had been seen then, unless it is a name.
LEMMA ReportKeeps ==
  ASSUME CoverageInv, generateReport
  PROVE  CoverageInv'
<1>1. /\ reports' = Append(IF Len(reports) = 2 THEN Tail(reports) ELSE reports, NewReport)
      /\ text' = [text EXCEPT ![ReportFile] = ReportText(detectProjectTechnologies)]
  BY DEF generateReport, NewReport
<1>2. /\ reports' \in Seq(Report) /\ Len(reports') \in 1..2 /\ reports'[Len(reports')] = NewReport
      /\ Len(reports') = 2 => Len(reports) > 0 /\ reports'[1] = reports[Len(reports)]
  <2>1. reports \in Seq(Report) /\ Len(reports) <= 2 /\ NewReport \in Report
    BY NewReportIsFull DEF CoverageInv, CoverageTypeOK
  <2> DEFINE kept == IF Len(reports) = 2 THEN Tail(reports) ELSE reports
  <2>2. (Len(reports) = 2 => kept = Tail(reports)) /\ (Len(reports) # 2 => kept = reports)
    OBVIOUS
  <2>3. reports' = Append(kept, NewReport)
    BY <1>1
  <2> HIDE DEF kept
  <2> QED
    BY <2>1, <2>2, <2>3, LastTwo
<1>3. DOMAIN text' = ToSet(Walk) /\ text'[ReportFile] = ReportText(detectProjectTechnologies)
  BY <1>1, CoverageAssumption DEF CoverageInv, CoverageTypeOK
<1>4. CoverageTypeOK'
  BY <1>2, <1>3 DEF CoverageTypeOK
<1>5. detectProjectTechnologies \subseteq DOMAIN pattern
  BY DEF detectProjectTechnologies
<1>6. ReportRepeats'
  <2>1. \A tech \in DOMAIN pattern :
          text'[ReportFile] \cap pattern[tech] # {} => tech \in SelfNamed \cup NewReport.shown
    BY <1>3, <1>5, NewReportRepeats, NewReportIsFull DEF CoverageInv
  <2> QED
    BY <1>2, <2>1 DEF ReportRepeats
<1>7. \A i \in DOMAIN reports' :
        reports'[i] = NewReport \/ \E j \in DOMAIN reports : reports'[i] = reports[j]
  <2>1. DOMAIN reports' = 1..Len(reports') /\ DOMAIN reports = 1..Len(reports) /\ Len(reports) \in Nat
    BY <1>2 DEF CoverageInv, CoverageTypeOK
  <2>2. \A i \in DOMAIN reports' : i = Len(reports') \/ (i = 1 /\ Len(reports') = 2)
    BY <1>2, <2>1
  <2> QED
    BY <1>2, <2>1, <2>2
<1>8. \A i \in DOMAIN reports' : reports'[i].shown \subseteq reports'[i].detected
  BY <1>7, NewReportIsFull, ShownIsDetected DEF CoverageInv, CoverageIsTrue
<1>9. Len(reports') = 2 =>
       (reports'[1].detected \ reports'[1].shown) \cap (reports'[2].detected \ reports'[2].shown)
         \subseteq SelfNamed
  <2> SUFFICES ASSUME Len(reports') = 2, NEW tech \in reports'[2].detected \ reports'[2].shown,
                      tech \notin reports'[1].shown
               PROVE  tech \in SelfNamed
    OBVIOUS
  <2>1. tech \in detectProjectTechnologies \ Shown
    BY <1>2, NewReportIsFull
  <2>2. tech \in DOMAIN pattern /\ text[ReportFile] \cap pattern[tech] # {}
    BY <1>5, <2>1, GhostIsRead
  <2> QED
    BY <1>2, <2>2 DEF CoverageInv, ReportRepeats
<1> QED
  BY <1>4, <1>6, <1>8, <1>9 DEF CoverageInv, CoverageIsTrue, SelfNamed

\* The report repeats only what it saw and three names, in every state.
THEOREM CoverageInvariant == CoverageSpec => []CoverageInv
<1>1. CoverageInv /\ [CoverageNext]_coverageVars => CoverageInv'
  <2> SUFFICES ASSUME CoverageInv, [CoverageNext]_coverageVars PROVE CoverageInv'
    OBVIOUS
  <2>1. CASE CoverageNext
    BY <2>1, RewriteKeeps, ReportKeeps DEF CoverageNext
  <2>2. CASE UNCHANGED coverageVars
    BY <2>2 DEF coverageVars, CoverageInv, CoverageTypeOK, CoverageIsTrue, ReportRepeats
  <2> QED
    BY <2>1, <2>2
<1> QED
  BY <1>1, CoverageInitially, PTL DEF CoverageSpec

\* A report misses nothing the files show, and no two on end claim what they do not,
\* but for the three names: for any project, any number of files, edits and reports.
THEOREM ReportOnCoverageIsTrue == CoverageSpec => []CoverageIsTrue
<1>1. CoverageInv => CoverageIsTrue
  BY DEF CoverageInv
<1> QED
  BY <1>1, CoverageInvariant, PTL

\* ReportsAreTrue: both reports can be relied on, whatever the tests do and the report
\* before said, while the two components run beside each other (ValidationPhase,
\* TestRunner and the coverage audit).
THEOREM BothReportsAreTrue == ValidSpec /\ CoverageSpec => []ReportsAreTrue
<1>1. RunIsJudged /\ CoverageIsTrue => ReportsAreTrue
  BY DEF ReportsAreTrue
<1> QED
  BY <1>1, ValidationIsTrue, ReportOnCoverageIsTrue, PTL

-----------------------------------------------------------------------------
(* The health score (HealthScore).  Worse findings move every count the    *)
(* pillars are made of one way only (the counts of files, the sum of their *)
(* complexities, the alerts), and every quotient, ceiling and rounding is  *)
(* monotone in its count: so are both scores.                              *)

\* What an audit knows of a file.
FileInfo ==
  [type : {"CORE", "TEST", "CONFIG"}, complexity : Nat, test : BOOLEAN, telemetry : BOOLEAN,
   purpose : {"stated", "UNKNOWN"}]

\* The types of what is scored.
ScoreTypeOK ==
  /\ map \in [SourceFiles -> FileInfo]
  /\ alerts \in [Severities -> Nat]
  /\ cognitive \in {"HEALTHY", "DEGRADED", "FAIL", "unknown"}

\* A quotient goes the way of its dividend.
LEMMA QuotientsFollow ==
  ASSUME NEW m \in Int, NEW n \in Int, n <= m, NEW d \in Nat, d > 0
  PROVE  /\ n \div d <= m \div d /\ n \div d \in Int /\ m \div d \in Int
<1> DEFINE p == n \div d
           q == m \div d
<1>1. /\ p \in Int /\ q \in Int /\ d * p <= n /\ n < d * (p + 1) /\ d * q <= m /\ m < d * (q + 1)
  OBVIOUS
<1> HIDE DEF p, q
<1>2. ~ (q < p)
  <2> SUFFICES ASSUME q + 1 <= p PROVE FALSE
    BY <1>1
  <2>1. \A a, b \in Int : a <= b => d * a <= d * b
    OBVIOUS
  <2>2. d * (q + 1) <= d * p /\ d * p \in Int /\ d * (q + 1) \in Int
    BY <1>1, <2>1
  <2> QED
    BY <1>1, <2>2
<1>3. p <= q
  BY <1>1, <1>2
<1> QED
  BY <1>1, <1>3 DEF p, q

\* A share, of fewer.
LEMMA SharesFollow ==
  ASSUME NEW points \in Nat, NEW m \in Nat, NEW n \in Nat, n <= m, NEW of \in Nat
  PROVE  /\ Share(points, n, of) <= Share(points, m, of)
         /\ Share(points, n, of) \in Int /\ Share(points, m, of) \in Int
<1> DEFINE d == AtLeast(of, 1)
           k == 60 * points
<1>1. d \in Nat /\ d > 0 /\ k \in Nat
  BY DEF AtLeast
<1> HIDE DEF d, k
<1>2. \A c, a, b \in Nat : a <= b => c * a <= c * b
  OBVIOUS
<1>3. k * n \in Int /\ k * m \in Int /\ k * n <= k * m
  BY <1>1, <1>2
<1>4. (k * n) \div d <= (k * m) \div d /\ (k * n) \div d \in Int /\ (k * m) \div d \in Int
  BY <1>1, <1>3, QuotientsFollow
<1> QED
  BY <1>4 DEF Share, d, k

\* The sum of the complexities is a number, and no step changes it.
LEMMA SumIsNat == ASSUME ScoreTypeOK PROVE SumComplexity \in Nat
<1> DEFINE units == {{f} \X (1..map[f].complexity) : f \in SourceFiles}
<1>1. IsFiniteSet(units)
  <2> DEFINE u == [f \in SourceFiles |-> {f} \X (1..map[f].complexity)]
  <2>1. u \in Surjection(SourceFiles, units)
    BY DEF Surjection
  <2> QED
    BY <2>1, ScoreAssumption, FS_Surjection
<1>2. \A u \in units : IsFiniteSet(u)
  <2> SUFFICES ASSUME NEW f \in SourceFiles PROVE IsFiniteSet({f} \X (1..map[f].complexity))
    OBVIOUS
  <2>1. map[f].complexity \in Nat
    BY DEF ScoreTypeOK, FileInfo
  <2>2. IsFiniteSet({f}) /\ IsFiniteSet(1..map[f].complexity)
    <3>1. 1 \in Int /\ map[f].complexity \in Int
      BY <2>1
    <3> QED
      BY <3>1, FS_Singleton, FS_Interval
  <2> QED
    BY <2>2, FS_Product
<1>3. IsFiniteSet(UNION units)
  BY <1>1, <1>2, FS_UNION
<1> QED
  BY <1>3, FS_CardinalityType DEF SumComplexity

\* No file has become better, and none more or less complex.
NoFileBetter == \A f \in SourceFiles :
  /\ map'[f].type = map[f].type /\ map'[f].complexity = map[f].complexity
  /\ map'[f].test => map[f].test
  /\ map'[f].telemetry => map[f].telemetry
  /\ map'[f].purpose = "stated" => map[f].purpose = "stated"

\* No alert has gone.
NoAlertLess == \A s \in Severities : alerts[s] <= alerts'[s]

\* Fewer files are counted less.
LEMMA CountsFollow ==
  ASSUME NEW T, T \subseteq SourceFiles, NEW U, U \subseteq T
  PROVE  Cardinality(U) <= Cardinality(T) /\ Cardinality(U) \in Nat /\ Cardinality(T) \in Nat
<1>1. IsFiniteSet(SourceFiles)
  BY ScoreAssumption
<1>2. IsFiniteSet(T)
  BY <1>1, FS_Subset
<1>3. IsFiniteSet(U) /\ Cardinality(U) <= Cardinality(T)
  BY <1>2, FS_Subset
<1> QED
  BY <1>2, <1>3, FS_CardinalityType

\* There is a file.
LEMMA SomeFile == Total \in Nat /\ Total > 0
<1>1. IsFiniteSet(SourceFiles) /\ SourceFiles # {}
  BY ScoreAssumption
<1>2. Cardinality(SourceFiles) \in Nat /\ Cardinality(SourceFiles) # 0
  BY <1>1, FS_CardinalityType, FS_EmptySet
<1> QED
  BY <1>2 DEF Total

\* Where no file has become better, the hub's pillars of files stay or shrink.
LEMMA HubPillarsFollow ==
  ASSUME ScoreTypeOK, ScoreTypeOK', NoFileBetter
  PROVE  /\ calc_stability' <= calc_stability /\ calc_stability \in Int /\ calc_stability' \in Int
         /\ calc_observability' <= calc_observability
         /\ calc_observability \in Int /\ calc_observability' \in Int
         /\ calc_excellence' <= calc_excellence /\ calc_excellence \in Int /\ calc_excellence' \in Int
         /\ SumComplexity' = SumComplexity /\ calc_quality_bonus' = calc_quality_bonus
<1> DEFINE markers == {f \in SourceFiles : IsMarker(map[f])}
           relevant == {f \in SourceFiles : IsRelevant(map[f])}
           covered == {f \in SourceFiles : IsRelevant(map[f]) /\ map[f].test}
           observed == {f \in SourceFiles : \/ map[f].type \notin {"TEST", "PACKAGE_MARKER", "CONFIG"}
                                            \/ map[f].complexity > 1}
           traced == {f \in SourceFiles : /\ \/ map[f].type \notin {"TEST", "PACKAGE_MARKER", "CONFIG"}
                                             \/ map[f].complexity > 1
                                          /\ map[f].telemetry}
           stated == {f \in SourceFiles : map[f].purpose # "UNKNOWN" \/ IsMarker(map[f])}
           tested == {f \in SourceFiles : map[f].type # "TEST"}
<1>1. \A f \in SourceFiles : map[f] \in FileInfo /\ map'[f] \in FileInfo
  BY DEF ScoreTypeOK, FileInfo
<1>2. /\ markers' = markers /\ relevant' = relevant /\ observed' = observed /\ tested' = tested
      /\ covered' \subseteq covered /\ traced' \subseteq traced
  BY DEF NoFileBetter, IsMarker, IsRelevant
<1>3. stated' \subseteq stated
  BY <1>1 DEF NoFileBetter, IsMarker, FileInfo
<1>4. /\ calc_stability =
           LET total == Cardinality(relevant) + Cardinality(markers)
           IN  Share(40, AtMost(Cardinality(covered) + Cardinality(markers), total), total)
      /\ calc_observability = Share(15, Cardinality(traced), Cardinality(observed))
      /\ calc_excellence = Share(10, Cardinality(stated), Total)
      /\ calc_quality_bonus = 72 * Cardinality(tested)
  BY DEF calc_stability, calc_observability, calc_excellence, calc_quality_bonus, FilesWith
<1>5. /\ calc_stability' =
           LET total == Cardinality(relevant') + Cardinality(markers')
           IN  Share(40, AtMost(Cardinality(covered') + Cardinality(markers'), total), total)
      /\ calc_observability' = Share(15, Cardinality(traced'), Cardinality(observed'))
      /\ calc_excellence' = Share(10, Cardinality(stated'), Total)
      /\ calc_quality_bonus' = 72 * Cardinality(tested')
  BY DEF calc_stability, calc_observability, calc_excellence, calc_quality_bonus, FilesWith,
         AtMost, Share, AtLeast, Total, IsMarker, IsRelevant
<1>6. /\ markers \subseteq SourceFiles /\ relevant \subseteq SourceFiles /\ covered \subseteq SourceFiles
      /\ observed \subseteq SourceFiles /\ traced \subseteq SourceFiles /\ stated \subseteq SourceFiles
  OBVIOUS
<1> HIDE DEF markers, relevant, covered, observed, traced, stated, tested
<1>7. /\ Cardinality(covered') <= Cardinality(covered)
      /\ Cardinality(covered) \in Nat /\ Cardinality(covered') \in Nat
  BY <1>2, <1>6, CountsFollow
<1>8. /\ Cardinality(traced') <= Cardinality(traced)
      /\ Cardinality(traced) \in Nat /\ Cardinality(traced') \in Nat
  BY <1>2, <1>6, CountsFollow
<1>9. /\ Cardinality(stated') <= Cardinality(stated)
      /\ Cardinality(stated) \in Nat /\ Cardinality(stated') \in Nat
  BY <1>3, <1>6, CountsFollow
<1>10. Cardinality(markers) \in Nat /\ Cardinality(relevant) \in Nat /\ Cardinality(observed) \in Nat
  BY <1>6, CountsFollow
<1>11. calc_stability' <= calc_stability /\ calc_stability \in Int /\ calc_stability' \in Int
  <2> DEFINE total == Cardinality(relevant) + Cardinality(markers)
             n == AtMost(Cardinality(covered') + Cardinality(markers), total)
             m == AtMost(Cardinality(covered) + Cardinality(markers), total)
  <2>1. total \in Nat /\ n \in Nat /\ m \in Nat /\ n <= m
    BY <1>7, <1>10 DEF AtMost
  <2>2. calc_stability = Share(40, m, total) /\ calc_stability' = Share(40, n, total)
    BY <1>2, <1>4, <1>5
  <2> HIDE DEF total, n, m
  <2>3. 40 \in Nat
    OBVIOUS
  <2> QED
    BY <2>1, <2>2, <2>3, SharesFollow
<1>12. /\ calc_observability' <= calc_observability
       /\ calc_observability \in Int /\ calc_observability' \in Int
  <2>1. 15 \in Nat
    OBVIOUS
  <2> QED
    BY <1>2, <1>4, <1>5, <1>8, <1>10, <2>1, SharesFollow
<1>13. calc_excellence' <= calc_excellence /\ calc_excellence \in Int /\ calc_excellence' \in Int
  <2>1. 10 \in Nat
    OBVIOUS
  <2> QED
    BY <1>4, <1>5, <1>9, <2>1, SomeFile, SharesFollow
<1>14. SumComplexity' = SumComplexity
  <2>1. \A f \in SourceFiles : {f} \X (1..map'[f].complexity) = {f} \X (1..map[f].complexity)
    BY DEF NoFileBetter
  <2>2. {{f} \X (1..map'[f].complexity) : f \in SourceFiles}
          = {{f} \X (1..map[f].complexity) : f \in SourceFiles}
    BY <2>1
  <2> QED
    BY <2>2 DEF SumComplexity
<1>15. calc_quality_bonus' = calc_quality_bonus
  BY <1>2, <1>4, <1>5
<1> QED
  BY <1>11, <1>12, <1>13, <1>14, <1>15

\* Where there are no fewer alerts, security stays or shrinks.
LEMMA SecurityFollows ==
  ASSUME ScoreTypeOK, ScoreTypeOK', NoAlertLess
  PROVE  calc_security' <= calc_security /\ calc_security \in Int /\ calc_security' \in Int
<1>1. alerts["HIGH"] \in Nat /\ alerts'["HIGH"] \in Nat /\ alerts["HIGH"] <= alerts'["HIGH"]
  BY DEF ScoreTypeOK, NoAlertLess, Severities
<1> QED
  BY <1>1 DEF calc_security, AtLeast

\* The purity of both computations is a number.
LEMMA PurityIsInt ==
  ASSUME ScoreTypeOK
  PROVE  /\ calc_purity \in Int
         /\ AtLeast(60 * 15 - (90 * (SumComplexity - Total)) \div Total, 0) \in Int
<1>1. SumComplexity \in Nat /\ Total \in Nat /\ Total > 0
  BY SumIsNat, SomeFile
<1>2. (60 * SumComplexity) \div Total \in Int
  BY <1>1, QuotientsFollow
<1>3. (90 * (SumComplexity - Total)) \div Total \in Int
  BY <1>1, QuotientsFollow
<1>4. \A x \in Int : (60 + x) \div 2 \in Int
  OBVIOUS
<1>5. (60 + (60 * SumComplexity) \div Total) \div 2 \in Int
  BY <1>2, <1>4
<1>6. calc_purity \in Int
  BY <1>5 DEF calc_purity, AtLeast
<1> QED
  BY <1>3, <1>6 DEF AtLeast

\* The worse findings, the lower the hub's score, and with a high alert it is low.
LEMMA HubScoreFollows ==
  ASSUME ScoreTypeOK, ScoreTypeOK', NoFileBetter, NoAlertLess,
         cognitive' = cognitive \/ cognitive = "HEALTHY"
  PROVE  /\ calculate_score' <= calculate_score
         /\ calculate_score \in Nat
         /\ alerts["HIGH"] # 0 => calculate_score <= 70
<1> DEFINE bonus == calc_quality_bonus \div Total
           raw == calc_stability + calc_purity + calc_observability + calc_security
                    + calc_excellence + bonus
           ceiling == IF alerts["HIGH"] > 0 THEN 70
                      ELSE IF alerts["MEDIUM"] + alerts["none"] > 0 THEN 95 ELSE 100
           drained == AtLeast(AtMost(raw, 60 * ceiling) - get_adjustments, 0)
<1>1. calculate_score = Round(drained)
  BY DEF calculate_score
<1>2. calculate_score' = Round(drained')
  BY DEF calculate_score, Round, AtLeast, AtMost
<1>3. calc_purity' = calc_purity /\ calc_purity \in Int
  BY HubPillarsFollow, PurityIsInt DEF calc_purity, AtLeast, Total
<1>4. bonus' = bonus /\ bonus \in Int
  <2> DEFINE tested == Cardinality({f \in SourceFiles : map[f].type # "TEST"})
  <2>1. calc_quality_bonus = 72 * tested
    BY DEF calc_quality_bonus, FilesWith
  <2>2. tested \in Nat
    BY CountsFollow
  <2>3. calc_quality_bonus \in Int
    BY <2>1, <2>2
  <2>4. bonus \in Int
    BY <2>3, SomeFile, QuotientsFollow
  <2>5. calc_quality_bonus' = calc_quality_bonus
    BY HubPillarsFollow
  <2> QED
    BY <2>4, <2>5 DEF Total
<1>5. /\ calc_stability' <= calc_stability /\ calc_stability \in Int /\ calc_stability' \in Int
      /\ calc_observability' <= calc_observability
      /\ calc_observability \in Int /\ calc_observability' \in Int
      /\ calc_excellence' <= calc_excellence /\ calc_excellence \in Int /\ calc_excellence' \in Int
      /\ calc_security' <= calc_security /\ calc_security \in Int /\ calc_security' \in Int
  BY HubPillarsFollow, SecurityFollows
<1>6. raw' <= raw /\ raw \in Int /\ raw' \in Int
  <2> HIDE DEF bonus
  <2>1. raw = calc_stability + calc_purity + calc_observability + calc_security
                + calc_excellence + bonus
    OBVIOUS
  <2>2. raw' = calc_stability' + calc_purity + calc_observability' + calc_security'
                 + calc_excellence' + bonus
    BY <1>3, <1>4
  <2> HIDE DEF raw, ceiling, drained
  <2>3. raw \in Int
    BY <1>3, <1>4, <1>5, <2>1
  <2>4. raw' \in Int
    BY <1>3, <1>4, <1>5, <2>2
  <2>5. /\ calc_stability' \in Int /\ calc_stability \in Int /\ calc_purity \in Int
        /\ calc_observability' \in Int /\ calc_observability \in Int
        /\ calc_stability' <= calc_stability
        /\ calc_observability' <= calc_observability
    BY <1>3, <1>5
  <2>8. calc_stability' + calc_purity + calc_observability' <= calc_stability + calc_purity + calc_observability
    <3>1. \A a, b, c, d, k \in Int : a <= b /\ c <= d => a + k + c <= b + k + d
      OBVIOUS
    <3> QED
      BY <2>5, <3>1
  <2>9. /\ calc_stability' + calc_purity + calc_observability' \in Int
        /\ calc_stability + calc_purity + calc_observability \in Int
    BY <2>5
  <2>6. \A a, b, c, d, e, f, k \in Int : a <= b /\ c <= d /\ e <= f => a + c + e + k <= b + d + f + k
    OBVIOUS
  <2>7. raw' <= raw
    BY <1>4, <1>5, <2>1, <2>2, <2>8, <2>9, <2>6
  <2> QED
    BY <2>3, <2>4, <2>7
<1>7. ceiling' <= ceiling /\ ceiling \in Nat /\ ceiling' \in Nat
  <2>1. \A s \in {"HIGH", "MEDIUM", "none"} :
          alerts[s] \in Nat /\ alerts'[s] \in Nat /\ alerts[s] <= alerts'[s]
    BY DEF ScoreTypeOK, NoAlertLess, Severities
  <2> QED
    BY <2>1
<1>11. alerts["HIGH"] # 0 => ceiling = 70
  <2>1. alerts["HIGH"] \in Nat
    BY DEF ScoreTypeOK, Severities
  <2> QED
    BY <2>1
<1>8. get_adjustments <= get_adjustments' /\ get_adjustments \in Nat /\ get_adjustments' \in Nat
  BY DEF get_adjustments, ScoreTypeOK
<1> HIDE DEF raw, ceiling
<1>9. drained' <= drained /\ drained \in Nat /\ drained' \in Nat
  <2>1. \A r, q \in Int, c, k, a, b \in Nat : q <= r /\ k <= c /\ a <= b =>
          /\ AtLeast(AtMost(q, 60 * k) - b, 0) <= AtLeast(AtMost(r, 60 * c) - a, 0)
          /\ AtLeast(AtMost(q, 60 * k) - b, 0) \in Nat
          /\ AtLeast(AtMost(r, 60 * c) - a, 0) \in Nat
    BY DEF AtLeast, AtMost
  <2>2. drained' = AtLeast(AtMost(raw', 60 * ceiling') - get_adjustments', 0)
    BY DEF AtLeast, AtMost
  <2> QED
    BY <1>6, <1>7, <1>8, <2>1, <2>2
<1>12. alerts["HIGH"] # 0 => drained <= 4200
  <2>1. \A r \in Int, a \in Nat : AtLeast(AtMost(r, 60 * 70) - a, 0) <= 4200
    BY DEF AtLeast, AtMost
  <2> QED
    BY <1>6, <1>8, <1>11, <2>1
<1> HIDE DEF drained
<1>10. \A n, m \in Nat : n <= m => (n + 30) \div 60 <= (m + 30) \div 60
  OBVIOUS
<1>14. calculate_score \in Nat
  <2>1. \A n \in Nat : (n + 30) \div 60 \in Nat
    OBVIOUS
  <2> QED
    BY <1>1, <1>9, <2>1 DEF Round
<1>13. alerts["HIGH"] # 0 => calculate_score <= 70
  <2>1. \A n \in Nat : n <= 4200 => (n + 30) \div 60 <= 70
    OBVIOUS
  <2> QED
    BY <1>1, <1>9, <1>12, <2>1 DEF Round
<1> QED
  BY <1>1, <1>2, <1>9, <1>10, <1>13, <1>14 DEF Round

\* Worse findings lower the level of compliance, and with it both its limits.
LEMMA LevelFollows ==
  ASSUME ScoreTypeOK, ScoreTypeOK', NoAlertLess
  PROVE  /\ POLICIES[getComplianceLevel'] <= POLICIES[getComplianceLevel]
         /\ Ceilings[getComplianceLevel'] <= Ceilings[getComplianceLevel]
         /\ POLICIES[getComplianceLevel] \in Nat /\ POLICIES[getComplianceLevel'] \in Nat
         /\ Ceilings[getComplianceLevel] \in Nat /\ Ceilings[getComplianceLevel'] \in Nat
<1>1. /\ high \in Nat /\ high' \in Nat /\ high <= high'
      /\ med \in Nat /\ med' \in Nat /\ med <= med'
  BY DEF ScoreTypeOK, NoAlertLess, Severities, high, med
<1>2. /\ POLICIES["SOVEREIGN"] = 10 /\ POLICIES["EXCELLENT"] = 9 /\ POLICIES["STANDARD"] = 7
      /\ POLICIES["SUBSTANDARD"] = 5 /\ POLICIES["DEGRADED"] = 3 /\ POLICIES["CRITICAL"] = 1
      /\ Ceilings["SOVEREIGN"] = 100 /\ Ceilings["EXCELLENT"] = 95 /\ Ceilings["STANDARD"] = 85
      /\ Ceilings["SUBSTANDARD"] = 60 /\ Ceilings["DEGRADED"] = 40 /\ Ceilings["CRITICAL"] = 20
  BY DEF POLICIES, Ceilings
<1>3. /\ high > 5 => getComplianceLevel = "CRITICAL"
      /\ high \in 3 .. 5 => getComplianceLevel = "DEGRADED"
      /\ high \in 1 .. 2 => getComplianceLevel = "SUBSTANDARD"
      /\ high = 0 /\ med > 5 => getComplianceLevel = "STANDARD"
      /\ high = 0 /\ med \in 1 .. 5 => getComplianceLevel = "EXCELLENT"
      /\ high = 0 /\ med = 0 => getComplianceLevel = "SOVEREIGN"
  BY <1>1 DEF getComplianceLevel
<1>4. /\ high' > 5 => getComplianceLevel' = "CRITICAL"
      /\ high' \in 3 .. 5 => getComplianceLevel' = "DEGRADED"
      /\ high' \in 1 .. 2 => getComplianceLevel' = "SUBSTANDARD"
      /\ high' = 0 /\ med' > 5 => getComplianceLevel' = "STANDARD"
      /\ high' = 0 /\ med' \in 1 .. 5 => getComplianceLevel' = "EXCELLENT"
      /\ high' = 0 /\ med' = 0 => getComplianceLevel' = "SOVEREIGN"
  BY <1>1 DEF getComplianceLevel
<1>5. \A h, m \in Nat : \/ h > 5 \/ h \in 3 .. 5 \/ h \in 1 .. 2
                        \/ (h = 0 /\ m > 5) \/ (h = 0 /\ m \in 1 .. 5) \/ (h = 0 /\ m = 0)
  OBVIOUS
<1> QED
  BY <1>1, <1>2, <1>3, <1>4, <1>5

\* The worse findings, the lower the engine's total, and with a high alert it is low.
LEMMA EngineScoreFollows ==
  ASSUME ScoreTypeOK, ScoreTypeOK', NoFileBetter, NoAlertLess
  PROVE  /\ calculateHealth' <= calculateHealth
         /\ calculateHealth \in Nat
         /\ alerts["HIGH"] # 0 => calculateHealth <= 6000
<1> DEFINE tested == Cardinality({f \in SourceFiles : map[f].test})
           traced == Cardinality({f \in SourceFiles : map[f].type # "TEST" /\ map[f].telemetry})
           stated == Cardinality({f \in SourceFiles : map[f].purpose = "stated"})
           purity == AtLeast(60 * 15 - (90 * (SumComplexity - Total)) \div Total, 0)
           level == getComplianceLevel
           penalty == 12 * (15 * high + 5 * med + low)
<1>1. calcPillars = Share(35, tested, Total) + purity + Share(10, traced, Total) + calc_security
                      + Share(10, stated, Total) + 90 * POLICIES[level]
  BY DEF calcPillars, FilesWith
<1>2. calcPillars' = Share(35, tested', Total) + purity' + Share(10, traced', Total) + calc_security'
                       + Share(10, stated', Total) + 90 * POLICIES[level']
  BY DEF calcPillars, FilesWith, Share, AtLeast, Total, POLICIES
<1>3. tested' <= tested /\ tested \in Nat /\ tested' \in Nat
  <2> DEFINE T == {f \in SourceFiles : map[f].test}
  <2>1. T \subseteq SourceFiles /\ T' \subseteq T
    BY DEF NoFileBetter
  <2> HIDE DEF T
  <2>2. Cardinality(T') <= Cardinality(T) /\ Cardinality(T') \in Nat /\ Cardinality(T) \in Nat
    BY <2>1, CountsFollow
  <2> QED
    BY <2>2 DEF T
<1>4. traced' <= traced /\ traced \in Nat /\ traced' \in Nat
  <2> DEFINE T == {f \in SourceFiles : map[f].type # "TEST" /\ map[f].telemetry}
  <2>1. T \subseteq SourceFiles /\ T' \subseteq T
    BY DEF NoFileBetter
  <2> HIDE DEF T
  <2>2. Cardinality(T') <= Cardinality(T) /\ Cardinality(T') \in Nat /\ Cardinality(T) \in Nat
    BY <2>1, CountsFollow
  <2> QED
    BY <2>2 DEF T
<1>5. stated' <= stated /\ stated \in Nat /\ stated' \in Nat
  <2> DEFINE T == {f \in SourceFiles : map[f].purpose = "stated"}
  <2>1. T \subseteq SourceFiles /\ T' \subseteq T
    BY DEF NoFileBetter
  <2> HIDE DEF T
  <2>2. Cardinality(T') <= Cardinality(T) /\ Cardinality(T') \in Nat /\ Cardinality(T) \in Nat
    BY <2>1, CountsFollow
  <2> QED
    BY <2>2 DEF T
<1>6. purity' = purity /\ purity \in Int
  BY HubPillarsFollow, PurityIsInt DEF AtLeast, Total
<1>7. calc_security' <= calc_security /\ calc_security \in Int /\ calc_security' \in Int
  BY SecurityFollows
<1>8. /\ high \in Nat /\ high' \in Nat /\ high <= high'
      /\ med \in Nat /\ med' \in Nat /\ med <= med'
      /\ low \in Nat /\ low' \in Nat /\ low <= low'
  <2>1. \A s \in Severities : alerts[s] \in Nat /\ alerts'[s] \in Nat /\ alerts[s] <= alerts'[s]
    BY DEF ScoreTypeOK, NoAlertLess
  <2> QED
    BY <2>1 DEF Severities, high, med, low
<1>9. penalty <= penalty' /\ penalty \in Nat /\ penalty' \in Nat
  <2>1. \A h, m, l, i, n, k \in Nat : h <= i /\ m <= n /\ l <= k =>
          /\ 12 * (15 * h + 5 * m + l) <= 12 * (15 * i + 5 * n + k)
          /\ 12 * (15 * h + 5 * m + l) \in Nat /\ 12 * (15 * i + 5 * n + k) \in Nat
    OBVIOUS
  <2>2. penalty' = 12 * (15 * high' + 5 * med' + low')
    OBVIOUS
  <2> QED
    BY ZenonT(60), <1>8, <2>1, <2>2
<1> HIDE DEF tested, traced, stated, purity, penalty
<1>10. /\ Share(35, tested', Total) <= Share(35, tested, Total)
       /\ Share(35, tested', Total) \in Int /\ Share(35, tested, Total) \in Int
  <2>1. 35 \in Nat
    OBVIOUS
  <2> QED
    BY <1>3, <2>1, SomeFile, SharesFollow
<1>11. /\ Share(10, traced', Total) <= Share(10, traced, Total)
       /\ Share(10, traced', Total) \in Int /\ Share(10, traced, Total) \in Int
       /\ Share(10, stated', Total) <= Share(10, stated, Total)
       /\ Share(10, stated', Total) \in Int /\ Share(10, stated, Total) \in Int
  <2>1. 10 \in Nat
    OBVIOUS
  <2> QED
    BY <1>4, <1>5, <2>1, SomeFile, SharesFollow
<1>12. /\ POLICIES[level'] <= POLICIES[level] /\ Ceilings[level'] <= Ceilings[level]
       /\ POLICIES[level] \in Nat /\ POLICIES[level'] \in Nat
       /\ Ceilings[level] \in Nat /\ Ceilings[level'] \in Nat
  BY LevelFollows
<1>13. calcPillars' <= calcPillars /\ calcPillars \in Int /\ calcPillars' \in Int
  BY <1>1, <1>2, <1>6, <1>7, <1>10, <1>11, <1>12
<1>14. applyConstraints = AtLeast(0, AtMost(calcPillars, 60 * Ceilings[level]) - penalty)
  BY DEF applyConstraints, penalty
<1>15. applyConstraints' = AtLeast(0, AtMost(calcPillars', 60 * Ceilings[level']) - penalty')
  BY DEF applyConstraints, penalty, AtLeast, AtMost, Ceilings
<1>16. /\ applyConstraints' <= applyConstraints
       /\ applyConstraints \in Nat /\ applyConstraints' \in Nat
  <2>1. \A r, q \in Int, c, k, a, b \in Nat : q <= r /\ k <= c /\ a <= b =>
          /\ AtLeast(0, AtMost(q, 60 * k) - b) <= AtLeast(0, AtMost(r, 60 * c) - a)
          /\ AtLeast(0, AtMost(q, 60 * k) - b) \in Nat
          /\ AtLeast(0, AtMost(r, 60 * c) - a) \in Nat
    BY DEF AtLeast, AtMost
  <2> HIDE DEF level
  <2> QED
    BY <1>9, <1>12, <1>13, <1>14, <1>15, <2>1
<1>17. \A n, m \in Nat : n <= m => (10 * n + 3) \div 6 <= (10 * m + 3) \div 6
                                   /\ (10 * m + 3) \div 6 \in Nat
  OBVIOUS
<1>18. alerts["HIGH"] # 0 => calculateHealth <= 6000
  <2> SUFFICES ASSUME alerts["HIGH"] # 0 PROVE calculateHealth <= 6000
    OBVIOUS
  <2>1. Ceilings[level] <= 60
    <3>1. high > 0
      BY <1>8 DEF high
    <3> QED
      BY <1>8, <3>1 DEF getComplianceLevel, Ceilings
  <2>2. \A r \in Int, c, a \in Nat : c <= 60 => AtLeast(0, AtMost(r, 60 * c) - a) <= 3600
    BY DEF AtLeast, AtMost
  <2> HIDE DEF level
  <2>3. applyConstraints <= 3600
    BY <1>9, <1>12, <1>13, <1>14, <2>1, <2>2
  <2>4. \A n \in Nat : n <= 3600 => (10 * n + 3) \div 6 <= 6000
    OBVIOUS
  <2> QED
    BY <1>16, <2>3, <2>4 DEF calculateHealth
<1> QED
  BY <1>16, <1>17, <1>18 DEF calculateHealth

\* The types hold at first ...
LEMMA ScoreInitially == ScoreInit => ScoreTypeOK
<1> SUFFICES ASSUME ScoreInit PROVE ScoreTypeOK
  OBVIOUS
<1>1. map \in [SourceFiles -> FileInfo]
  <2> DEFINE Fresh == [type : {"CORE", "TEST", "CONFIG"}, complexity : {1, 12}, test : {TRUE},
                       telemetry : {TRUE}, purpose : {"stated"}]
  <2>1. \A i \in Fresh : i \in FileInfo
    <3> SUFFICES ASSUME NEW i \in Fresh PROVE i \in FileInfo
      OBVIOUS
    <3>1. PICK t \in {"CORE", "TEST", "CONFIG"}, c \in {1, 12} :
            i = [type |-> t, complexity |-> c, test |-> TRUE, telemetry |-> TRUE,
                 purpose |-> "stated"]
      BY Zenon
    <3>2. c \in Nat
      OBVIOUS
    <3> QED
      BY <3>1, <3>2 DEF FileInfo
  <2>2. map \in [SourceFiles -> Fresh]
    BY DEF ScoreInit
  <2> HIDE DEF Fresh
  <2> QED
    BY <2>1, <2>2
<1> QED
  BY <1>1 DEF ScoreInit, ScoreTypeOK

\* ... and are kept.
LEMMA ScoreKeeps == ScoreTypeOK /\ [ScoreNext]_scoreVars => ScoreTypeOK'
<1> SUFFICES ASSUME ScoreTypeOK, [ScoreNext]_scoreVars PROVE ScoreTypeOK'
  OBVIOUS
<1>1. /\ map \in [SourceFiles -> FileInfo] /\ alerts \in [Severities -> Nat]
      /\ cognitive \in {"HEALTHY", "DEGRADED", "FAIL", "unknown"}
  BY DEF ScoreTypeOK
<1>2. ASSUME NEW s \in Severities, FindAlert(s) PROVE ScoreTypeOK'
  BY <1>1, <1>2 DEF FindAlert, ScoreTypeOK, Severities
<1>3. ASSUME NEW f \in SourceFiles, Lose(f) PROVE ScoreTypeOK'
  <2>1. map' \in [SourceFiles -> FileInfo]
    <3>1. /\ [map[f] EXCEPT !.test = FALSE] \in FileInfo
          /\ [map[f] EXCEPT !.telemetry = FALSE] \in FileInfo
          /\ [map[f] EXCEPT !.purpose = "UNKNOWN"] \in FileInfo
      <4>1. map[f] \in FileInfo
        BY <1>1
      <4>2. \A i \in FileInfo : /\ [i EXCEPT !.test = FALSE] \in FileInfo
                                /\ [i EXCEPT !.telemetry = FALSE] \in FileInfo
                                /\ [i EXCEPT !.purpose = "UNKNOWN"] \in FileInfo
        BY DEF FileInfo
      <4> QED
        BY <4>1, <4>2
    <3>2. \E i \in FileInfo : map' = [map EXCEPT ![f] = i]
      <4>1. \/ map' = [map EXCEPT ![f] = [map[f] EXCEPT !.test = FALSE]]
            \/ map' = [map EXCEPT ![f] = [map[f] EXCEPT !.telemetry = FALSE]]
            \/ map' = [map EXCEPT ![f] = [map[f] EXCEPT !.purpose = "UNKNOWN"]]
        BY <1>3 DEF Lose
      <4> QED
        BY <3>1, <4>1
    <3> QED
      BY <1>1, <3>2
  <2> QED
    BY <1>1, <1>3, <2>1 DEF Lose, ScoreTypeOK, Severities, FileInfo
<1>4. ASSUME NEW status \in {"DEGRADED", "FAIL"}, runCognitiveAudit(status) PROVE ScoreTypeOK'
  BY <1>1, <1>4 DEF runCognitiveAudit, ScoreTypeOK, Severities, FileInfo
<1>5. CASE Rediscover
  BY <1>1, <1>5 DEF Rediscover, ScoreTypeOK, Severities, FileInfo
<1>6. ASSUME NEW hub \in BOOLEAN, synthesize360(hub) PROVE ScoreTypeOK'
  <2>1. alerts' = [alerts EXCEPT !["HIGH"] = @ + Divergent] /\ UNCHANGED <<map, cognitive>>
    BY <1>6 DEF synthesize360
  <2> QED
    BY <1>1, <2>1, ScoreAssumption DEF ScoreTypeOK, Severities, FileInfo
<1>7. CASE UNCHANGED scoreVars
  BY <1>1, <1>7 DEF scoreVars, ScoreTypeOK, Severities, FileInfo
<1> QED
  BY <1>2, <1>3, <1>4, <1>5, <1>6, <1>7 DEF ScoreNext

\* Bad news is no better file and no alert less.
LEMMA BadNewsIsBad ==
  ASSUME ScoreTypeOK, BadNews
  PROVE  NoFileBetter /\ NoAlertLess /\ (cognitive' = cognitive \/ cognitive = "HEALTHY")
<1>1. /\ map \in [SourceFiles -> FileInfo] /\ alerts \in [Severities -> Nat]
  BY DEF ScoreTypeOK
<1>2. ASSUME NEW s \in Severities, FindAlert(s)
      PROVE  NoFileBetter /\ NoAlertLess /\ cognitive' = cognitive
  BY <1>1, <1>2 DEF FindAlert, NoFileBetter, NoAlertLess
<1>3. ASSUME NEW f \in SourceFiles, Lose(f)
      PROVE  NoFileBetter /\ NoAlertLess /\ cognitive' = cognitive
  <2>1. NoFileBetter
    BY <1>1, <1>3 DEF Lose, NoFileBetter, FileInfo
  <2>2. NoAlertLess /\ cognitive' = cognitive
    BY <1>1, <1>3 DEF Lose, NoAlertLess
  <2> QED
    BY <2>1, <2>2
<1>4. ASSUME NEW status \in {"DEGRADED", "FAIL"}, runCognitiveAudit(status)
      PROVE  NoFileBetter /\ NoAlertLess /\ cognitive = "HEALTHY"
  BY <1>1, <1>4 DEF runCognitiveAudit, NoFileBetter, NoAlertLess
<1> QED
  BY <1>2, <1>3, <1>4 DEF BadNews

\* A report that says HEALTHY found no high alert, but for a total of 0.
LEMMA HealthyIsEarned ==
  ASSUME ScoreTypeOK, ScoreTypeOK', [ScoreNext]_scoreVars, scoreVars' # scoreVars
  PROVE  SevereNeverHealthy
<1>1. ASSUME report' = NoReport PROVE SevereNeverHealthy
  BY <1>1 DEF NoReport, SevereNeverHealthy
<1>2. ASSUME NEW hub \in BOOLEAN, synthesize360(hub), report'.status = "HEALTHY",
             alerts["HIGH"] # 0
      PROVE  report'.by = "engine" /\ calculateHealth = 0
  <2> DEFINE score == IF hub THEN calculate_score ELSE Fallback
  <2>1. /\ report' = [by |-> IF hub THEN "hub" ELSE "engine",
                      status |-> IF score > 80 THEN "HEALTHY"
                                 ELSE IF score > 50 THEN "WARNING" ELSE "CRITICAL"]
        /\ alerts' = [alerts EXCEPT !["HIGH"] = @ + Divergent] /\ UNCHANGED <<map, cognitive>>
    BY <1>2 DEF synthesize360
  <2>2. NoFileBetter
    BY <2>1 DEF NoFileBetter
  <2>3. NoAlertLess
    BY <2>1, ScoreAssumption DEF NoAlertLess, ScoreTypeOK
  <2>4. score > 80
    BY <1>2, <2>1
  <2>5. calculate_score \in Nat /\ calculate_score <= 70
    BY <1>2, <2>1, <2>2, <2>3, HubScoreFollows
  <2>6. ~ hub
    <3>1. hub => score = calculate_score
      OBVIOUS
    <3>2. ~ (calculate_score > 80)
      BY <2>5
    <3> QED
      BY <2>4, <3>1, <3>2
  <2>7. calculateHealth \in Nat /\ calculateHealth <= 6000
    BY <1>2, <2>2, <2>3, EngineScoreFollows
  <2>8. calculateHealth = 0
    <3>1. \A n \in Nat : n <= 6000 => ~ ((n + 50) \div 100 > 80)
      OBVIOUS
    <3>2. Fallback > 80
      BY <2>4, <2>6
    <3> QED
      BY <2>7, <3>1, <3>2 DEF Fallback
  <2> QED
    BY <2>1, <2>6, <2>8
<1>3. CASE report' # NoReport
  <2>1. PICK hub \in BOOLEAN : synthesize360(hub)
    BY <1>3 DEF ScoreNext, FindAlert, Lose, runCognitiveAudit, Rediscover
  <2> QED
    BY <1>2, <2>1 DEF SevereNeverHealthy
<1> QED
  BY <1>1, <1>3

\* The types of what is scored, in every state.
THEOREM ScoreTypeCorrect == ScoreSpec => []ScoreTypeOK
  BY ScoreInitially, ScoreKeeps, PTL DEF ScoreSpec

\* ScoreIsFair: for any files and any alerts, worse findings raise neither the hub's score
\* nor the engine's total, and no report that found a high alert says HEALTHY unless
\* the engine's total is 0 (calculate_score of the sidecar, ScoringEngine).
THEOREM ScoreFollowsFindings == ScoreSpec => ScoreIsFair
<1>1. ScoreTypeOK /\ ScoreTypeOK' /\ [ScoreNext]_scoreVars
        => [WorseNeverHelps /\ SevereNeverHealthy]_scoreVars
  <2> SUFFICES ASSUME ScoreTypeOK, ScoreTypeOK', [ScoreNext]_scoreVars, scoreVars' # scoreVars
               PROVE  WorseNeverHelps /\ SevereNeverHealthy
    OBVIOUS
  <2>1. WorseNeverHelps
    BY BadNewsIsBad, HubScoreFollows, EngineScoreFollows DEF WorseNeverHelps
  <2>2. SevereNeverHealthy
    BY HealthyIsEarned
  <2> QED
    BY <2>1, <2>2
<1> QED
  BY <1>1, ScoreTypeCorrect, PTL DEF ScoreSpec, ScoreIsFair
=============================================================================
