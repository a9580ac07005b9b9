---------------------------- MODULE AnalyzerCache ----------------------------
(***************************************************************************)
(* The results the Rust analyzer keeps in .sovereign_cache.json            *)
(* (src_native/analyzer/src/cache.rs, analysis.rs).  Every call of the     *)
(* command line is a process of its own, and the server answers on several *)
(* threads: each loads the whole file, and writes the whole file back when *)
(* it had to compute.  No lock is taken.                                   *)
(***************************************************************************)
EXTENDS Naturals, FiniteSets

CONSTANTS
  Analysers,     \* processes and threads that answer requests
  Paths,         \* files that are asked about
  Unsupported,   \* those of a language the parser does not know
  Contents,      \* texts of a file; a text stands for its hash
  None,
  MaxRequests    \* bound

ASSUME CacheAssumption ==
  /\ Unsupported \subseteq Paths
  /\ None \notin Contents
  /\ Paths # {} /\ Contents # {}
  /\ MaxRequests \in Nat

VARIABLES
  stored,    \* the cache file: path -> entry
  progress,  \* where each of them is
  query,     \* what each was last asked: [path, kind, text]
  held,      \* the cache as each has it in memory
  answer,    \* the text its answer was computed from
  computed,  \* the queries that had to be computed, so far
  requests

cacheVars == <<stored, progress, query, held, answer, computed, requests>>

Kinds == {"analysis", "fingerprint"}
Other(kind) == IF kind = "analysis" THEN "fingerprint" ELSE "analysis"
Queries == [path : Paths, kind : Kinds, text : Contents]

\* An entry says of which text it is, and of which text each result was computed.
Entry == [hash : Contents \cup {None}, analysis : Contents \cup {None},
          fingerprint : Contents \cup {None}]
NoEntry == [hash |-> None, analysis |-> None, fingerprint |-> None]

\* CacheMap::default: also what a file that does not parse is read as.
EmptyMap == [p \in Paths |-> NoEntry]

CacheInit ==
  /\ stored = EmptyMap
  /\ progress = [a \in Analysers |-> "idle"]
  /\ query \in [Analysers -> {CHOOSE q \in Queries : TRUE}]
  /\ held = [a \in Analysers |-> EmptyMap]
  /\ answer = [a \in Analysers |-> None]
  /\ computed = {}
  /\ requests = 0

-----------------------------------------------------------------------------
Result(entry, kind) == IF kind = "analysis" THEN entry.analysis ELSE entry.fingerprint

\* get_analysis, get_fingerprint
Get(map, q) == IF map[q.path].hash = q.text THEN Result(map[q.path], q.kind) ELSE None

\* Faulty: an entry that exists keeps its hash.
SetKeepingHash(map, q) ==
  [map EXCEPT ![q.path] =
     [hash |-> IF map[q.path].hash = None THEN q.text ELSE map[q.path].hash,
      analysis |-> IF q.kind = "analysis" THEN q.text ELSE map[q.path].analysis,
      fingerprint |-> IF q.kind = "analysis" THEN map[q.path].fingerprint ELSE q.text]]

\* set_analysis, set_fingerprint: the other result of an entry stays.
Set(map, q) ==
  [map EXCEPT ![q.path] =
     [hash |-> q.text,
      analysis |-> IF q.kind = "analysis" THEN q.text ELSE map[q.path].analysis,
      fingerprint |-> IF q.kind = "analysis" THEN map[q.path].fingerprint ELSE q.text]]

Unparsed(q) == q.kind = "analysis" /\ q.path \in Unsupported

\* A request comes with its text or reads the file, whose text may be any by now;
\* then the whole cache is read.
Ask(a, q) ==
  /\ progress[a] \in {"idle", "answered"} /\ requests < MaxRequests
  /\ requests' = requests + 1
  /\ query' = [query EXCEPT ![a] = q]
  /\ held' = [held EXCEPT ![a] = stored]
  /\ UNCHANGED stored

\* A result that is found is the answer.
Hit(a, q) ==
  /\ Ask(a, q)
  /\ Get(stored, q) # None
  /\ progress' = [progress EXCEPT ![a] = "answered"]
  /\ answer' = [answer EXCEPT ![a] = Get(stored, q)]
  /\ UNCHANGED computed

\* A file that cannot be parsed is answered without being stored.
Miss(a, q) ==
  /\ Ask(a, q)
  /\ Get(stored, q) = None
  /\ progress' = [progress EXCEPT ![a] = IF Unparsed(q) THEN "answered" ELSE "computing"]
  /\ answer' = [answer EXCEPT ![a] = q.text]
  /\ computed' = IF Unparsed(q) THEN computed ELSE computed \cup {q}

\* save truncates the file first.  A write that fails is passed over.
SaveBegins(a) ==
  /\ progress[a] = "computing"
  /\ progress' = [progress EXCEPT ![a] = "saving"]
  /\ held' = [held EXCEPT ![a] = Set(@, query[a])]
  /\ stored' \in {EmptyMap, stored}
  /\ UNCHANGED <<query, answer, computed, requests>>

\* Two that write at once may leave the map of either, or a file that does not parse.
SaveEnds(a) ==
  /\ progress[a] = "saving"
  /\ progress' = [progress EXCEPT ![a] = "answered"]
  /\ stored' \in {held[a], stored, EmptyMap}
  /\ UNCHANGED <<query, held, answer, computed, requests>>

\* The process is killed; what it was writing does not parse.
AnalyserDies(a) ==
  /\ progress[a] # "idle"
  /\ progress' = [progress EXCEPT ![a] = "idle"]
  /\ stored' = IF progress[a] = "saving" THEN EmptyMap ELSE stored
  /\ UNCHANGED <<query, held, answer, computed, requests>>

CacheNext == \E a \in Analysers :
  \/ \E q \in Queries : Hit(a, q) \/ Miss(a, q)
  \/ SaveBegins(a) \/ SaveEnds(a) \/ AnalyserDies(a)

CacheSpec == CacheInit /\ [][CacheNext]_cacheVars

-----------------------------------------------------------------------------
Maps == [Paths -> Entry]

\* The variables have their types.
CacheTypeOK ==
  /\ stored \in Maps
  /\ progress \in [Analysers -> {"idle", "computing", "saving", "answered"}]
  /\ query \in [Analysers -> Queries]
  /\ held \in [Analysers -> Maps]
  /\ answer \in [Analysers -> Contents \cup {None}]
  /\ computed \subseteq Queries
  /\ requests \in 0..MaxRequests

Otherwise(q) == [path |-> q.path, kind |-> Other(q.kind), text |-> q.text]

\* An answer is of the text that was asked about, unless a result of the other kind
\* has been computed for that text of that file: whoever writes last, dies or reads
\* half a file, a result never gets under the hash of another text in any other way.
StaleOnlyByTheOther ==
  \A a \in Analysers : progress[a] = "answered" /\ answer[a] # query[a].text =>
    Otherwise(query[a]) \in computed

\* A result is given only for the text it was computed from (cache.rs:121, a test:
\* `mgr.get_analysis("fake_file.ts", "wronghash")` ... `is_none()`).
AnswersFitTheirText ==
  \A a \in Analysers : progress[a] = "answered" => answer[a] = query[a].text
=============================================================================
