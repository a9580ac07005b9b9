---------------------------- MODULE DatabaseVault ----------------------------
(***************************************************************************)
(* The shared connection to the SQLite vault (src_local/core/              *)
(* database_hub.ts) and two of its users: MemoryEngine.rememberFinding     *)
(* (engines/healing/resilience_healing_architect_service.ts), which never  *)
(* waits for its row, and RegistryManager.loadAllStacks (core/             *)
(* registry_manager.ts), which answers once its cache is stored.           *)
(*                                                                         *)
(* A step goes from one await to the next. Another process may hold the    *)
(* write lock of a vault whenever a statement needs it (busy); in WAL mode *)
(* it stops no reader. A statement may also fail for any other reason: a   *)
(* full disk, a file that can only be read, an I/O error. A user keeps the *)
(* hub it was given, which getInstance closes for everybody when a later   *)
(* caller resolves to another vault (the probe of a directory may fail     *)
(* once, and a process may open two projects), and may close it itself,    *)
(* which forgets the instance even when that is another hub by now.        *)
(***************************************************************************)
EXTENDS Naturals, Sequences

CONSTANTS
  Roots,           \* project roots, each with the vault system_vault.db of its own
  UserVault,        \* the vault of the user's data directory
  EnvVaults,       \* {} or the vault of PSA_DATABASE_PATH or PSA_DATA_DIR
  WithInsights,    \* vaults in which HistoryAgent has made the table ai_insights
  Memories,        \* calls of rememberFinding
  Listings,        \* calls of loadAllStacks
  maxRetries,      \* 5 in the code
  MaxConnections,  \* bound
  MaxEditions      \* bound: editions of agents_registry, numbered from 1

Vaults == Roots \cup {UserVault} \cup EnvVaults
Calls == Memories \cup Listings

ASSUME VaultAssumption ==
  /\ maxRetries \in Nat \ {0}
  /\ MaxConnections \in Nat /\ MaxEditions \in Nat
  /\ Memories \cap Listings = {}

VARIABLES
  connections,  \* every DatabaseHub made, in order: [path, open]
  instance,     \* DatabaseHub.instance: a place of connections, or 0 for null
  forgotten,    \* history: open hubs that were the instance when another was closed
  request,      \* each call: [state, hub, tries, turn, stacks]
  turns,        \* statements first tried so far
  vault,        \* each vault's statements, in the order it applied them
  stackCache    \* each vault's agent_registry_cache: an edition, or 0

vaultVars == <<connections, instance, forgotten, request, turns, vault, stackCache>>

-----------------------------------------------------------------------------
\* Where a caller's root may lead: resolveDbPath.
resolveDbPath(root) == IF EnvVaults # {} THEN EnvVaults ELSE {root, UserVault}

Unasked == [state |-> "unasked", hub |-> 0, tries |-> 0, turn |-> 0, stacks |-> 0]

VaultInit ==
  /\ connections = << >> /\ instance = 0 /\ forgotten = {}
  /\ request = [r \in Calls |-> Unasked] /\ turns = 0
  /\ vault = [v \in Vaults |-> << >>]
  /\ stackCache = [v \in Vaults |-> 0]

\* Faulty: the instance of the other vault is left open.
LeftOpen(h) == connections

Closed(h) == IF h = 0 THEN connections ELSE [connections EXCEPT ![h].open = FALSE]

\* A caller whose vault is the instance's gets the instance. For another vault the
\* constructor probes the directory again, and may throw where it needs the lock: the
\* old instance is closed by then.
getInstance(root) ==
  \E target, path \in resolveDbPath(root) :
    /\ Len(connections) < MaxConnections
    /\ instance # 0 => connections[instance].path # target
    /\ \/ /\ connections' = Append(Closed(instance), [path |-> path, open |-> TRUE])
          /\ instance' = Len(connections) + 1
       \/ connections' = Closed(instance) /\ instance' = 0
    /\ UNCHANGED <<forgotten, request, turns, vault, stackCache>>

\* Anyone closes the hub it keeps.
close(h) ==
  /\ connections' = Closed(h) /\ instance' = 0
  /\ forgotten' = (forgotten \cup ({instance} \ {0})) \ {h}
  /\ UNCHANGED <<request, turns, vault, stackCache>>

-----------------------------------------------------------------------------
\* Every vault has kv_store; SQLite compiles no INSERT into a table that is missing.
HasTable(r, path) == r \in Listings \/ path \in WithInsights

\* Faulty: a statement that met the lock is taken for done.
TriedOnce(r, hub, error) ==
  CASE ~hub.open \/ ~HasTable(r, hub.path) -> "rejected"
    [] hub.open /\ HasTable(r, hub.path) /\ error = "other" -> "broken"
    [] OTHER -> "fulfilled"

\* The state of a call after one more pass of the loop of execute: an error other
\* than the lock is thrown on, a locked vault is tried again after a delay.
Tried(r, hub, error) ==
  CASE ~hub.open \/ ~HasTable(r, hub.path) -> "rejected"
    [] hub.open /\ HasTable(r, hub.path) /\ error = "other" -> "broken"
    [] hub.open /\ HasTable(r, hub.path) /\ error = "locked" -> "waiting"
    [] OTHER -> "fulfilled"

executeSQL(r, call) ==
  \E error \in {"none", "locked", "other"} :
    LET hub == connections[call.hub]
        state == Tried(r, hub, error)
        applied == state = "fulfilled" /\ error = "none"
    IN /\ request' = [request EXCEPT ![r] =
             [call EXCEPT !.state = state, !.tries = IF state = "waiting" THEN @ + 1 ELSE @]]
       /\ vault' = IF applied THEN [vault EXCEPT ![hub.path] = Append(@, r)] ELSE vault
       /\ stackCache' = IF applied /\ r \in Listings
                        THEN [stackCache EXCEPT ![hub.path] = call.stacks] ELSE stackCache

\* The first pass runs before execute returns its promise.
Begin(r, call) ==
  /\ turns' = turns + 1
  /\ executeSQL(r, [call EXCEPT !.turn = turns + 1])

\* The finalizer has its findings remembered one by one, through the hub that the
\* engine was given when it was made.
rememberFinding(m) ==
  /\ request[m].state = "unasked"
  /\ \E h \in DOMAIN connections : Begin(m, [request[m] EXCEPT !.hub = h])
  /\ UNCHANGED <<connections, instance, forgotten>>

\* A RegistryManager is made for the call. What its cache has is the answer; the
\* read may fail.
loadAllStacks(l) ==
  /\ request[l].state = "unasked" /\ instance # 0
  /\ LET found == stackCache[connections[instance].path]
     IN \E state \in {IF found = 0 THEN "missed" ELSE "fulfilled", "broken"} :
          request' = [request EXCEPT ![l] =
            [@ EXCEPT !.hub = instance, !.stacks = found, !.state = state]]
  /\ UNCHANGED <<connections, instance, forgotten, turns, vault, stackCache>>

\* After the await, without the directory: no stacks, and none are stored.
FindNoRegistry(l) ==
  /\ request[l].state = "missed"
  /\ request' = [request EXCEPT ![l].state = "fulfilled"]
  /\ UNCHANGED <<connections, instance, forgotten, turns, vault, stackCache>>

\* A file that cannot be read or parsed, such as one half written, ends the call.
FailToParse(l) ==
  /\ request[l].state = "missed"
  /\ request' = [request EXCEPT ![l].state = "broken"]
  /\ UNCHANGED <<connections, instance, forgotten, turns, vault, stackCache>>

\* Else the files are read, in whichever edition they are by then, and the cache is set.
StoreStacks(l) ==
  /\ request[l].state = "missed"
  /\ \E edition \in 1..MaxEditions : Begin(l, [request[l] EXCEPT !.stacks = edition])
  /\ UNCHANGED <<connections, instance, forgotten>>

Retry(r) ==
  /\ request[r].state = "waiting" /\ request[r].tries < maxRetries
  /\ executeSQL(r, request[r])
  /\ UNCHANGED <<connections, instance, forgotten, turns>>

\* The last delay is slept too.
GiveUp(r) ==
  /\ request[r].state = "waiting" /\ request[r].tries = maxRetries
  /\ request' = [request EXCEPT ![r].state = "rejected"]
  /\ UNCHANGED <<connections, instance, forgotten, turns, vault, stackCache>>

-----------------------------------------------------------------------------
VaultNext ==
  \/ \E root \in Roots : getInstance(root)
  \/ \E h \in DOMAIN connections : close(h)
  \/ \E m \in Memories : rememberFinding(m)
  \/ \E l \in Listings : loadAllStacks(l) \/ FindNoRegistry(l) \/ FailToParse(l) \/ StoreStacks(l)
  \/ \E r \in Calls : Retry(r) \/ GiveUp(r)

VaultSpec == VaultInit /\ [][VaultNext]_vaultVars

-----------------------------------------------------------------------------
\* The connection is one: the hub that is handed out is open, and every other is
\* closed but those that were forgotten by the close of another.
OneConnection ==
  /\ instance \in 0..Len(connections)
  /\ \A h \in DOMAIN connections : connections[h].open <=> h = instance \/ h \in forgotten

\* Each write is applied once and to one vault, by a call that is told so.
AppliedOnce ==
  \A v, w \in Vaults : \A i \in DOMAIN vault[v], j \in DOMAIN vault[w] :
    /\ request[vault[v][i]].state = "fulfilled"
    /\ vault[v][i] = vault[w][j] => v = w /\ i = j

\* A remembered finding is in its vault; one that is rejected was tried to the end,
\* or its hub was closed, or the vault has no table for it (one whose statement failed
\* for another reason is broken).
LostForAReason ==
  \A m \in Memories :
    LET call == request[m]
        hub == connections[call.hub]
    IN /\ call.state = "fulfilled" => \E i \in DOMAIN vault[hub.path] : vault[hub.path][i] = m
       /\ call.state = "rejected" =>
            call.tries = maxRetries \/ ~hub.open \/ hub.path \notin WithInsights

\* Writes pass one another only at a lock.
PassedAtALock ==
  \A v \in Vaults : \A i, j \in DOMAIN vault[v] :
    i < j /\ request[vault[v][i]].turn > request[vault[v][j]].turn =>
      request[vault[v][j]].tries > 0

\* A listing answers no stacks that some listing has not stored in a vault first, so
\* that it and those that find the cache agree; one that found no directory of them
\* answers none.
AnswersWereStored ==
  \A l \in Listings :
    request[l].state = "fulfilled" /\ request[l].stacks # 0 =>
      \E v \in Vaults : \E i \in DOMAIN vault[v] :
        vault[v][i] \in Listings /\ request[vault[v][i]].stacks = request[l].stacks

\* The singleton keeps what its callers rely on although hubs are closed under their
\* users, other processes lock the vault, statements fail and retries overtake later
\* writes: one connection is open but for those forgotten, a write is applied once or
\* its loss has a reason its caller is told, only the lock reorders, and the stacks a
\* listing answers were stored.
VaultKeepsItsWord ==
  OneConnection /\ AppliedOnce /\ LostForAReason /\ PassedAtALock /\ AnswersWereStored

=============================================================================
