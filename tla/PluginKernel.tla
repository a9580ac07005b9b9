---------------------------- MODULE PluginKernel ----------------------------
(***************************************************************************)
(* Registration, removal and hot reload of plugins, and the tool registry  *)
(* they fill: src_local/psa/kernel/psa_plugin.ts, psa_plugin_loader.ts,    *)
(* psa_context.ts, the registry part of tools/psa_tool_service.ts, and the *)
(* two callers in src_local/server/psa_server.ts: the constructor, which   *)
(* calls ctx.use without awaiting it, and POST /v1/plugins/reload.         *)
(*                                                                         *)
(* One step is the code between two awaits.  An operation is one call of   *)
(* ctx.use at boot or one reload request; requests interleave at awaits.   *)
(***************************************************************************)
EXTENDS Naturals, Sequences, FiniteSets

CONSTANTS
  Plugins,       \* plugin names
  Tools,         \* tool names
  Provides,      \* Provides[p]: the tools apply of p registers
  BootOrder,     \* the plugins registered at boot, in order
  Teardown,      \* plugins that define teardown
  MayThrow,      \* plugins whose apply may throw after registering its tools
  Requests,      \* concurrent reload requests
  MaxRequests    \* bound on the requests that begin

ASSUME PluginAssumption ==
  /\ Provides \in [Plugins -> SUBSET Tools]
  /\ \A p, q \in Plugins : p # q => Provides[p] \cap Provides[q] = {}
  /\ BootOrder \in Seq(Plugins)
  /\ \A i, j \in DOMAIN BootOrder : i # j => BootOrder[i] # BootOrder[j]
  /\ Requests \cap Plugins = {}
  /\ MaxRequests \in Nat

VARIABLES
  plugins,      \* keys of PsaPluginManager.plugins
  tools,        \* keys of PsaToolService.tools
  pluginTools,  \* PsaPluginManager.pluginTools, {} for a missing key
  op,           \* the suspended operations
  booted,       \* how many plugins of BootOrder the boot code has passed to use
  applied,      \* plugins whose latest apply returned
  awaited,      \* each ctx.use of the boot is awaited (loadFromDirectory), or none
  inside,       \* history: <<q, p>> when p entered its tools between the two
                \* listings of a registration of q that is pending or on record
  robbed,       \* history: plugins with such a pair whose q was unregistered
                \* since they last entered their tools
  requested,    \* how many requests have begun
  overlapped    \* history: a request began while another was suspended

registry == <<plugins, tools, pluginTools, applied>>
mode == <<booted, awaited>>
overlaps == <<inside, robbed>>
traffic == <<requested, overlapped>>
vars == <<registry, op, mode, overlaps, traffic>>

\* A boot-time use is named by its plugin, a reload by its request.
OpIds == Plugins \cup Requests

Idle == [pc |-> "idle"]

OpState ==
  {Idle} \cup
  [pc : {"reloadTeardown", "loading", "registerTeardown", "register", "applying"},
   plugin : Plugins, before : SUBSET Tools]

KernelTypeOK ==
  /\ plugins \subseteq Plugins
  /\ tools \subseteq Tools
  /\ pluginTools \in [Plugins -> SUBSET Tools]
  /\ op \in [OpIds -> OpState]
  /\ booted \in 0 .. Len(BootOrder)
  /\ applied \subseteq plugins
  /\ awaited \in BOOLEAN
  /\ inside \subseteq Plugins \X Plugins
  /\ robbed \subseteq Plugins
  /\ requested \in Nat
  /\ overlapped \in BOOLEAN

Init ==
  /\ plugins = {}
  /\ tools = {}
  /\ pluginTools = [p \in Plugins |-> {}]
  /\ op = [o \in OpIds |-> Idle]
  /\ booted = 0
  /\ applied = {}
  /\ awaited \in BOOLEAN
  /\ inside = {}
  /\ robbed = {}
  /\ requested = 0
  /\ overlapped = FALSE

-----------------------------------------------------------------------------
(* Synchronous fragments of the manager. *)

\* The plugins with a registration that waits for apply's promise.
Registering == {op[o].plugin : o \in {q \in OpIds : op[q].pc = "applying"}}

\* register after the duplicate check: the plugin is entered, the tool names
\* are read, apply registers its tools and the call waits for apply's promise.
EnterAndApply(o, p) ==
  /\ plugins' = plugins \cup {p}
  /\ applied' = applied \ {p}
  /\ tools' = tools \cup Provides[p]
  /\ op' = [op EXCEPT ![o] = [pc |-> "applying", plugin |-> p, before |-> tools]]
  /\ inside' = inside \cup ((Registering \ {p}) \X {p})
  /\ robbed' = robbed \ {p}
  /\ UNCHANGED pluginTools

\* unregister after teardown: the tools recorded for the plugin, then the plugin.
RemovePlugin(p) ==
  /\ tools' = tools \ pluginTools[p]
  /\ pluginTools' = [pluginTools EXCEPT ![p] = {}]
  /\ plugins' = plugins \ {p}
  /\ applied' = applied \ {p}
  /\ inside' = IF p \in Registering THEN inside ELSE inside \ ({p} \X Plugins)
  /\ robbed' = (robbed \cup {q \in Plugins : <<p, q>> \in inside}) \cap plugins'

Goto(o, pc, p) ==
  op' = [op EXCEPT ![o] = [pc |-> pc, plugin |-> p, before |-> {}]]

-----------------------------------------------------------------------------
(* Boot. *)

\* q comes before p in the order of the boot.
BootsBefore(q, p) ==
  \E i, j \in DOMAIN BootOrder : i < j /\ BootOrder[i] = q /\ BootOrder[j] = p

\* The constructor and the CLI call use for every plugin before any promise is
\* resumed: each call sees the tools of the calls before it.
BootAllAtOnce ==
  /\ ~awaited
  /\ booted = 0 /\ BootOrder # <<>>
  /\ LET Ps == {BootOrder[i] : i \in DOMAIN BootOrder}
         Position(p) == CHOOSE i \in DOMAIN BootOrder : BootOrder[i] = p
         Earlier(p) == UNION {Provides[BootOrder[i]] : i \in 1 .. Position(p) - 1}
     IN /\ plugins' = Ps
        /\ tools' = UNION {Provides[p] : p \in Ps}
        /\ op' = [o \in OpIds |->
                    IF o \in Ps
                    THEN [pc |-> "applying", plugin |-> o, before |-> Earlier(o)]
                    ELSE Idle]
  /\ inside' = {pair \in Plugins \X Plugins : BootsBefore(pair[1], pair[2])}
  /\ booted' = Len(BootOrder)
  /\ UNCHANGED <<pluginTools, applied, awaited, robbed, traffic>>

\* With awaits, one plugin is registered when the one before it is.
BootNext ==
  /\ awaited
  /\ booted < Len(BootOrder)
  /\ \A q \in Plugins : op[q] = Idle
  /\ LET p == BootOrder[booted + 1]
     IN /\ EnterAndApply(p, p)
  /\ booted' = booted + 1
  /\ UNCHANGED <<awaited, traffic>>

\* The server answers requests once the boot-time promises are resumed: no
\* built-in apply awaits anything, so they resume before any I/O.
Serving ==
  /\ booted = Len(BootOrder)
  /\ \A p \in Plugins : op[p] = Idle

-----------------------------------------------------------------------------
(* Hot reload. *)

\* One more request begins.
Joins ==
  /\ requested < MaxRequests
  /\ requested' = requested + 1
  /\ overlapped' = (overlapped \/ \E q \in Requests : op[q] # Idle)

\* reloadPlugin up to its first await.
Reload(r, p) ==
  /\ Serving
  /\ op[r] = Idle
  /\ \/ /\ p \in plugins \cap Teardown
        /\ Goto(r, "reloadTeardown", p)
        /\ UNCHANGED <<registry, overlaps>>
     \/ /\ p \in plugins \ Teardown
        /\ RemovePlugin(p)
        /\ Goto(r, "loading", p)
     \/ /\ p \notin plugins
        /\ Goto(r, "loading", p)
        /\ UNCHANGED <<registry, overlaps>>
  /\ Joins
  /\ UNCHANGED mode

\* loadFromFile called directly, for one file of loadFromDirectory: nothing is
\* unregistered before the import.
LoadFile(r, p) ==
  /\ Serving
  /\ op[r] = Idle
  /\ Goto(r, "loading", p)
  /\ Joins
  /\ UNCHANGED <<registry, mode, overlaps>>

\* teardown returned or threw: unregister goes on either way.
TeardownDone(r) ==
  /\ op[r].pc \in {"reloadTeardown", "registerTeardown"}
  /\ RemovePlugin(op[r].plugin)
  /\ Goto(r, IF op[r].pc = "reloadTeardown" THEN "loading" ELSE "register",
          op[r].plugin)
  /\ UNCHANGED <<mode, traffic>>

\* A missing file, a module that does not evaluate or exports no plugin.
LoadFails(r) ==
  /\ op[r].pc = "loading"
  /\ op' = [op EXCEPT ![r] = Idle]
  /\ UNCHANGED <<registry, mode, overlaps, traffic>>

\* loadFromFile has the module, from the module cache when its URL was imported
\* before, and calls use: register up to its first await.
Loaded(r) ==
  /\ op[r].pc = "loading"
  /\ LET p == op[r].plugin
     IN \/ /\ p \notin plugins
           /\ EnterAndApply(r, p)
        \/ /\ p \in plugins \cap Teardown
           /\ Goto(r, "registerTeardown", p)
           /\ UNCHANGED <<registry, overlaps>>
        \/ /\ p \in plugins \ Teardown
           /\ RemovePlugin(p)
           /\ Goto(r, "register", p)
  /\ UNCHANGED <<mode, traffic>>

Register(r) ==
  /\ op[r].pc = "register"
  /\ EnterAndApply(r, op[r].plugin)
  /\ UNCHANGED <<mode, traffic>>

\* Faulty variant: the plugin is credited with the whole registry.
AppliedOwningAll(o) ==
  /\ op[o].pc = "applying"
  /\ pluginTools' = [pluginTools EXCEPT ![op[o].plugin] = tools]
  /\ applied' = applied \cup ({op[o].plugin} \cap plugins)
  /\ op' = [op EXCEPT ![o] = Idle]
  /\ UNCHANGED <<plugins, tools, mode, overlaps, traffic>>

\* apply's promise resolved: what appeared in the registry since is the plugin's.
Applied(o) ==
  /\ op[o].pc = "applying"
  /\ pluginTools' = [pluginTools EXCEPT ![op[o].plugin] = tools \ op[o].before]
  /\ applied' = applied \cup ({op[o].plugin} \cap plugins)
  /\ op' = [op EXCEPT ![o] = Idle]
  /\ UNCHANGED <<plugins, tools, mode, overlaps, traffic>>

\* apply threw: loadFromFile swallows it, a boot-time use rejects unhandled.
ApplyThrows(o) ==
  /\ op[o].pc = "applying"
  /\ op[o].plugin \in MayThrow
  /\ op' = [op EXCEPT ![o] = Idle]
  /\ UNCHANGED <<registry, mode, overlaps, traffic>>

Next ==
  \/ BootAllAtOnce
  \/ BootNext
  \/ \E r \in Requests, p \in Plugins : Reload(r, p) \/ LoadFile(r, p)
  \/ \E r \in Requests : TeardownDone(r) \/ LoadFails(r) \/ Loaded(r) \/ Register(r)
  \/ \E o \in OpIds : Applied(o) \/ ApplyThrows(o)

Spec == Init /\ [][Next]_vars

-----------------------------------------------------------------------------
(* Properties. *)

\* Some operation on p is suspended in `ops`.
Handled(p, ops) == \E o \in OpIds : ops[o] # Idle /\ ops[o].plugin = p

\* A plugin is credited with its own tools and with those of the plugins that
\* entered theirs between the two listings of its registration.
CreditsOverlapsOnly ==
  \A q, p \in Plugins :
    p # q /\ pluginTools[q] \cap Provides[p] # {} => <<q, p>> \in inside

\* A plugin whose apply returned has all its tools in the registry, unless a
\* plugin whose registration surrounded its own was unregistered since: no other
\* reload, failed load, throwing apply or teardown takes a tool from it.
KeepsItsTools == \A p \in applied \ robbed : Provides[p] \subseteq tools

\* As long as no two requests overlap, only the boots that do not await ctx.use,
\* the server's and the CLI's, make registrations surround each other: a plugin
\* can then be robbed by the reload of one that was booted before it alone.
OnlyTheBootSurrounds ==
  ~overlapped => \A pair \in inside : ~awaited /\ BootsBefore(pair[1], pair[2])

\* Who may lose tools to whom, after either kind of boot and any sequence of
\* reloads, overlapping ones included.
ToolsOfAppliedPlugins ==
  /\ CreditsOverlapsOnly
  /\ KeepsItsTools
  /\ OnlyTheBootSurrounds

\* "Suporte a hot-reload de plugins individuais sem reiniciar o kernel"
\* (psa_plugin_loader.ts): a tool leaves the registry only in a step of an
\* operation on the plugin that provides it.
ReloadIsLocal ==
  [][\A p \in Plugins :
        (tools \ tools') \cap Provides[p] # {} => Handled(p, op) \/ Handled(p, op')]_vars

=============================================================================
