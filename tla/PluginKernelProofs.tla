------------------------- MODULE PluginKernelProofs -------------------------
(***************************************************************************)
(* Proofs about PluginKernel, for any plugins, tools, boot order, kind of  *)
(* boot and requests.  What a registration will be credited with is what   *)
(* the plugins it surrounds have entered, so a tool leaves the registry    *)
(* with its own plugin or with one that surrounded it.                     *)
(***************************************************************************)
EXTENDS PluginKernel, TLAPS

\* Before the boot nothing is registered and nothing is suspended.
Fresh ==
  booted = 0 /\ Len(BootOrder) > 0 =>
    /\ applied = {}
    /\ \A p \in Plugins : pluginTools[p] = {}
    /\ \A o \in OpIds : op[o] = Idle

\* What a pending registration will be credited with, apart from its own.
Pending ==
  \A o \in OpIds, p \in Plugins :
    /\ op[o].pc = "applying" /\ p # op[o].plugin
    /\ (tools \ op[o].before) \cap Provides[p] # {}
    => <<op[o].plugin, p>> \in inside

\* A plugin that is entered has its tools in the registry unless it was robbed.
Whole == \A p \in plugins \ robbed : Provides[p] \subseteq tools

Exact == CreditsOverlapsOnly /\ Pending /\ Whole

\* Requests are served after the boot.
Served ==
  \A r \in Requests :
    op[r] # Idle => booted = Len(BootOrder) /\ \A p \in Plugins : op[p] = Idle

\* Until two requests overlap, one is suspended at a time.
Single ==
  ~overlapped => \A r, q \in Requests : op[r] # Idle /\ op[q] # Idle => r = q

Suspension ==
  [pc : {"reloadTeardown", "loading", "registerTeardown", "register", "applying"},
   plugin : Plugins, before : SUBSET Tools]

\* A suspended operation is on a plugin and has a listing of tools.
LEMMA SuspendedOps ==
  ASSUME KernelTypeOK, NEW o \in OpIds, op[o].pc # "idle"
  PROVE  op[o] \in Suspension /\ op[o] # Idle
BY DEF KernelTypeOK, OpState, Idle, Suspension

LEMMA KernelTypeInit == Init => KernelTypeOK /\ Fresh
<1> SUFFICES ASSUME Init PROVE KernelTypeOK /\ Fresh
  OBVIOUS
<1>1. Len(BootOrder) \in Nat
  BY PluginAssumption
<1>2. Idle \in OpState
  BY DEF OpState
<1>3. op \in [OpIds -> OpState] /\ pluginTools \in [Plugins -> SUBSET Tools]
  BY <1>2 DEF Init
<1>4. \A o \in OpIds : op[o] = Idle
  BY DEF Init
<1>5. Fresh
  BY <1>4 DEF Init, Fresh
<1>6. booted \in 0 .. Len(BootOrder)
  BY <1>1 DEF Init
<1>7. QED
  BY <1>3, <1>5, <1>6 DEF Init, KernelTypeOK

\* Only plugins are being registered.
LEMMA RegisteringTyped == KernelTypeOK => Registering \subseteq Plugins
<1> SUFFICES ASSUME KernelTypeOK, NEW o \in OpIds, op[o].pc = "applying" PROVE op[o].plugin \in Plugins
  BY DEF Registering
<1>1. QED
  BY SuspendedOps DEF Suspension

\* The two fragments of the manager keep the types of what they change.
LEMMA EnterAndApplyTyped ==
  ASSUME KernelTypeOK, NEW o \in OpIds, NEW p \in Plugins, EnterAndApply(o, p)
  PROVE  /\ plugins' \subseteq Plugins /\ tools' \subseteq Tools
         /\ pluginTools' \in [Plugins -> SUBSET Tools]
         /\ op' \in [OpIds -> OpState] /\ applied' \subseteq plugins'
         /\ inside' \subseteq Plugins \X Plugins /\ robbed' \subseteq Plugins
<1>1. Provides[p] \subseteq Tools
  BY PluginAssumption
<1>2. [pc |-> "applying", plugin |-> p, before |-> tools] \in OpState
  BY DEF KernelTypeOK, OpState
<1>3. inside' \subseteq Plugins \X Plugins /\ robbed' \subseteq Plugins
  BY RegisteringTyped DEF KernelTypeOK, EnterAndApply
<1>4. QED
  BY <1>1, <1>2, <1>3 DEF KernelTypeOK, EnterAndApply

LEMMA RemoveTyped ==
  ASSUME KernelTypeOK, NEW p \in Plugins, RemovePlugin(p)
  PROVE  /\ plugins' \subseteq Plugins /\ tools' \subseteq Tools
         /\ pluginTools' \in [Plugins -> SUBSET Tools]
         /\ applied' \subseteq plugins'
         /\ inside' \subseteq Plugins \X Plugins /\ robbed' \subseteq Plugins
BY DEF KernelTypeOK, RemovePlugin

LEMMA GotoTyped ==
  ASSUME KernelTypeOK, NEW o \in OpIds, NEW p \in Plugins,
         NEW pc \in {"reloadTeardown", "loading", "registerTeardown", "register"}, Goto(o, pc, p)
  PROVE  op' \in [OpIds -> OpState]
<1>1. [pc |-> pc, plugin |-> p, before |-> {}] \in OpState
  BY DEF OpState
<1>2. QED
  BY <1>1 DEF KernelTypeOK, Goto

\* The boot that registers everything at once is well typed.
LEMMA BootAllTyped ==
  ASSUME KernelTypeOK, Fresh, BootAllAtOnce
  PROVE  KernelTypeOK'
<1> DEFINE Ps == {BootOrder[i] : i \in DOMAIN BootOrder}
           Position(p) == CHOOSE i \in DOMAIN BootOrder : BootOrder[i] = p
           Earlier(p) == UNION {Provides[BootOrder[i]] : i \in 1 .. Position(p) - 1}
<1>1. /\ Len(BootOrder) \in Nat /\ DOMAIN BootOrder = 1 .. Len(BootOrder)
      /\ \A i \in 1 .. Len(BootOrder) : BootOrder[i] \in Plugins
  BY PluginAssumption
<1>2. Ps \subseteq Plugins /\ UNION {Provides[p] : p \in Ps} \subseteq Tools
  BY <1>1, PluginAssumption
<1>3. ASSUME NEW p \in Ps PROVE Earlier(p) \subseteq Tools
  <2>1. Position(p) \in 1 .. Len(BootOrder)
    BY <1>1
  <2>2. \A i \in 1 .. Position(p) - 1 : BootOrder[i] \in Plugins
    BY <1>1, <2>1
  <2>3. QED
    BY <2>2, PluginAssumption
<1>4. Idle \in OpState
  BY DEF OpState
<1>5. ASSUME NEW o \in OpIds, o \in Ps
      PROVE  [pc |-> "applying", plugin |-> o, before |-> Earlier(o)] \in OpState
  BY <1>2, <1>3, <1>5 DEF OpState
<1>6. /\ plugins' = Ps /\ tools' = UNION {Provides[p] : p \in Ps} /\ booted' = Len(BootOrder)
      /\ op' = [o \in OpIds |-> IF o \in Ps
                 THEN [pc |-> "applying", plugin |-> o, before |-> Earlier(o)] ELSE Idle]
      /\ UNCHANGED <<pluginTools, applied, awaited, robbed, requested, overlapped>>
      /\ inside' \subseteq Plugins \X Plugins
  BY DEF BootAllAtOnce, traffic
<1>7. applied = {}
  <2>1. Len(BootOrder) > 0
    BY <1>1, PluginAssumption DEF BootAllAtOnce
  <2>2. QED
    BY <2>1 DEF Fresh, BootAllAtOnce
<1> HIDE DEF Ps, Earlier
<1>8. op' \in [OpIds -> OpState]
  BY <1>4, <1>5, <1>6
<1>9. QED
  BY <1>1, <1>2, <1>6, <1>7, <1>8 DEF KernelTypeOK

LEMMA KernelTypeStep == ASSUME KernelTypeOK, Fresh, [Next]_vars PROVE KernelTypeOK'
<1> USE DEF mode, traffic, overlaps, registry
<1>1. /\ Len(BootOrder) \in Nat /\ Requests \subseteq OpIds /\ Plugins \subseteq OpIds
      /\ Idle \in OpState
  BY PluginAssumption DEF OpIds, OpState
<1>2. CASE BootAllAtOnce
  BY <1>2, BootAllTyped
<1>3. CASE BootNext
  <2>1. booted + 1 \in 1 .. Len(BootOrder) /\ BootOrder[booted + 1] \in Plugins
    BY <1>1, <1>3, PluginAssumption DEF BootNext, KernelTypeOK
  <2>2. EnterAndApply(BootOrder[booted + 1], BootOrder[booted + 1]) /\ booted' = booted + 1
    BY <1>3 DEF BootNext
  <2>3. QED
    BY <1>1, <1>3, <2>1, <2>2, EnterAndApplyTyped DEF BootNext, KernelTypeOK
<1>4. ASSUME NEW r \in Requests, NEW p \in Plugins, Reload(r, p) PROVE KernelTypeOK'
  <2>1. op' \in [OpIds -> OpState]
    BY <1>1, <1>4, GotoTyped DEF Reload
  <2>2. /\ plugins' \subseteq Plugins /\ tools' \subseteq Tools
        /\ pluginTools' \in [Plugins -> SUBSET Tools] /\ applied' \subseteq plugins'
        /\ inside' \subseteq Plugins \X Plugins /\ robbed' \subseteq Plugins
    BY <1>4, RemoveTyped DEF Reload, KernelTypeOK
  <2>3. QED
    BY <1>4, <2>1, <2>2 DEF Reload, Joins, KernelTypeOK
<1>5. ASSUME NEW r \in Requests, NEW p \in Plugins, LoadFile(r, p) PROVE KernelTypeOK'
  <2>1. op' \in [OpIds -> OpState]
    BY <1>1, <1>5, GotoTyped DEF LoadFile
  <2>2. QED
    BY <1>5, <2>1 DEF LoadFile, Joins, KernelTypeOK
<1>6. ASSUME NEW r \in Requests, TeardownDone(r) PROVE KernelTypeOK'
  <2>1. op[r] \in Suspension
    BY <1>1, <1>6, SuspendedOps DEF TeardownDone
  <2>2. op[r].plugin \in Plugins
    BY <2>1 DEF Suspension
  <2>3. op' \in [OpIds -> OpState]
    BY <1>1, <1>6, <2>2, GotoTyped DEF TeardownDone
  <2>4. QED
    BY <1>6, <2>2, <2>3, RemoveTyped DEF TeardownDone, KernelTypeOK
<1>7. ASSUME NEW r \in Requests, LoadFails(r) PROVE KernelTypeOK'
  BY <1>1, <1>7 DEF LoadFails, KernelTypeOK
<1>8. ASSUME NEW r \in Requests, Loaded(r) PROVE KernelTypeOK'
  <2>1. op[r] \in Suspension
    BY <1>1, <1>8, SuspendedOps DEF Loaded
  <2>2. op[r].plugin \in Plugins
    BY <2>1 DEF Suspension
  <2>3. CASE EnterAndApply(r, op[r].plugin)
    BY <1>1, <1>8, <2>2, <2>3, EnterAndApplyTyped DEF Loaded, KernelTypeOK
  <2>4. CASE Goto(r, "registerTeardown", op[r].plugin) /\ UNCHANGED <<registry, overlaps>>
    BY <1>1, <1>8, <2>2, <2>4, GotoTyped DEF Loaded, KernelTypeOK
  <2>5. CASE RemovePlugin(op[r].plugin) /\ Goto(r, "register", op[r].plugin)
    BY <1>1, <1>8, <2>2, <2>5, GotoTyped, RemoveTyped DEF Loaded, KernelTypeOK
  <2>6. QED
    BY <1>8, <2>3, <2>4, <2>5 DEF Loaded
<1>9. ASSUME NEW r \in Requests, Register(r) PROVE KernelTypeOK'
  <2>1. op[r] \in Suspension
    BY <1>1, <1>9, SuspendedOps DEF Register
  <2>2. op[r].plugin \in Plugins
    BY <2>1 DEF Suspension
  <2>3. QED
    BY <1>1, <1>9, <2>2, EnterAndApplyTyped DEF Register, KernelTypeOK
<1>10. ASSUME NEW o \in OpIds, Applied(o) PROVE KernelTypeOK'
  <2>1. op[o] \in Suspension
    BY <1>10, SuspendedOps DEF Applied
  <2>2. op[o].plugin \in Plugins
    BY <2>1 DEF Suspension
  <2>3. QED
    BY <1>1, <1>10, <2>2 DEF Applied, KernelTypeOK
<1>11. ASSUME NEW o \in OpIds, ApplyThrows(o) PROVE KernelTypeOK'
  BY <1>1, <1>11 DEF ApplyThrows, KernelTypeOK
<1>12. CASE UNCHANGED vars
  BY <1>12 DEF vars, KernelTypeOK
<1>13. QED
  BY <1>2, <1>3, <1>4, <1>5, <1>6, <1>7, <1>8, <1>9, <1>10, <1>11, <1>12 DEF Next

LEMMA FreshStep == ASSUME KernelTypeOK, Fresh, [Next]_vars PROVE Fresh'
<1>1. SUFFICES ASSUME booted' = 0, Len(BootOrder) > 0
               PROVE  /\ applied' = {}
                      /\ \A p \in Plugins : pluginTools'[p] = {}
                      /\ \A o \in OpIds : op'[o] = Idle
  BY DEF Fresh
<1>2. Len(BootOrder) \in Nat /\ booted \in Nat /\ Requests \subseteq OpIds
  BY PluginAssumption DEF KernelTypeOK, OpIds
<1>3. CASE booted = 0
  <2>1. /\ applied = {}
        /\ \A p \in Plugins : pluginTools[p] = {}
        /\ \A o \in OpIds : op[o] = Idle
    BY <1>1, <1>3 DEF Fresh
  <2>2. ~BootAllAtOnce /\ ~BootNext
    BY <1>1, <1>2, <1>3 DEF BootAllAtOnce, BootNext
  <2>3. \A r \in Requests, p \in Plugins : ~Reload(r, p) /\ ~LoadFile(r, p)
    BY <1>1, <1>2, <1>3 DEF Reload, LoadFile, Serving
  <2>4. \A o \in OpIds : ~TeardownDone(o) /\ ~LoadFails(o) /\ ~Loaded(o) /\ ~Register(o)
    BY <2>1 DEF TeardownDone, LoadFails, Loaded, Register, Idle
  <2>5. \A o \in OpIds : ~Applied(o) /\ ~ApplyThrows(o)
    BY <2>1 DEF Applied, ApplyThrows, Idle
  <2>6. UNCHANGED vars
    BY <1>2, <2>2, <2>3, <2>4, <2>5 DEF Next
  <2>7. QED
    BY <2>1, <2>6 DEF vars, registry
<1>4. CASE booted # 0
  <2>1. booted' # 0
    BY <1>2, <1>4 DEF Next, vars, mode, BootAllAtOnce, BootNext, Reload, LoadFile,
      TeardownDone, LoadFails, Loaded, Register, Applied, ApplyThrows
  <2>2. QED
    BY <1>1, <2>1
<1>5. QED
  BY <1>3, <1>4

\* PsaPluginManager, PsaToolService and the suspended operations are well typed
\* in every reachable state, for any plugins, boot order and requests.
THEOREM KernelTypeCorrect == Spec => []KernelTypeOK
<1>1. KernelTypeOK /\ Fresh /\ [Next]_vars => (KernelTypeOK /\ Fresh)'
  BY KernelTypeStep, FreshStep
<1>2. QED
  BY <1>1, KernelTypeInit, PTL DEF Spec

-----------------------------------------------------------------------------
(* Ownership. *)

\* What a plugin enters goes to the credit of the registrations around it.
LEMMA EnterKeeps ==
  ASSUME KernelTypeOK, Exact, NEW o \in OpIds, NEW p \in Plugins, EnterAndApply(o, p)
  PROVE  Exact'
<1>1. /\ op'[o] = [pc |-> "applying", plugin |-> p, before |-> tools]
      /\ \A q \in OpIds : q # o => op'[q] = op[q]
  BY DEF EnterAndApply, KernelTypeOK
<1>2. /\ tools' = tools \cup Provides[p] /\ plugins' = plugins \cup {p}
      /\ pluginTools' = pluginTools /\ robbed' = robbed \ {p}
      /\ inside \subseteq inside'
      /\ \A q \in Registering : q # p => <<q, p>> \in inside'
  BY DEF EnterAndApply
<1>3. CreditsOverlapsOnly'
  BY <1>2 DEF Exact, CreditsOverlapsOnly
<1>4. Pending'
  <2>1. SUFFICES ASSUME NEW q \in OpIds, NEW x \in Plugins,
                        op'[q].pc = "applying", x # op'[q].plugin,
                        (tools' \ op'[q].before) \cap Provides[x] # {}
                 PROVE  <<op'[q].plugin, x>> \in inside'
    BY DEF Pending
  <2>2. x # p => Provides[p] \cap Provides[x] = {}
    BY PluginAssumption
  <2>3. q # o
    BY <1>1, <1>2, <2>1, <2>2
  <2>4. op'[q] = op[q]
    BY <1>1, <2>3
  <2>5. CASE x = p
    <3>1. op[q].plugin \in Registering
      BY <2>1, <2>4 DEF Registering
    <3>2. QED
      BY <1>2, <2>1, <2>4, <2>5, <3>1
  <2>6. CASE x # p
    <3>1. (tools \ op[q].before) \cap Provides[x] # {}
      BY <1>2, <2>1, <2>2, <2>4, <2>6
    <3>2. QED
      BY <1>2, <2>1, <2>4, <3>1 DEF Exact, Pending
  <2>7. QED
    BY <2>5, <2>6
<1>5. Whole'
  BY <1>2 DEF Exact, Whole
<1>6. QED
  BY <1>3, <1>4, <1>5 DEF Exact

\* A removal takes away the plugin's own tools and those of the plugins its
\* registration surrounded, which it leaves robbed.
LEMMA RemoveKeeps ==
  ASSUME KernelTypeOK, Exact, NEW o \in OpIds, NEW p \in Plugins,
         RemovePlugin(p), NEW pc, pc # "applying", Goto(o, pc, p)
  PROVE  Exact'
<1>1. /\ op'[o].pc # "applying"
      /\ \A q \in OpIds : q # o => op'[q] = op[q]
  BY DEF Goto, KernelTypeOK
<1>2. /\ tools' = tools \ pluginTools[p] /\ plugins' = plugins \ {p}
      /\ pluginTools'[p] = {} /\ \A q \in Plugins : q # p => pluginTools'[q] = pluginTools[q]
      /\ \A q, x \in Plugins : <<q, x>> \in inside /\ q # p => <<q, x>> \in inside'
      /\ p \in Registering => inside' = inside
      /\ robbed' = (robbed \cup {q \in Plugins : <<p, q>> \in inside}) \cap plugins'
  BY DEF RemovePlugin, KernelTypeOK
<1>3. CreditsOverlapsOnly'
  BY <1>2 DEF Exact, CreditsOverlapsOnly
<1>4. Pending'
  <2>1. SUFFICES ASSUME NEW q \in OpIds, NEW x \in Plugins,
                        op'[q].pc = "applying", x # op'[q].plugin,
                        (tools' \ op'[q].before) \cap Provides[x] # {}
                 PROVE  <<op'[q].plugin, x>> \in inside'
    BY DEF Pending
  <2>2. op'[q] = op[q]
    BY <1>1, <2>1
  <2>3. <<op[q].plugin, x>> \in inside
    BY <1>2, <2>1, <2>2 DEF Exact, Pending
  <2>4. op[q].plugin \in Plugins /\ op[q].plugin \in Registering
    <3>1. op[q].plugin \in Registering
      BY <2>1, <2>2 DEF Registering
    <3>2. QED
      BY <3>1, RegisteringTyped
  <2>5. QED
    BY <1>2, <2>2, <2>3, <2>4
<1>5. Whole'
  <2>1. SUFFICES ASSUME NEW x \in plugins' \ robbed' PROVE Provides[x] \subseteq tools'
    BY DEF Whole
  <2>2. x \in Plugins /\ x # p /\ x \in plugins \ robbed /\ <<p, x>> \notin inside
    BY <1>2, <2>1 DEF KernelTypeOK
  <2>3. pluginTools[p] \cap Provides[x] = {} /\ Provides[x] \subseteq tools
    BY <2>2 DEF Exact, CreditsOverlapsOnly, Whole
  <2>4. QED
    BY <1>2, <2>3
<1>6. QED
  BY <1>3, <1>4, <1>5 DEF Exact

\* The registry is left alone and nothing begins to apply.
LEMMA RestKeeps ==
  ASSUME KernelTypeOK, Exact, NEW o \in OpIds, NEW next, next.pc # "applying",
         op' = [op EXCEPT ![o] = next], UNCHANGED <<registry, overlaps>>
  PROVE  Exact'
<1>1. op'[o].pc # "applying" /\ \A q \in OpIds : q # o => op'[q] = op[q]
  BY DEF KernelTypeOK
<1>2. UNCHANGED <<plugins, tools, pluginTools, inside, robbed>>
  BY DEF registry, overlaps
<1>3. Pending'
  BY <1>1, <1>2 DEF Exact, Pending
<1>4. QED
  BY <1>2, <1>3 DEF Exact, CreditsOverlapsOnly, Whole

\* What was pending becomes the plugin's credit.
LEMMA AppliedKeeps ==
  ASSUME KernelTypeOK, Exact, NEW o \in OpIds, Applied(o)
  PROVE  Exact'
<1>1. /\ op[o].pc = "applying"
      /\ op'[o] = Idle /\ \A q \in OpIds : q # o => op'[q] = op[q]
      /\ UNCHANGED <<plugins, tools, inside, robbed>>
  BY DEF Applied, KernelTypeOK, overlaps
<1>2. /\ pluginTools'[op[o].plugin] = tools \ op[o].before
      /\ \A q \in Plugins : q # op[o].plugin => pluginTools'[q] = pluginTools[q]
  <2>1. op[o] \in Suspension
    BY <1>1, SuspendedOps
  <2>2. QED
    BY <2>1 DEF Applied, KernelTypeOK, Suspension
<1>3. CreditsOverlapsOnly'
  <2>1. SUFFICES ASSUME NEW q \in Plugins, NEW p \in Plugins, p # q,
                        pluginTools'[q] \cap Provides[p] # {}
                 PROVE  <<q, p>> \in inside
    BY <1>1 DEF CreditsOverlapsOnly
  <2>2. CASE q = op[o].plugin
    BY <1>1, <1>2, <2>1, <2>2 DEF Exact, Pending
  <2>3. CASE q # op[o].plugin
    BY <1>2, <2>1, <2>3 DEF Exact, CreditsOverlapsOnly
  <2>4. QED
    BY <2>2, <2>3
<1>4. Pending'
  BY <1>1 DEF Exact, Pending, Idle
<1>5. QED
  BY <1>1, <1>3, <1>4 DEF Exact, Whole

\* The boot that awaits nothing surrounds each plugin with all before it.
LEMMA BootAllKeeps ==
  ASSUME KernelTypeOK, Fresh, BootAllAtOnce
  PROVE  Exact'
<1> DEFINE Ps == {BootOrder[i] : i \in DOMAIN BootOrder}
           Position(p) == CHOOSE i \in DOMAIN BootOrder : BootOrder[i] = p
           Earlier(p) == UNION {Provides[BootOrder[i]] : i \in 1 .. Position(p) - 1}
<1>1. /\ Len(BootOrder) \in Nat /\ DOMAIN BootOrder = 1 .. Len(BootOrder)
      /\ \A i \in 1 .. Len(BootOrder) : BootOrder[i] \in Plugins
  BY PluginAssumption
<1>2. /\ plugins' = Ps /\ tools' = UNION {Provides[p] : p \in Ps} /\ pluginTools' = pluginTools
      /\ op' = [o \in OpIds |-> IF o \in Ps
                 THEN [pc |-> "applying", plugin |-> o, before |-> Earlier(o)] ELSE Idle]
      /\ inside' = {pair \in Plugins \X Plugins : BootsBefore(pair[1], pair[2])}
  BY DEF BootAllAtOnce
<1>3. \A p \in Plugins : pluginTools[p] = {}
  BY <1>1 DEF Fresh, BootAllAtOnce
<1>4. ASSUME NEW q \in Ps, NEW p \in Ps, p # q, ~BootsBefore(q, p)
      PROVE  Provides[p] \subseteq Earlier(q)
  <2>1. PICK i \in DOMAIN BootOrder : BootOrder[i] = p
    OBVIOUS
  <2>2. Position(q) \in DOMAIN BootOrder /\ BootOrder[Position(q)] = q
    OBVIOUS
  <2>3. i \in 1 .. Position(q) - 1
    <3> HIDE DEF Position
    <3>1. ~(Position(q) < i) /\ i # Position(q)
      BY <1>4, <2>1, <2>2 DEF BootsBefore
    <3>2. QED
      BY <1>1, <2>1, <2>2, <3>1
  <2> HIDE DEF Position
  <2>4. QED
    BY <2>1, <2>3
<1>5. CreditsOverlapsOnly'
  BY <1>2, <1>3 DEF CreditsOverlapsOnly
<1>6. Whole'
  BY <1>2 DEF Whole
<1>7. Pending'
  <2>1. SUFFICES ASSUME NEW o \in OpIds, NEW p \in Plugins,
                        op'[o].pc = "applying", p # op'[o].plugin,
                        (tools' \ op'[o].before) \cap Provides[p] # {}
                 PROVE  <<op'[o].plugin, p>> \in inside'
    BY DEF Pending
  <2> HIDE DEF Earlier
  <2>2. o \in Ps /\ op'[o].plugin = o /\ op'[o].before = Earlier(o)
    BY <1>2, <2>1 DEF Idle
  <2>3. o \in Plugins
    BY <1>1, <2>2
  <2>4. p \in Ps
    <3>1. PICK t \in tools' : t \in Provides[p]
      BY <2>1
    <3>2. PICK x \in Ps : t \in Provides[x]
      BY <1>2, <3>1
    <3>3. x \in Plugins
      BY <1>1, <3>2
    <3>4. QED
      BY <3>1, <3>2, <3>3, PluginAssumption
  <2>5. BootsBefore(o, p)
    BY <1>4, <2>1, <2>2, <2>4
  <2>6. QED
    BY <1>2, <2>2, <2>3, <2>5
<1>8. QED
  BY <1>5, <1>6, <1>7 DEF Exact

LEMMA ExactStep ==
  ASSUME KernelTypeOK, Fresh, Exact, [Next]_vars
  PROVE  Exact'
<1>1. Requests \subseteq OpIds /\ Plugins \subseteq OpIds /\ Len(BootOrder) \in Nat
  BY PluginAssumption DEF OpIds
<1>2. ASSUME NEW o \in OpIds, NEW p \in Plugins,
             NEW pc \in {"reloadTeardown", "loading", "registerTeardown", "register"},
             Goto(o, pc, p), UNCHANGED <<registry, overlaps>>
      PROVE  Exact'
  <2>1. op' = [op EXCEPT ![o] = [pc |-> pc, plugin |-> p, before |-> {}]]
    BY <1>2 DEF Goto
  <2>2. [pc |-> pc, plugin |-> p, before |-> {}].pc # "applying"
    BY <1>2
  <2>3. QED
    BY <2>1, <2>2, <1>2, RestKeeps
<1>3. ASSUME NEW o \in OpIds, op' = [op EXCEPT ![o] = Idle], UNCHANGED <<registry, overlaps>>
      PROVE  Exact'
  <2>1. Idle.pc # "applying"
    BY DEF Idle
  <2>2. QED
    BY <1>3, <2>1, RestKeeps
<1>4. CASE BootAllAtOnce
  BY <1>4, BootAllKeeps
<1>5. CASE BootNext
  <2>1. booted + 1 \in 1 .. Len(BootOrder)
    BY <1>1, <1>5 DEF BootNext, KernelTypeOK
  <2>2. BootOrder[booted + 1] \in Plugins
    BY <2>1, PluginAssumption
  <2>3. QED
    BY <1>1, <1>5, <2>2, EnterKeeps DEF BootNext
<1>6. ASSUME NEW r \in Requests, NEW p \in Plugins, Reload(r, p) \/ LoadFile(r, p)
      PROVE  Exact'
  <2>1. CASE RemovePlugin(p) /\ Goto(r, "loading", p)
    BY <1>1, <2>1, RemoveKeeps
  <2>2. CASE (Goto(r, "loading", p) \/ Goto(r, "reloadTeardown", p)) /\ UNCHANGED <<registry, overlaps>>
    BY <1>1, <1>2, <2>2
  <2>3. QED
    BY <1>6, <2>1, <2>2 DEF Reload, LoadFile
<1>7. ASSUME NEW r \in Requests, TeardownDone(r) \/ LoadFails(r) \/ Loaded(r) \/ Register(r)
      PROVE  Exact'
  <2> DEFINE p == op[r].plugin
  <2>1. op[r].pc # "idle"
    BY <1>7 DEF TeardownDone, LoadFails, Loaded, Register
  <2>2. r \in OpIds /\ p \in Plugins
    BY <1>1, <2>1, SuspendedOps DEF Suspension
  <2> HIDE DEF p
  <2>3. CASE EnterAndApply(r, p)
    BY <2>2, <2>3, EnterKeeps
  <2>4. CASE RemovePlugin(p) /\ (Goto(r, "loading", p) \/ Goto(r, "register", p))
    BY <2>2, <2>4, RemoveKeeps
  <2>5. CASE Goto(r, "registerTeardown", p) /\ UNCHANGED <<registry, overlaps>>
    BY <1>2, <2>2, <2>5
  <2>6. CASE op' = [op EXCEPT ![r] = Idle] /\ UNCHANGED <<registry, overlaps>>
    BY <1>3, <2>2, <2>6
  <2>7. QED
    BY <1>7, <2>3, <2>4, <2>5, <2>6 DEF TeardownDone, LoadFails, Loaded, Register, p
<1>8. ASSUME NEW o \in OpIds, Applied(o) PROVE Exact'
  BY <1>8, AppliedKeeps
<1>9. ASSUME NEW o \in OpIds, ApplyThrows(o) PROVE Exact'
  BY <1>3, <1>9 DEF ApplyThrows
<1>10. CASE UNCHANGED vars
  <2>1. UNCHANGED <<plugins, tools, pluginTools, op, inside, robbed>>
    BY <1>10 DEF vars, registry, overlaps
  <2>2. QED
    BY <2>1 DEF Exact, CreditsOverlapsOnly, Pending, Whole
<1>11. QED
  BY <1>4, <1>5, <1>6, <1>7, <1>8, <1>9, <1>10 DEF Next

-----------------------------------------------------------------------------
(* Who surrounds whom. *)

\* When nothing is suspended but o, which is not applying, no registration is
\* pending.
LEMMA NothingPending ==
  ASSUME NEW o, op[o].pc # "applying", \A q \in OpIds : q # o => op[q] = Idle
  PROVE  Registering = {}
BY DEF Registering, Idle

\* Requests wait for the boot, and go one at a time until two overlap.
LEMMA ServedStep ==
  ASSUME KernelTypeOK, Served, Single, [Next]_vars
  PROVE  Served' /\ Single'
<1> USE DEF mode, traffic
<1>1. /\ Requests \subseteq OpIds /\ Plugins \subseteq OpIds /\ Requests \cap Plugins = {}
      /\ Len(BootOrder) \in Nat /\ OpIds = Requests \cup Plugins
  BY PluginAssumption DEF OpIds
<1>2. ASSUME NEW o \in OpIds, NEW next, op' = [op EXCEPT ![o] = next],
             op[o].pc # "idle", UNCHANGED <<mode, traffic>>
      PROVE  Served' /\ Single'
  <2>1. /\ op[o] # Idle
        /\ \A q \in OpIds : q # o => op'[q] = op[q]
        /\ booted' = booted /\ overlapped' = overlapped
    BY <1>2 DEF Idle, KernelTypeOK
  <2>2. Served'
    BY <1>1, <2>1 DEF Served
  <2>3. QED
    BY <1>1, <2>1, <2>2 DEF Single
<1>3. CASE BootAllAtOnce
  <2>1. \A r \in Requests : op'[r] = Idle
    BY <1>1, <1>3, PluginAssumption DEF BootAllAtOnce
  <2>2. QED
    BY <2>1 DEF Served, Single
<1>4. CASE BootNext
  <2>1. booted + 1 \in 1 .. Len(BootOrder)
    BY <1>1, <1>4 DEF BootNext, KernelTypeOK
  <2>2. PICK p \in Plugins : EnterAndApply(p, p)
    BY <1>4, <2>1, PluginAssumption DEF BootNext
  <2>3. \A r \in Requests : op[r] = Idle
    BY <1>4 DEF Served, BootNext
  <2>4. \A r \in Requests : op'[r] = Idle
    BY <1>1, <2>2, <2>3 DEF EnterAndApply, KernelTypeOK
  <2>5. QED
    BY <2>4 DEF Served, Single
<1>5. ASSUME NEW r \in Requests, NEW p \in Plugins, Reload(r, p) \/ LoadFile(r, p)
      PROVE  Served' /\ Single'
  <2>1. /\ \A q \in OpIds : q # r => op'[q] = op[q]
        /\ booted' = booted /\ booted = Len(BootOrder)
        /\ \A q \in Plugins : op[q] = Idle
        /\ overlapped' = (overlapped \/ \E q \in Requests : op[q] # Idle)
    BY <1>1, <1>5 DEF Reload, LoadFile, Serving, Joins, Goto, KernelTypeOK
  <2>2. Served'
    BY <1>1, <2>1 DEF Served
  <2>3. ~overlapped' => \A q \in Requests : op[q] = Idle
    BY <2>1
  <2>4. Single'
    BY <1>1, <2>1, <2>3 DEF Single
  <2>5. QED
    BY <2>2, <2>4
<1>6. ASSUME NEW r \in Requests, TeardownDone(r) \/ LoadFails(r) \/ Loaded(r) \/ Register(r)
      PROVE  Served' /\ Single'
  <2>1. op[r].pc # "idle" /\ UNCHANGED <<mode, traffic>> /\ r \in OpIds
    BY <1>1, <1>6 DEF TeardownDone, LoadFails, Loaded, Register
  <2>2. \E next : op' = [op EXCEPT ![r] = next]
    BY <1>6 DEF TeardownDone, LoadFails, Loaded, Register, Goto, EnterAndApply
  <2>3. QED
    BY <1>2, <2>1, <2>2
<1>7. ASSUME NEW o \in OpIds, Applied(o) \/ ApplyThrows(o) PROVE Served' /\ Single'
  BY <1>2, <1>7 DEF Applied, ApplyThrows
<1>8. CASE UNCHANGED vars
  BY <1>8 DEF vars, Served, Single
<1>9. QED
  BY <1>3, <1>4, <1>5, <1>6, <1>7, <1>8 DEF Next

\* A plugin that enters while requests go one at a time is surrounded by none.
LEMMA SurroundsStep ==
  ASSUME KernelTypeOK, Served, Single, OnlyTheBootSurrounds, [Next]_vars
  PROVE  OnlyTheBootSurrounds'
<1> USE DEF mode, traffic, overlaps
<1>1. SUFFICES ASSUME ~overlapped'
               PROVE  \A pair \in inside' : ~awaited' /\ BootsBefore(pair[1], pair[2])
  BY DEF OnlyTheBootSurrounds
<1>2. ~overlapped /\ awaited' = awaited
  BY <1>1 DEF KernelTypeOK, Next, vars, BootAllAtOnce, BootNext, Reload, LoadFile, Joins,
    TeardownDone, LoadFails, Loaded, Register, Applied, ApplyThrows
<1>3. \A pair \in inside : ~awaited /\ BootsBefore(pair[1], pair[2])
  BY <1>2 DEF OnlyTheBootSurrounds
<1>4. /\ Requests \subseteq OpIds /\ Plugins \subseteq OpIds
      /\ OpIds = Requests \cup Plugins /\ Len(BootOrder) \in Nat
  BY PluginAssumption DEF OpIds
<1>5. CASE BootAllAtOnce
  BY <1>2, <1>5 DEF BootAllAtOnce
<1>6. ASSUME NEW r \in Requests, op[r] # Idle PROVE \A q \in OpIds : q # r => op[q] = Idle
  BY <1>2, <1>4, <1>6 DEF Served, Single
<1>7. ASSUME NEW o \in OpIds, NEW p \in Plugins, EnterAndApply(o, p), Registering = {}
      PROVE  inside' \subseteq inside
  BY <1>7 DEF EnterAndApply
<1>8. CASE BootNext
  <2>1. booted + 1 \in 1 .. Len(BootOrder)
    BY <1>4, <1>8 DEF BootNext, KernelTypeOK
  <2>2. PICK p \in Plugins : EnterAndApply(p, p)
    BY <1>8, <2>1, PluginAssumption DEF BootNext
  <2>3. \A o \in OpIds : op[o] = Idle
    BY <1>4, <1>8 DEF Served, BootNext
  <2>4. Registering = {}
    BY <2>3 DEF Registering, Idle
  <2>5. QED
    BY <1>2, <1>3, <1>4, <1>7, <2>2, <2>4
<1>9. ASSUME NEW r \in Requests,
             TeardownDone(r) \/ LoadFails(r) \/ Loaded(r) \/ Register(r)
      PROVE  inside' \subseteq inside
  <2>1. op[r].pc # "idle" /\ op[r].pc # "applying"
    BY <1>9 DEF TeardownDone, LoadFails, Loaded, Register
  <2>2. op[r] # Idle /\ op[r].plugin \in Plugins
    BY <1>4, <2>1, SuspendedOps DEF Suspension
  <2>3. Registering = {}
    BY <1>6, <2>1, <2>2, NothingPending
  <2>4. QED
    BY <1>4, <1>7, <1>9, <2>2, <2>3 DEF TeardownDone, LoadFails, Loaded, Register, RemovePlugin
<1>10. ASSUME NEW r \in Requests, NEW p \in Plugins, Reload(r, p) \/ LoadFile(r, p)
       PROVE  inside' \subseteq inside
  BY <1>10 DEF Reload, LoadFile, RemovePlugin
<1>11. ASSUME NEW o \in OpIds, Applied(o) \/ ApplyThrows(o) PROVE inside' \subseteq inside
  BY <1>11 DEF Applied, ApplyThrows
<1>12. CASE UNCHANGED vars
  BY <1>2, <1>3, <1>12 DEF vars
<1>13. QED
  BY <1>2, <1>3, <1>5, <1>8, <1>9, <1>10, <1>11, <1>12 DEF Next

LEMMA KernelStarts == Init => Exact /\ Served /\ Single /\ OnlyTheBootSurrounds
<1> SUFFICES ASSUME Init PROVE Exact /\ Served /\ Single /\ OnlyTheBootSurrounds
  OBVIOUS
<1>1. \A o \in OpIds : op[o] = Idle
  BY DEF Init
<1>2. Pending /\ Served /\ Single
  BY <1>1 DEF Pending, Served, Single, Idle, OpIds
<1>3. QED
  BY <1>2 DEF Init, Exact, CreditsOverlapsOnly, Whole, OnlyTheBootSurrounds

\* After either kind of boot and any reloads, overlapping ones included: a plugin
\* is credited only with its own tools and with those of the plugins whose
\* registration its own surrounded; an applied plugin lacks a tool only if one
\* that surrounded it was unregistered since; and until requests overlap only
\* the un-awaited boots surround, earlier plugins later ones.
THEOREM AppliedPluginsWork == Spec => []ToolsOfAppliedPlugins
<1> DEFINE Kept == KernelTypeOK /\ Fresh /\ Exact /\ Served /\ Single /\ OnlyTheBootSurrounds
<1>1. Init => Kept
  BY KernelTypeInit, KernelStarts
<1>2. Kept /\ [Next]_vars => Kept'
  BY KernelTypeStep, FreshStep, ExactStep, ServedStep, SurroundsStep
<1>3. Kept => ToolsOfAppliedPlugins
  BY DEF Exact, Whole, KernelTypeOK, ToolsOfAppliedPlugins, KeepsItsTools
<1>4. QED
  BY <1>1, <1>2, <1>3, PTL DEF Spec
=============================================================================
