---------------------------- MODULE CommandTable ----------------------------
(***************************************************************************)
(* pkg/shell: how a shell comes to its commands.  Options are functions    *)
(* that New applies in the order the caller gave them; then New looks for  *)
(* WASM plugins, compiles them, and the shell is ready to dispatch.  Each  *)
(* option is an action; the network options are among them, since meter    *)
(* and dialer have to be rebuilt by whichever comes last.                  *)
(***************************************************************************)
EXTENDS Naturals

CONSTANTS
    Names,          \* command names
    Defaults,       \* the native plugins of every shell
    Gated,          \* lua, go, sqlite3: only with WithUnsafeInterpreters
    OnVirtual,      \* plugins in /memsh/plugins of the virtual filesystem
    OnHost,         \* plugins in ~/.memsh/plugins
    Broken,         \* plugins that do not compile
    MaxOptions      \* bound: options given

VARIABLES
    builtins,       \* name -> where the Go function comes from
    nativePlugins,  \* name -> what help and which describe
    plugins,        \* name -> where the WASM bytes come from
    compiled,       \* names of compiled modules
    pluginFilter,
    flags,          \* wasmEnabled, allowExternalCmds, and whether rt is there
    network,        \* policy, limits, usage, and the meter and dialer made of them
    phase,          \* "options", "ready", or "failed"
    given,          \* number of options so far
    dropped         \* names that WithDisabledPlugins was the last to speak of

vars == <<builtins, nativePlugins, plugins, compiled, pluginFilter, flags,
          network, phase, given, dropped>>

-----------------------------------------------------------------------------
None == "none"
NoMeter == [limits |-> 0, usage |-> 0, made |-> 0]
Meter(limits, usage) == [limits |-> limits, usage |-> usage, made |-> given + 1]
Dialer(policy, meter) == [policy |-> policy, meter |-> meter]

Option ==
    /\ phase = "options" /\ given < MaxOptions
    /\ given' = given + 1
    /\ UNCHANGED <<compiled, phase>>

Tables == <<builtins, nativePlugins, plugins, dropped>>
Kept(table, S) == [n \in Names |-> IF n \in S THEN None ELSE table[n]]

Register(n, from) ==
    /\ builtins' = [builtins EXCEPT ![n] = from]
    /\ nativePlugins' = [nativePlugins EXCEPT ![n] = from]
    /\ dropped' = dropped \ {n}
    /\ UNCHANGED plugins

WithPlugin(n) == Option /\ Register(n, "caller") /\ UNCHANGED <<pluginFilter, flags, network>>

WithBuiltin(n) ==
    /\ Option
    /\ builtins' = [builtins EXCEPT ![n] = "caller"]
    /\ dropped' = dropped \ {n}
    /\ UNCHANGED <<nativePlugins, plugins, pluginFilter, flags, network>>

WithPluginBytes(n) ==
    /\ Option
    /\ plugins' = [plugins EXCEPT ![n] = "caller"]
    /\ dropped' = dropped \ {n}
    /\ UNCHANGED <<builtins, nativePlugins, pluginFilter, flags, network>>

WithPluginFilter(S) ==
    Option /\ pluginFilter' = S /\ UNCHANGED <<Tables, flags, network>>

WithWASMEnabled(enabled) ==
    /\ Option /\ flags' = [flags EXCEPT !.wasm = enabled]
    /\ UNCHANGED <<Tables, pluginFilter, network>>

WithAllowExternalCommands(allow) ==
    /\ Option /\ flags' = [flags EXCEPT !.external = allow]
    /\ UNCHANGED <<Tables, pluginFilter, network>>

(* Also a plugin that the caller registered under such a name goes.        *)
WithUnsafeInterpreters(allow) ==
    /\ Option
    /\ IF allow
       THEN /\ builtins' = [n \in Names |-> IF n \in Gated THEN "gated" ELSE builtins[n]]
            /\ nativePlugins' = [n \in Names |-> IF n \in Gated THEN "gated" ELSE nativePlugins[n]]
            /\ dropped' = dropped \ Gated
       ELSE /\ builtins' = Kept(builtins, Gated)
            /\ nativePlugins' = Kept(nativePlugins, Gated)
            /\ UNCHANGED dropped
    /\ UNCHANGED <<plugins, pluginFilter, flags, network>>

(* Mutant: what which and help describe is forgotten.                      *)
WithDisabledPlugins_KeepsInfo(S) ==
    /\ Option
    /\ builtins' = Kept(builtins, S) /\ plugins' = Kept(plugins, S)
    /\ dropped' = dropped \cup S
    /\ UNCHANGED <<nativePlugins, pluginFilter, flags, network>>

WithDisabledPlugins(S) ==
    /\ Option
    /\ builtins' = Kept(builtins, S)
    /\ nativePlugins' = Kept(nativePlugins, S)
    /\ plugins' = Kept(plugins, S)
    /\ dropped' = dropped \cup S
    /\ UNCHANGED <<pluginFilter, flags, network>>

WithNetworkPolicy(policy) ==
    /\ Option
    /\ LET meter == IF network.meter = NoMeter
                    THEN Meter(network.limits, network.usage) ELSE network.meter
       IN network' = [network EXCEPT !.policy = policy, !.meter = meter,
                                     !.dialer = Dialer(policy, meter)]
    /\ UNCHANGED <<Tables, pluginFilter, flags>>

(* Mutant: the dialer is only made where there is none yet.                *)
WithNetworkLimits_OldDialer(limits) ==
    /\ Option
    /\ network' = [network EXCEPT !.limits = limits, !.meter = Meter(limits, network.usage)]
    /\ UNCHANGED <<Tables, pluginFilter, flags>>

WithNetworkLimits(limits) ==
    /\ Option
    /\ LET meter == Meter(limits, network.usage)
       IN network' = [network EXCEPT !.limits = limits, !.meter = meter,
                                     !.dialer = Dialer(network.policy, meter)]
    /\ UNCHANGED <<Tables, pluginFilter, flags>>

WithNetworkUsage(usage) ==
    /\ Option
    /\ LET meter == Meter(network.limits, usage)
       IN network' = [network EXCEPT !.usage = usage, !.meter = meter,
                                     !.dialer = Dialer(network.policy, meter)]
    /\ UNCHANGED <<Tables, pluginFilter, flags>>

-----------------------------------------------------------------------------
(* New, after the options.                                                 *)

(* Mutant: the filter is for the virtual filesystem only.                  *)
pluginAllowed_Always(n) == TRUE
pluginAllowed(n) == pluginFilter = {} \/ n \in pluginFilter

(* Whoever provides a name first keeps it.                                 *)
loadPlugins ==
    [n \in Names |->
        IF plugins[n] # None \/ ~pluginAllowed(n) THEN plugins[n]
        ELSE IF n \in OnVirtual THEN "virtual"
        ELSE IF n \in OnHost THEN "host" ELSE None]

(* Mutant: only what was discovered is compiled.                           *)
Compiled_Discovered(found) == {n \in Names : found[n] \notin {None, "caller"}}
Compiled(found) == {n \in Names : found[n] # None}

(* The meter and dialer of a shell that no network option speaks of.       *)
Connected ==
    LET meter == IF network.meter = NoMeter
                 THEN Meter(network.limits, network.usage) ELSE network.meter
    IN [network EXCEPT !.meter = meter,
                       !.dialer = IF network.dialer.meter = NoMeter
                                  THEN Dialer(network.policy, meter) ELSE network.dialer]

New ==
    /\ phase = "options"
    /\ network' = Connected
    /\ IF ~flags.wasm
       THEN /\ phase' = "ready"
            /\ UNCHANGED <<plugins, compiled, flags>>
       ELSE /\ plugins' = loadPlugins
            /\ compiled' = Compiled(plugins')
            /\ phase' = IF compiled' \cap Broken = {} THEN "ready" ELSE "failed"
            /\ flags' = [flags EXCEPT !.rt = \E n \in Names : plugins'[n] # None]
    /\ UNCHANGED <<builtins, nativePlugins, pluginFilter, given, dropped>>

-----------------------------------------------------------------------------
(* A ready shell.                                                          *)

(* runPlugin: a module that New did not compile is compiled now, by the    *)
(* runtime; a shell whose caller disabled WASM has bytes but no runtime.   *)
runPlugin(n) ==
    CASE n \in compiled -> "WASM plugin"
      [] n \notin compiled /\ flags.rt -> IF n \in Broken THEN "broken" ELSE "WASM plugin"
      [] OTHER -> "no runtime"

(* execHandler: what runs under a name.                                    *)
execHandler(n) ==
    CASE builtins[n] # None -> "native plugin"
      [] builtins[n] = None /\ plugins[n] # None -> runPlugin(n)
      [] builtins[n] = None /\ plugins[n] = None /\ flags.external -> "host command"
      [] OTHER -> IF n \in Gated THEN "disabled" ELSE "not found"

commandInfo(n) ==
    IF nativePlugins[n] # None \/ builtins[n] # None THEN "native plugin"
    ELSE IF plugins[n] # None THEN "WASM plugin" ELSE "not found"

Offered == {n \in Names : builtins[n] # None} \cup compiled

-----------------------------------------------------------------------------
Init ==
    /\ builtins = [n \in Names |-> IF n \in Defaults THEN "default" ELSE None]
    /\ nativePlugins = builtins
    /\ plugins = [n \in Names |-> None]
    /\ compiled = {} /\ pluginFilter = {}
    /\ flags = [wasm |-> TRUE, external |-> FALSE, rt |-> FALSE]
    /\ network = [policy |-> 0, limits |-> 0, usage |-> 0,
                  meter |-> NoMeter, dialer |-> Dialer(0, NoMeter)]
    /\ phase = "options" /\ given = 0 /\ dropped = {}

Next ==
    \/ \E n \in Names : WithPlugin(n) \/ WithBuiltin(n) \/ WithPluginBytes(n)
    \/ \E S \in SUBSET Names : WithPluginFilter(S) \/ WithDisabledPlugins(S)
    \/ \E b \in BOOLEAN : WithWASMEnabled(b) \/ WithAllowExternalCommands(b) \/ WithUnsafeInterpreters(b)
    \/ WithNetworkPolicy(1) \/ WithNetworkLimits(1) \/ WithNetworkUsage(1)
    \/ New

Spec == Init /\ [][Next]_vars

-----------------------------------------------------------------------------
Ready == phase = "ready"

(* What which and help say of a command is what runs under its name.  Left *)
(* out are commands of the host, which they do not know, and bytes given to*)
(* a shell without WASM, which they take for a plugin (CompiledWhenUsed).  *)
WhichTellsTruth ==
    Ready => \A n \in Names :
        \/ execHandler(n) \in {"native plugin", "WASM plugin"}
        \/ commandInfo(n) # "not found" /\ execHandler(n) # "no runtime"
            => commandInfo(n) = execHandler(n)

(* Completion offers exactly the commands that can run: what the runtime is*)
(* handed it can run, and bytes without a runtime are not offered.         *)
OffersWhatRuns ==
    Ready => \A n \in Names :
        n \in Offered <=> execHandler(n) \in {"native plugin", "WASM plugin"}

(* "If both options name the same plugin and you need to suppress it       *)
(* entirely, use WithDisabledPlugins and do NOT include that name in the   *)
(* filter list" (options.go 82): then nothing brings it back.              *)
SuppressedStaysOut ==
    Ready => \A n \in dropped : pluginFilter # {} /\ n \notin pluginFilter =>
        execHandler(n) \notin {"native plugin", "WASM plugin"}

(* In whatever order the options came, connections are made under the last *)
(* policy and charged to the meter that NetworkUsage reads, and that meter *)
(* has the last limits and usage.                                          *)
DialerFollowsOptions ==
    phase # "options" =>
        /\ network.dialer = Dialer(network.policy, network.meter)
        /\ network.meter.limits = network.limits /\ network.meter.usage = network.usage

(* "If a plugin was added after startup it is compiled on first use"       *)
(* (plugin.go 146): what dispatch takes for a plugin can be used.          *)
CompiledWhenUsed == Ready => \A n \in Names : execHandler(n) # "no runtime"

(* "Plugin loading priority (first registration wins)": bytes given with   *)
(* WithPluginBytes come before defaultNativePlugins() (plugin.go 23-28).   *)
BytesWin ==
    Ready => \A n \in Names :
        plugins[n] = "caller" /\ builtins[n] = "default" => execHandler(n) # "native plugin"

(* The shell is what its options asked for, and says so.                   *)
ShellAsAsked == WhichTellsTruth /\ OffersWhatRuns /\ SuppressedStaysOut /\ DialerFollowsOptions
=============================================================================
