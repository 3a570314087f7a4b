----------------------------- MODULE ToolsProofs ----------------------------
(***************************************************************************)
(* What a shell and its commands keep in order whatever they do: the       *)
(* descriptors of WASM plugins, the table of commands, the directory the   *)
(* shell is in, the jobs of a crontab, the insertions of sqlite3.          *)
(***************************************************************************)
EXTENDS MCTools, SequenceTheorems, WellFoundedInduction, TLAPS

-----------------------------------------------------------------------------
(* Each step is one of at most one part.                                   *)
LEMMA StepOfPart ==
    ASSUME [ToolsNext]_allVars
    PROVE  /\ [Wasm!Next]_wasmVars /\ [Table!Next]_commandVars /\ [Run!Next]_runVars
           /\ [Cron!Next]_cronVars /\ [Sql!Next]_sqliteVars
<1>1. CASE ToolsNext
  BY <1>1 DEF ToolsNext
<1>2. CASE UNCHANGED allVars
  BY <1>2 DEF allVars
<1> QED
  BY <1>1, <1>2

-----------------------------------------------------------------------------
(* A sequence without repetitions, one shorter and one longer.             *)

LEMMA WithoutLast ==
    ASSUME NEW S, NEW s \in Seq(S), s # <<>>, Wasm!IsInjective(s)
    PROVE  /\ Wasm!Last(s) \in Wasm!ToSet(s) /\ Wasm!ToSet(s) \subseteq S
           /\ Wasm!Front(s) \in Seq(S)
           /\ Wasm!IsInjective(Wasm!Front(s))
           /\ Wasm!ToSet(Wasm!Front(s)) = Wasm!ToSet(s) \ {Wasm!Last(s)}
<1> DEFINE n == Len(s)
           f == Wasm!Front(s)
<1>1. n \in Nat \ {0} /\ DOMAIN s = 1..n /\ \A i \in 1..n : s[i] \in S
  BY EmptySeq, LenProperties
<1>2. f \in Seq(S) /\ Len(f) = n - 1 /\ \A i \in 1..(n - 1) : f[i] = s[i]
  <2>1. \A i \in 1..(n - 1) : s[i] \in S
    BY <1>1
  <2>2. /\ SubSeq(s, 1, n - 1) \in Seq(S)
        /\ Len(SubSeq(s, 1, n - 1)) = IF 1 <= n - 1 THEN n - 1 - 1 + 1 ELSE 0
        /\ \A i \in 1..(n - 1 - 1 + 1) : SubSeq(s, 1, n - 1)[i] = s[1 + i - 1]
    <3>1. 1 \in Int /\ n - 1 \in Int
      BY <1>1
    <3> HIDE DEF n
    <3> QED
      BY <2>1, <3>1, SubSeqProperties
  <2> QED
    BY <1>1, <2>2 DEF Wasm!Front
<1>3. DOMAIN f = 1..(n - 1)
  BY <1>1, <1>2, LenProperties
<1>4. \A i, j \in 1..n : s[i] = s[j] => i = j
  BY <1>1 DEF Wasm!IsInjective
<1> HIDE DEF n, f
<1>5. Wasm!IsInjective(f)
  BY <1>1, <1>2, <1>3, <1>4 DEF Wasm!IsInjective
<1>6. Wasm!ToSet(f) = Wasm!ToSet(s) \ {s[n]}
  BY <1>1, <1>2, <1>3, <1>4 DEF Wasm!ToSet
<1>7. s[n] \in Wasm!ToSet(s) /\ Wasm!ToSet(s) \subseteq S
  BY <1>1 DEF Wasm!ToSet
<1> QED
  BY <1>2, <1>5, <1>6, <1>7 DEF Wasm!Last, n, f

LEMMA WithOneMore ==
    ASSUME NEW S, NEW s \in Seq(S), Wasm!IsInjective(s), NEW e \in S, e \notin Wasm!ToSet(s)
    PROVE  /\ Append(s, e) \in Seq(S)
           /\ Wasm!IsInjective(Append(s, e))
           /\ Wasm!ToSet(Append(s, e)) = Wasm!ToSet(s) \cup {e}
<1> DEFINE n == Len(s)
           a == Append(s, e)
<1>1. n \in Nat /\ DOMAIN s = 1..n
  BY LenProperties
<1>2. a \in Seq(S) /\ Len(a) = n + 1 /\ (\A i \in 1..n : a[i] = s[i]) /\ a[n + 1] = e
  BY AppendProperties
<1>3. DOMAIN a = 1..(n + 1)
  BY <1>2, LenProperties
<1>4. \A i, j \in 1..n : s[i] = s[j] => i = j
  BY <1>1 DEF Wasm!IsInjective
<1>5. \A i \in 1..n : s[i] # e
  BY <1>1 DEF Wasm!ToSet
<1> HIDE DEF n, a
<1>6. Wasm!IsInjective(a)
  BY <1>1, <1>2, <1>3, <1>4, <1>5 DEF Wasm!IsInjective
<1>7. Wasm!ToSet(a) = Wasm!ToSet(s) \cup {e}
  BY <1>1, <1>2, <1>3 DEF Wasm!ToSet
<1> QED
  BY <1>2, <1>6, <1>7 DEF a

-----------------------------------------------------------------------------
(* Descriptors.  A number that is handed out again is the last one given   *)
(* back; that it is not open needs that none waits twice, that none which  *)
(* is open waits, and that the numbers not yet handed out are free.        *)

AllFds   == Wasm!FirstFd..(Wasm!FirstFd + MaxFd - 1)
WasmInv  ==
    /\ fds \in [AllFds -> Files \cup {NoFile}]
    /\ nextFd \in Wasm!FirstFd..(Wasm!FirstFd + MaxFd)
    /\ freeFds \in Seq(AllFds)
    /\ Wasm!FdsKeptApart

(* A descriptor that is opened is open, and one that is closed is not; all *)
(* others stay what they are.                                              *)
LEMMA OpenAfter ==
    ASSUME WasmInv, NEW fd \in AllFds, NEW f \in Files \cup {NoFile}, fds' = [fds EXCEPT ![fd] = f]
    PROVE  /\ fds' \in [AllFds -> Files \cup {NoFile}]
           /\ f # NoFile => Wasm!Open' = Wasm!Open \cup {fd}
           /\ f = NoFile => Wasm!Open' = Wasm!Open \ {fd}
BY DEF WasmInv, Wasm!Open

LEMMA AllocKeeps == ASSUME WasmInv, NEW c, NEW f \in Files, Wasm!allocFd(c, f)
                    PROVE  WasmInv'
<1> DEFINE fd == IF freeFds = <<>> THEN nextFd ELSE Wasm!Last(freeFds)
<1>0. MaxFd \in Nat /\ f # NoFile /\ Wasm!FirstFd = 3 /\ host' = host
  BY ToolsAssumption DEF Wasm!FirstFd, Wasm!allocFd
<1>1. fd < Wasm!FirstFd + MaxFd /\ fds' = [fds EXCEPT ![fd] = f]
  BY DEF Wasm!allocFd
<1>2. /\ Wasm!ToSet(freeFds) = (Wasm!FirstFd..(nextFd - 1)) \ Wasm!Open
      /\ Wasm!IsInjective(freeFds)
      /\ Wasm!Open \subseteq Wasm!FirstFd..(nextFd - 1)
  BY DEF WasmInv, Wasm!FdsKeptApart, Wasm!EachFdOnce
<1>3. Wasm!TableHasOneUser'
  BY <1>0 DEF WasmInv, Wasm!FdsKeptApart, Wasm!TableHasOneUser
<1> HIDE DEF fd
<1>4. CASE freeFds = <<>>
  <2>1. fd = nextFd /\ nextFd' = nextFd + 1 /\ freeFds' = freeFds /\ nextFd \in AllFds
    BY <1>0, <1>1, <1>4 DEF Wasm!allocFd, WasmInv, AllFds, fd
  <2>2. fds' \in [AllFds -> Files \cup {NoFile}] /\ Wasm!Open' = Wasm!Open \cup {nextFd}
    BY <1>0, <1>1, <2>1, OpenAfter
  <2>3. Wasm!EachFdOnce'
    <3>1. (Wasm!FirstFd..(nextFd' - 1)) \ Wasm!Open' = (Wasm!FirstFd..(nextFd - 1)) \ Wasm!Open
      BY <1>0, <2>1, <2>2 DEF WasmInv
    <3>2. Wasm!Open' \subseteq Wasm!FirstFd..(nextFd' - 1)
      BY <1>0, <1>2, <2>1, <2>2 DEF WasmInv
    <3> QED
      BY <1>2, <2>1, <3>1, <3>2 DEF Wasm!EachFdOnce, Wasm!ToSet, Wasm!IsInjective, Wasm!FirstFd
  <2>4. nextFd' \in Wasm!FirstFd..(Wasm!FirstFd + MaxFd) /\ freeFds' \in Seq(AllFds)
    BY <1>0, <2>1 DEF WasmInv, AllFds
  <2> QED
    BY <1>3, <2>2, <2>3, <2>4 DEF WasmInv, AllFds, Wasm!FdsKeptApart, Wasm!FirstFd
<1>5. CASE freeFds # <<>>
  <2>1. fd = Wasm!Last(freeFds) /\ nextFd' = nextFd /\ freeFds' = Wasm!Front(freeFds)
    BY <1>5 DEF Wasm!allocFd, fd
  <2>2. /\ fd \in Wasm!ToSet(freeFds) /\ fd \in AllFds /\ freeFds' \in Seq(AllFds)
        /\ Wasm!IsInjective(freeFds')
        /\ Wasm!ToSet(freeFds') = Wasm!ToSet(freeFds) \ {fd}
    BY <1>2, <1>5, <2>1, WithoutLast DEF WasmInv
  <2>3. fds' \in [AllFds -> Files \cup {NoFile}] /\ Wasm!Open' = Wasm!Open \cup {fd}
    BY <1>0, <1>1, <2>2, OpenAfter
  <2>4. Wasm!EachFdOnce'
    BY <1>2, <2>1, <2>2, <2>3 DEF Wasm!EachFdOnce, Wasm!ToSet, Wasm!IsInjective, Wasm!FirstFd
  <2> QED
    BY <1>0, <1>3, <2>1, <2>2, <2>3, <2>4 DEF WasmInv, AllFds, Wasm!FdsKeptApart, Wasm!FirstFd
<1> QED
  BY <1>4, <1>5

LEMMA CloseKeeps == ASSUME WasmInv, NEW c, NEW fd \in DOMAIN fds, Wasm!closeFd(c, fd)
                    PROVE  WasmInv'
<1>1. /\ fd \in AllFds /\ fd \in Wasm!Open /\ fds' = [fds EXCEPT ![fd] = NoFile]
      /\ freeFds' = Append(freeFds, fd) /\ host' = host /\ nextFd' = nextFd
  BY DEF WasmInv, Wasm!closeFd
<1>2. /\ Wasm!ToSet(freeFds) = (Wasm!FirstFd..(nextFd - 1)) \ Wasm!Open
      /\ Wasm!IsInjective(freeFds)
      /\ Wasm!Open \subseteq Wasm!FirstFd..(nextFd - 1)
  BY DEF WasmInv, Wasm!FdsKeptApart, Wasm!EachFdOnce
<1>3. fds' \in [AllFds -> Files \cup {NoFile}] /\ Wasm!Open' = Wasm!Open \ {fd}
  BY <1>1, OpenAfter
<1>4. /\ freeFds' \in Seq(AllFds) /\ Wasm!IsInjective(freeFds')
      /\ Wasm!ToSet(freeFds') = Wasm!ToSet(freeFds) \cup {fd}
  BY <1>1, <1>2, WithOneMore DEF WasmInv
<1>5. Wasm!EachFdOnce'
  BY <1>1, <1>2, <1>3, <1>4 DEF Wasm!EachFdOnce, Wasm!ToSet, Wasm!IsInjective, Wasm!FirstFd
<1> QED
  BY <1>1, <1>3, <1>4, <1>5
  DEF WasmInv, AllFds, Wasm!FdsKeptApart, Wasm!TableHasOneUser, Wasm!FirstFd

LEMMA WasmKeeps == ASSUME WasmInv, [Wasm!Next]_wasmVars PROVE WasmInv'
<1>1. ASSUME NEW c \in Calls, Wasm!Begin(c) \/ Wasm!End(c)
      PROVE  WasmInv'
  <2>1. Wasm!TableHasOneUser'
    BY <1>1 DEF WasmInv, Wasm!FdsKeptApart, Wasm!TableHasOneUser, Wasm!Begin, Wasm!End, Wasm!Refused
  <2>2. fds' = fds /\ freeFds' = freeFds /\ nextFd' = nextFd
    BY <1>1 DEF Wasm!Begin, Wasm!End
  <2>3. Wasm!EachFdOnce'
    BY <2>2 DEF WasmInv, Wasm!FdsKeptApart, Wasm!EachFdOnce, Wasm!Open, Wasm!ToSet, Wasm!IsInjective, Wasm!FirstFd
  <2> QED
    BY <2>1, <2>2, <2>3 DEF WasmInv, AllFds, Wasm!FdsKeptApart, Wasm!FirstFd
<1>2. CASE UNCHANGED wasmVars
  BY <1>2 DEF wasmVars, WasmInv, AllFds, Wasm!FdsKeptApart, Wasm!TableHasOneUser, Wasm!EachFdOnce,
              Wasm!Open, Wasm!ToSet, Wasm!IsInjective, Wasm!FirstFd
<1> QED
  BY <1>1, <1>2, AllocKeeps, CloseKeeps DEF Wasm!Next

(* However many plugins are started and whatever they open and close, no   *)
(* descriptor belongs to two files at a time, and one plugin at a time has *)
(* the table (allocFd and closeFd, plugin.go).                             *)
THEOREM FdsHold == ToolsSpec => []FdsKeptApart
<1>1. ToolsInit => WasmInv
  <2> SUFFICES ASSUME Wasm!Init
               PROVE  WasmInv
    BY DEF ToolsInit
  <2>1. MaxFd \in Nat /\ Wasm!FirstFd = 3
    BY ToolsAssumption DEF Wasm!FirstFd
  <2>2. Wasm!Open = {}
    BY DEF Wasm!Init, Wasm!Open
  <2>3. Wasm!ToSet(freeFds) = {} /\ Wasm!IsInjective(freeFds)
    BY DEF Wasm!Init, Wasm!ToSet, Wasm!IsInjective
  <2>4. Wasm!EachFdOnce
    BY <2>1, <2>2, <2>3 DEF Wasm!Init, Wasm!EachFdOnce
  <2>5. Wasm!TableHasOneUser
    BY DEF Wasm!Init, Wasm!TableHasOneUser
  <2> QED
    BY <2>1, <2>4, <2>5 DEF Wasm!Init, WasmInv, AllFds, Wasm!FdsKeptApart
<1>2. WasmInv /\ [ToolsNext]_allVars => WasmInv'
  BY StepOfPart, WasmKeeps
<1>3. WasmInv => FdsKeptApart
  BY DEF WasmInv, FdsKeptApart
<1> QED
  BY <1>1, <1>2, <1>3, PTL DEF ToolsSpec

-----------------------------------------------------------------------------
(* The table of commands.  Help describes nothing that is not there; what  *)
(* was dropped last comes back only if the filter lets New find it; as soon*)
(* as there is a meter it has the limits and usage that were given last,   *)
(* and the dialer has the meter.                                           *)

Sources    == {"none", "default", "gated", "caller", "virtual", "host"}
Meters     == [limits : {0, 1}, usage : {0, 1}, made : Nat]
Networks   == [policy : {0, 1}, limits : {0, 1}, usage : {0, 1}, meter : Meters,
               dialer : [policy : {0, 1}, meter : Meters]]
TableTypes ==
    /\ {builtins, nativePlugins, plugins} \subseteq [CommandNames -> Sources]
    /\ flags \in [wasm : BOOLEAN, external : BOOLEAN, rt : BOOLEAN]
    /\ network \in Networks
    /\ given \in Nat

Described == \A n \in CommandNames : nativePlugins[n] # "none" => builtins[n] # "none"
Dropped   ==
    /\ dropped \subseteq CommandNames
    /\ \A n \in dropped :
        /\ builtins[n] = "none"
        /\ plugins[n] = "none" \/ (phase # "options" /\ (pluginFilter = {} \/ n \in pluginFilter))
CompiledAll ==
    /\ phase = "options" \/ (phase = "ready" /\ ~flags.wasm) => compiled = {} /\ ~flags.rt
    /\ phase = "ready" /\ flags.wasm => compiled = {n \in CommandNames : plugins[n] # "none"}
Unmetered   == phase = "options" /\ network.meter = Table!NoMeter /\ network.dialer.meter = Table!NoMeter
Metered     ==
    /\ network.meter.made > 0
    /\ network.meter.limits = network.limits /\ network.meter.usage = network.usage
    /\ network.dialer = Table!Dialer(network.policy, network.meter)
TableInv    == TableTypes /\ Described /\ Dropped /\ CompiledAll /\ (Unmetered \/ Metered)

(* A plugin is compiled, or there is no runtime.                           *)
LEMMA RunsOrNot ==
    ASSUME TableInv, Table!Ready, NEW n \in CommandNames, plugins[n] # "none"
    PROVE  Table!runPlugin(n) = IF n \in compiled THEN "WASM plugin" ELSE "no runtime"
<1>1. n \notin compiled => ~flags.rt
  BY DEF TableInv, CompiledAll, Table!Ready
<1> QED
  BY <1>1 DEF Table!runPlugin

LEMMA TableSuffices == ASSUME TableInv PROVE Table!ShellAsAsked
<1> USE RunsOrNot DEF TableInv, Table!None, Table!Ready
<1>1. Table!WhichTellsTruth
  BY DEF Described, Table!WhichTellsTruth, Table!execHandler, Table!commandInfo
<1>2. Table!OffersWhatRuns
  BY DEF CompiledAll, Table!OffersWhatRuns, Table!Offered, Table!execHandler
<1>3. Table!SuppressedStaysOut
  BY DEF Dropped, Table!SuppressedStaysOut, Table!execHandler
<1>4. Table!DialerFollowsOptions
  BY DEF Unmetered, Metered, Table!DialerFollowsOptions
<1> QED
  BY <1>1, <1>2, <1>3, <1>4 DEF Table!ShellAsAsked

LEMMA TableInit == ASSUME Table!Init PROVE TableInv
<1>1. TableTypes
  BY DEF Table!Init, TableTypes, Networks, Sources, Meters, Table!NoMeter, Table!Dialer, Table!None
<1>2. Described /\ Dropped /\ CompiledAll
  BY DEF Table!Init, Described, Dropped, CompiledAll, Table!None
<1>3. Unmetered
  BY DEF Table!Init, Unmetered, Table!Dialer
<1> QED
  BY <1>1, <1>2, <1>3 DEF TableInv

(* Options that register or drop commands.                                 *)
LEMMA TablesKeep ==
    ASSUME TableInv,
           \/ \E n \in CommandNames : Table!WithPlugin(n) \/ Table!WithBuiltin(n) \/ Table!WithPluginBytes(n)
           \/ \E S \in SUBSET CommandNames : Table!WithPluginFilter(S) \/ Table!WithDisabledPlugins(S)
           \/ \E b \in BOOLEAN : Table!WithUnsafeInterpreters(b)
    PROVE  TableInv'
<1> USE DEF Table!Option, Table!Tables, Table!Register, Table!Kept, Table!None, Sources
<1>1. /\ phase = "options" /\ phase' = phase /\ given' = given + 1
      /\ network' = network /\ flags' = flags /\ compiled' = compiled
  BY DEF Table!WithPlugin, Table!WithBuiltin, Table!WithPluginBytes, Table!WithPluginFilter,
         Table!WithDisabledPlugins, Table!WithUnsafeInterpreters
<1>2. CompiledAll' /\ (Unmetered \/ Metered)'
  BY <1>1 DEF TableInv, CompiledAll, Unmetered, Metered, Table!NoMeter, Table!Dialer
<1>3. ASSUME NEW n \in CommandNames, Table!WithPlugin(n) \/ Table!WithBuiltin(n) \/ Table!WithPluginBytes(n)
      PROVE  TableTypes' /\ Described' /\ Dropped'
  BY <1>1, <1>3 DEF TableInv, TableTypes, Described, Dropped,
                    Table!WithPlugin, Table!WithBuiltin, Table!WithPluginBytes
<1>4. ASSUME NEW S \in SUBSET CommandNames, Table!WithPluginFilter(S) \/ Table!WithDisabledPlugins(S)
      PROVE  TableTypes' /\ Described' /\ Dropped'
  <2>1. CASE Table!WithPluginFilter(S)
    BY <1>1, <2>1 DEF TableInv, TableTypes, Described, Dropped, Table!WithPluginFilter
  <2>2. CASE Table!WithDisabledPlugins(S)
    <3>1. TableTypes'
      BY <1>1, <2>2 DEF TableInv, TableTypes, Table!WithDisabledPlugins
    <3>2. Described' /\ Dropped'
      BY <1>1, <2>2 DEF TableInv, TableTypes, Described, Dropped, Table!WithDisabledPlugins
    <3> QED
      BY <3>1, <3>2
  <2> QED
    BY <1>4, <2>1, <2>2
<1>5. ASSUME NEW b \in BOOLEAN, Table!WithUnsafeInterpreters(b)
      PROVE  TableTypes' /\ Described' /\ Dropped'
  BY <1>1, <1>5 DEF TableInv, TableTypes, Described, Dropped, Table!WithUnsafeInterpreters
<1> QED
  BY <1>2, <1>3, <1>4, <1>5 DEF TableInv

(* Options for the runtime, the host's commands and the network.           *)
LEMMA SwitchesKeep ==
    ASSUME TableInv,
           \E b \in BOOLEAN : Table!WithWASMEnabled(b) \/ Table!WithAllowExternalCommands(b)
    PROVE  TableInv'
BY DEF TableInv, TableTypes, Described, Dropped, CompiledAll, Unmetered, Metered, Table!Option, Table!Tables,
       Table!WithWASMEnabled, Table!WithAllowExternalCommands, Table!NoMeter, Table!Dialer

(* The network after an option, and after New.                             *)
LEMMA NetworkFollows ==
    ASSUME network \in Networks, given \in Nat, Unmetered \/ Metered,
           \/ Table!WithNetworkPolicy(1) \/ Table!WithNetworkLimits(1) \/ Table!WithNetworkUsage(1)
           \/ network' = Table!Connected
    PROVE  network' \in Networks /\ Metered'
<1>1. \A l, u \in {0, 1} : Table!Meter(l, u) \in Meters /\ Table!Meter(l, u).made > 0
                          /\ Table!Meter(l, u).limits = l /\ Table!Meter(l, u).usage = u
  BY DEF Table!Meter, Meters
<1>2. \A p \in {0, 1}, m \in Meters : Table!Dialer(p, m) \in [policy : {0, 1}, meter : Meters]
  BY DEF Table!Dialer
<1>3. Table!NoMeter.made = 0
  BY DEF Table!NoMeter
<1> DEFINE meter == IF network.meter = Table!NoMeter
                    THEN Table!Meter(network.limits, network.usage) ELSE network.meter
<1>4. /\ meter \in Meters /\ meter.made > 0
      /\ meter.limits = network.limits /\ meter.usage = network.usage
  BY <1>1, <1>3 DEF Unmetered, Metered, Networks
<1>5. CASE Table!WithNetworkPolicy(1)
  <2>1. network' = [network EXCEPT !.policy = 1, !.meter = meter, !.dialer = Table!Dialer(1, meter)]
    BY <1>5 DEF Table!WithNetworkPolicy
  <2> HIDE DEF meter
  <2> QED
    BY <1>2, <1>4, <2>1 DEF Networks, Metered
<1>6. CASE Table!WithNetworkLimits(1)
  <2> DEFINE m == Table!Meter(1, network.usage)
  <2>1. network' = [network EXCEPT !.limits = 1, !.meter = m, !.dialer = Table!Dialer(network.policy, m)]
    BY <1>6 DEF Table!WithNetworkLimits
  <2>2. m \in Meters /\ m.made > 0 /\ m.limits = 1 /\ m.usage = network.usage
    BY <1>1 DEF Networks
  <2> HIDE DEF m
  <2> QED
    BY <1>2, <2>1, <2>2 DEF Networks, Metered
<1>7. CASE Table!WithNetworkUsage(1)
  <2> DEFINE m == Table!Meter(network.limits, 1)
  <2>1. network' = [network EXCEPT !.usage = 1, !.meter = m, !.dialer = Table!Dialer(network.policy, m)]
    BY <1>7 DEF Table!WithNetworkUsage
  <2>2. m \in Meters /\ m.made > 0 /\ m.limits = network.limits /\ m.usage = 1
    BY <1>1 DEF Networks
  <2> HIDE DEF m
  <2> QED
    BY <1>2, <2>1, <2>2 DEF Networks, Metered
<1>8. CASE network' = Table!Connected
  <2>1. network' = [network EXCEPT !.meter = meter, !.dialer = Table!Dialer(network.policy, meter)]
    <3>1. network.dialer.meter # Table!NoMeter => network.dialer = Table!Dialer(network.policy, meter)
      BY <1>3 DEF Unmetered, Metered
    <3> QED
      BY <1>8, <3>1 DEF Table!Connected
  <2> HIDE DEF meter
  <2> QED
    BY <1>2, <1>4, <2>1 DEF Networks, Metered
<1> QED
  BY <1>5, <1>6, <1>7, <1>8

LEMMA NetworkKeeps ==
    ASSUME TableInv,
           Table!WithNetworkPolicy(1) \/ Table!WithNetworkLimits(1) \/ Table!WithNetworkUsage(1)
    PROVE  TableInv'
<1>1. /\ phase = "options" /\ phase' = phase /\ given' = given + 1 /\ pluginFilter' = pluginFilter
      /\ builtins' = builtins /\ nativePlugins' = nativePlugins /\ plugins' = plugins
      /\ dropped' = dropped /\ flags' = flags /\ compiled' = compiled
  BY DEF Table!WithNetworkPolicy, Table!WithNetworkLimits, Table!WithNetworkUsage, Table!Option, Table!Tables
<1>2. Described' /\ Dropped' /\ CompiledAll'
  BY <1>1 DEF TableInv, Described, Dropped, CompiledAll
<1>3. network' \in Networks /\ Metered'
  BY NetworkFollows DEF TableInv, TableTypes
<1> QED
  BY <1>1, <1>2, <1>3 DEF TableInv, TableTypes

LEMMA NewKeeps == ASSUME TableInv, Table!New PROVE TableInv'
<1>1. /\ phase = "options" /\ phase' # "options" /\ given' = given /\ dropped' = dropped
      /\ builtins' = builtins /\ nativePlugins' = nativePlugins /\ pluginFilter' = pluginFilter
  BY DEF Table!New
<1>2. network' \in Networks /\ Metered'
  BY NetworkFollows DEF TableInv, TableTypes, Table!New
<1>3. CASE flags.wasm
  <2>1. plugins' = Table!loadPlugins /\ plugins' \in [CommandNames -> Sources]
    BY <1>3 DEF Table!New, Table!loadPlugins, Table!None, TableInv, TableTypes, Sources
  <2>2. flags' \in [wasm : BOOLEAN, external : BOOLEAN, rt : BOOLEAN]
    BY <1>3 DEF Table!New, TableInv, TableTypes
  <2>3. CompiledAll'
    BY <1>3, <2>2 DEF Table!New, Table!Compiled, Table!None, CompiledAll
  <2>4. Dropped'
    BY <1>1, <2>1 DEF Table!loadPlugins, Table!pluginAllowed, Table!None, TableInv, TableTypes, Dropped
  <2> QED
    BY <1>1, <1>2, <2>1, <2>2, <2>3, <2>4 DEF TableInv, TableTypes, Described
<1>4. CASE ~flags.wasm
  <2>1. plugins' = plugins /\ flags' = flags /\ compiled' = compiled
    BY <1>4 DEF Table!New
  <2> QED
    BY <1>1, <1>2, <1>4, <2>1 DEF TableInv, TableTypes, Described, Dropped, CompiledAll
<1> QED
  BY <1>3, <1>4

(* Whatever options a shell is made with and in whatever order, it runs    *)
(* what which, help and completion say, leaves out what was suppressed and *)
(* connects as it was told (options.go and New, shell.go).                 *)
THEOREM TableHolds == ToolsSpec => []ShellAsAsked
<1>1. ToolsInit => TableInv
  BY TableInit DEF ToolsInit
<1>2. TableInv /\ [ToolsNext]_allVars => TableInv'
  <2> SUFFICES ASSUME TableInv, [Table!Next]_commandVars
               PROVE  TableInv'
    BY StepOfPart
  <2>1. CASE UNCHANGED commandVars
    BY <2>1 DEF commandVars, TableInv, TableTypes, Described, Dropped, CompiledAll, Unmetered, Metered,
                Table!NoMeter, Table!Dialer
  <2> QED
    BY <2>1, TablesKeep, SwitchesKeep, NetworkKeeps, NewKeeps DEF Table!Next
<1>3. TableInv => ShellAsAsked
  BY TableSuffices DEF ShellAsAsked
<1> QED
  BY <1>1, <1>2, <1>3, PTL DEF ToolsSpec

-----------------------------------------------------------------------------
(* The directory a shell is in.  The runner is in a virtual directory or in*)
(* the temporary one; a path that a command, a redirection or source asks  *)
(* for begins in a virtual directory, and so never leads into that one.    *)

Both == {"runner", "subshell"}

RunTypes ==
    /\ cwd \in Tree /\ fs \subseteq Tree
    /\ DOMAIN dir = Both /\ dir = [w \in Both |-> dir[w]]
    /\ dir["runner"] \in Tree \cup {Run!Temp}
    /\ dir["subshell"] \in Tree \cup {Run!Temp, NoFile}
    /\ {running, moved} \subseteq BOOLEAN
    /\ levels \in [Both -> Nat]
RunInv == RunTypes /\ Run!RedirectsAgree

(* What a worker has read of sourceDepth is still so when it writes, and   *)
(* sourceDepth is the number of sourced scripts that go on, and of one that*)
(* is over but not yet given back.                                         *)
Still(c, level) == /\ c.step = "outside" => c = Run!Outside
                   /\ c.step = "enters" => c.to = level + 1
                   /\ c.step = "leaves" => c.to = level - 1
Leaving    == IF \E w \in Both : counting[w].step = "leaves" THEN 1 ELSE 0
CountTypes ==
    /\ depth \in Int /\ levels \in [Both -> Nat]
    /\ counting \in [Both -> [step : {"outside", "enters", "leaves"}, to : Int]]
CountInv   ==
    /\ CountTypes
    /\ \A w \in Both : Still(counting[w], depth)
    /\ \E w \in Both : counting[w] = Run!Outside
    /\ levels["runner"] + levels["subshell"] <= MaxSource
    /\ depth = levels["runner"] + levels["subshell"] + Leaving

(* Only the temporary directory, and what is in it, has the name of it.    *)
LEMMA NotThere ==
    ASSUME NEW S, NEW s \in Seq(S), \A i \in DOMAIN s : s[i] # "memsh-cwd"
    PROVE  ~Run!IsPrefix(Run!Temp, s)
<1> SUFFICES ASSUME Run!IsPrefix(Run!Temp, s)
             PROVE  FALSE
  OBVIOUS
<1> DEFINE T == {"tmp", "memsh-cwd"}
<1>1. Run!Temp \in Seq(T) /\ Len(Run!Temp) = 2 /\ Run!Temp[2] = "memsh-cwd"
  BY DEF Run!Temp
<1>2. Len(s) \in Nat /\ DOMAIN s = 1..Len(s) /\ 2 <= Len(s) /\ SubSeq(Run!Temp, 1, 2) = SubSeq(s, 1, 2)
  BY <1>1, LenProperties DEF Run!IsPrefix
<1>3. \A i \in 1..2 : s[i] \in S /\ Run!Temp[i] \in T
  <2> HIDE DEF T
  <2> QED
    BY <1>1, <1>2, LenProperties
<1>4. SubSeq(Run!Temp, 1, 2)[2] = Run!Temp[2] /\ SubSeq(s, 1, 2)[2] = s[2]
  <2> HIDE DEF T
  <2> QED
    BY <1>3, SubSeqProperties
<1> QED
  BY <1>1, <1>2, <1>4

LEMMA TreeApart ==
    /\ \A t \in Tree : /\ t \in Seq(STRING) /\ \A i \in DOMAIN t : t[i] # "memsh-cwd"
                       /\ ~Run!IsPrefix(Run!Temp, t) /\ t # Run!Temp
    /\ ShellStart \in Tree
<1>1. \A t \in Tree : t \in Seq(STRING) /\ \A i \in DOMAIN t : t[i] # "memsh-cwd"
  BY ToolsAssumption
<1>2. \A t \in Tree : ~Run!IsPrefix(Run!Temp, t)
  BY <1>1, NotThere
<1>3. 2 \in DOMAIN Run!Temp /\ Run!Temp[2] = "memsh-cwd"
  BY DEF Run!Temp
<1> QED
  BY <1>1, <1>2, <1>3, ToolsAssumption

LEMMA JoinApart == ASSUME NEW t \in Tree, NEW p \in Relative
                   PROVE  ~Run!IsPrefix(Run!Temp, Run!Join(t, p))
<1> DEFINE j == Run!Join(t, p)
           S == STRING \cup {p}
<1>0. p # "memsh-cwd"
  BY ToolsAssumption
<1>1. /\ t \in Seq(S) /\ Len(t) \in Nat /\ DOMAIN t = 1..Len(t)
      /\ \A i \in 1..Len(t) : t[i] # "memsh-cwd" /\ t[i] \in S
  BY TreeApart, SeqMonotonic, LenProperties
<1> HIDE DEF S
<1>2. CASE j = t
  BY <1>2, TreeApart
<1>3. CASE t # <<>> /\ j = Run!Front(t)
  <2>1. j = SubSeq(t, 1, Len(t) - 1) /\ \A i \in 1..(Len(t) - 1) : t[i] \in S
    BY <1>1, <1>3 DEF Run!Front
  <2>2. /\ SubSeq(t, 1, Len(t) - 1) \in Seq(S)
        /\ Len(SubSeq(t, 1, Len(t) - 1)) = IF 1 <= Len(t) - 1 THEN Len(t) - 1 - 1 + 1 ELSE 0
        /\ \A i \in 1..(Len(t) - 1 - 1 + 1) : SubSeq(t, 1, Len(t) - 1)[i] = t[1 + i - 1]
    BY <1>1, <2>1, SubSeqProperties
  <2> HIDE DEF j
  <2>3. j \in Seq(S) /\ DOMAIN j = 1..Len(j)
    BY <2>1, <2>2, LenProperties
  <2>4. \A i \in DOMAIN j : j[i] # "memsh-cwd"
    BY <1>1, <2>1, <2>2, <2>3
  <2> QED
    BY <2>3, <2>4, NotThere DEF j
<1>4. CASE j = Append(t, p)
  <2>1. p \in S
    BY DEF S
  <2>2. j \in Seq(S) /\ Len(j) = Len(t) + 1 /\ (\A i \in 1..Len(t) : j[i] = t[i]) /\ j[Len(t) + 1] = p
    BY <1>1, <1>4, <2>1, AppendProperties
  <2> HIDE DEF j
  <2>3. DOMAIN j = 1..(Len(t) + 1)
    BY <2>2, LenProperties
  <2>4. \A i \in DOMAIN j : j[i] # "memsh-cwd"
    BY <1>0, <1>1, <2>2, <2>3
  <2> QED
    BY <2>2, <2>4, NotThere DEF j
<1> QED
  BY <1>2, <1>3, <1>4 DEF Run!Join

(* Where the runner or a subshell is, seen as a virtual directory.         *)
LEMMA VirtualInTree ==
    /\ \A d \in Tree : Run!virtualDir(d) = d
    /\ Run!virtualDir(Run!Temp) = ShellStart
    /\ \A d \in Tree \cup {Run!Temp} : Run!virtualDir(d) \in Tree
BY TreeApart DEF Run!virtualDir, Run!realCwd, Run!startCwd

LEMMA RunInitially == ASSUME Run!Init PROVE RunInv
<1>1. cwd = ShellStart /\ dir["runner"] = Run!Temp /\ dir["subshell"] = NoFile
  BY DEF Run!Init, Run!realCwd
<1>2. RunTypes
  BY <1>1, TreeApart DEF Run!Init, RunTypes, Both
<1>4. Run!RedirectsAgree
  BY <1>1, VirtualInTree DEF Run!RedirectsAgree
<1> QED
  BY <1>2, <1>4 DEF RunInv

(* Steps that move neither the shell nor the runner.                       *)
Stays ==
    \/ Run!Run \/ Run!Subshell \/ Run!SubshellEnds
    \/ \E w \in Both :
        \/ Run!Source(w) \/ Run!SourceLeft(w)
        \/ \E p \in Relative : Run!Exec(w, p) \/ Run!Redirect(w, p)
                               \/ Run!SourceRuns(w, p) \/ Run!SourceFails(w, p)
        \/ \E d \in Tree \ {<<>>} : Run!MakeDir(w, d) \/ Run!RemoveDir(w, d)

LEMMA StaysKeeps == ASSUME RunInv, Stays PROVE RunInv'
<1> USE DEF RunInv, RunTypes, Both, Run!Active, Run!Workers
<1>1. cwd' = cwd /\ dir'["runner"] = dir["runner"]
  BY DEF Stays, Run!Run, Run!Subshell, Run!SubshellEnds, Run!Exec, Run!Redirect, Run!Source,
         Run!SourceLeft, Run!SourceRuns, Run!SourceFails, Run!MakeDir, Run!RemoveDir
<1>2. fs' \subseteq Tree
  <2>1. CASE fs' = fs
    BY <2>1
  <2>2. ASSUME NEW d \in Tree, fs' \subseteq fs \cup {d}
        PROVE  fs' \subseteq Tree
    BY <2>2
  <2>3. \A w : \A d \in Tree : Run!MakeDir(w, d) \/ Run!RemoveDir(w, d) => fs' \subseteq fs \cup {d}
    BY DEF Run!MakeDir, Run!RemoveDir
  <2> QED
    BY <2>1, <2>2, <2>3 DEF Stays, Run!Run, Run!Subshell, Run!SubshellEnds, Run!Exec, Run!Redirect,
                            Run!Source, Run!SourceLeft, Run!SourceRuns, Run!SourceFails
<1>3. /\ levels' \in [Both -> Nat] /\ (levels["subshell"] > 0 => levels'["subshell"] > 0)
      /\ {running', moved'} \subseteq BOOLEAN
      /\ moved /\ (running \/ levels["subshell"] > 0) =>
            moved' /\ (running' \/ levels'["subshell"] > 0)
  <2>1. CASE Run!Run
    BY <2>1 DEF Run!Run, Run!sourceVars
  <2>2. CASE moved' = moved /\ running' = running /\ levels' = levels
    BY <2>2
  <2>3. ASSUME NEW w \in Both, NEW p, Run!SourceRuns(w, p)
        PROVE  /\ levels' \in [Both -> Nat] /\ levels'["subshell"] \in Nat
               /\ levels["subshell"] > 0 => levels'["subshell"] > 0
               /\ moved' = moved /\ running' = running
    BY <2>3 DEF Run!SourceRuns
  <2> QED
    BY <2>1, <2>2, <2>3 DEF Stays, Run!Subshell, Run!SubshellEnds, Run!Exec, Run!Redirect, Run!Source,
         Run!SourceLeft, Run!SourceFails, Run!MakeDir, Run!RemoveDir, Run!sourceVars
<1>4. Run!RedirectsAgree'
  <2>1. Run!virtualDir(dir["runner"])' = Run!virtualDir(dir["runner"])
    BY <1>1 DEF Run!virtualDir, Run!realCwd, Run!startCwd
  <2> QED
    BY <1>1, <1>3, <2>1 DEF Run!RedirectsAgree
<1>5. /\ DOMAIN dir' = Both /\ dir' = [w \in Both |-> dir'[w]]
      /\ dir'["subshell"] \in Tree \cup {Run!Temp, NoFile}
  BY DEF Stays, Run!Run, Run!Subshell, Run!SubshellEnds, Run!Exec, Run!Redirect, Run!Source,
         Run!SourceLeft, Run!SourceRuns, Run!SourceFails, Run!MakeDir, Run!RemoveDir
<1> QED
  BY <1>1, <1>2, <1>3, <1>4, <1>5

(* Steps that move them: the end of a script, cd of the interpreter and cd *)
(* run by another command.                                                 *)
LEMMA ReturnsKeep ==
    ASSUME RunInv, Run!Return \/ \E w \in Both : Run!SourceReturns(w)
    PROVE  RunInv'
<1>1. /\ dir' = dir /\ fs' = fs /\ moved' = moved /\ {running'} \subseteq BOOLEAN
      /\ cwd' = Run!virtualDir(dir["runner"]) /\ cwd' \in Tree
  BY VirtualInTree DEF RunInv, RunTypes, Run!Return, Run!SourceReturns
<1>2. levels' \in [Both -> Nat]
  <2>1. CASE Run!Return
    BY <2>1 DEF RunInv, RunTypes, Run!Return, Run!sourceVars
  <2>2. ASSUME NEW w \in Both, Run!SourceReturns(w)
        PROVE  levels' \in [Both -> Nat]
    BY <2>2 DEF RunInv, RunTypes, Run!SourceReturns
  <2> QED
    BY <2>1, <2>2
<1>3. Run!RedirectsAgree'
  BY <1>1 DEF Run!RedirectsAgree, Run!virtualDir, Run!realCwd, Run!startCwd
<1> QED
  BY <1>1, <1>2, <1>3 DEF RunInv, RunTypes

LEMMA MovesKeep ==
    ASSUME RunInv, NEW w \in Both,
           \/ Run!Cd(w) \/ Run!CdAbs(w)
           \/ \E p \in Relative : Run!changeDir(w, p)
    PROVE  RunInv'
<1>1. fs' = fs /\ running' = running /\ levels' = levels
  BY DEF Run!Cd, Run!CdAbs, Run!changeDir, Run!InterpCd, Run!sourceVars
<1>2. PICK at : at = Run!At(w)
  OBVIOUS
<1>3. at \in Both /\ (at = "runner" => running \/ levels["subshell"] > 0)
  <2>1. levels[w] \in Nat /\ (w = "runner" => running)
    BY DEF RunInv, RunTypes, Run!Cd, Run!CdAbs, Run!changeDir, Run!Active
  <2> QED
    BY <1>2, <2>1 DEF Both, Run!At
<1>4. ASSUME NEW t \in Tree, cwd' = cwd, dir' = [dir EXCEPT ![at] = t], moved' = (moved \/ at = "runner")
      PROVE  RunTypes' /\ Run!RedirectsAgree'
  BY <1>1, <1>3, <1>4 DEF RunInv, RunTypes, Both, Run!RedirectsAgree, Run!virtualDir, Run!realCwd, Run!startCwd
<1>5. ASSUME NEW t \in Tree, cwd' = t, dir' = [dir EXCEPT !["runner"] = t], moved' = moved
      PROVE  RunTypes' /\ Run!RedirectsAgree'
  BY <1>1, <1>5, VirtualInTree
  DEF RunInv, RunTypes, Both, Run!RedirectsAgree, Run!virtualDir, Run!realCwd, Run!startCwd
<1>6. ASSUME cwd' = cwd, dir' = dir, moved' = moved
      PROVE  RunTypes' /\ Run!RedirectsAgree'
  BY <1>1, <1>6 DEF RunInv, RunTypes, Run!RedirectsAgree, Run!virtualDir, Run!realCwd, Run!startCwd
<1>7. fs \subseteq Tree
  BY DEF RunInv, RunTypes
<1>8. ASSUME NEW t, Run!InterpCd(w, t)
      PROVE  RunTypes' /\ Run!RedirectsAgree'
  BY <1>2, <1>4, <1>6, <1>7, <1>8 DEF Run!InterpCd
<1>9. ASSUME NEW p, Run!changeDir(w, p)
      PROVE  RunTypes' /\ Run!RedirectsAgree'
  BY <1>5, <1>6, <1>7, <1>9 DEF Run!changeDir
<1> QED
  BY <1>8, <1>9 DEF Run!Cd, Run!CdAbs, RunInv

LEMMA RunKeeps == ASSUME RunInv, [Run!Next]_runVars PROVE RunInv'
<1>1. CASE UNCHANGED runVars
  BY <1>1 DEF runVars, RunInv, RunTypes, Run!RedirectsAgree, Run!virtualDir, Run!realCwd, Run!startCwd
<1> QED
  BY <1>1, StaysKeeps, ReturnsKeep, MovesKeep DEF Run!Next, Stays, Both

-----------------------------------------------------------------------------
(* The levels of source.                                                   *)

LEMMA CountInitially == ASSUME Run!Init PROVE CountInv
<1>1. /\ levels = [w \in Both |-> 0] /\ depth = 0 /\ counting = [w \in Both |-> Run!Outside]
  BY DEF Run!Init, Both
<1>2. Leaving = 0
  BY <1>1 DEF Leaving, Run!Outside
<1> QED
  BY <1>1, <1>2, ToolsAssumption DEF CountInv, CountTypes, Both, Still, Run!Outside

(* One worker moves on, the other is outside.                              *)
Entering(w) == Run!Source(w)
Decided(w)  == \E p \in Relative : Run!SourceRuns(w, p) \/ Run!SourceFails(w, p)
GivingBack(w) == Run!SourceReturns(w) \/ Run!SourceLeft(w)

(* One worker moves on, and the depth with it; the other is not counting.  *)
LEMMA Moved ==
    ASSUME NEW w \in Both, NEW v \in Both, v # w, counting'[v] = Run!Outside, CountTypes',
           levels'[v] + levels'[w] <= MaxSource, Still(counting'[w], depth'),
           depth' = levels'[v] + levels'[w] + (IF counting'[w].step = "leaves" THEN 1 ELSE 0)
    PROVE  CountInv'
<1>1. Both = {v, w} /\ levels'[v] \in Nat /\ levels'[w] \in Nat
  BY DEF CountTypes, Both
<1>2. levels'["runner"] + levels'["subshell"] = levels'[v] + levels'[w]
  BY <1>1 DEF Both
<1>3. Leaving' = IF counting'[w].step = "leaves" THEN 1 ELSE 0
  BY <1>1 DEF Leaving, Both, Run!Outside
<1>4. Still(counting'[v], depth')
  BY DEF Still, Run!Outside
<1> QED
  BY <1>1, <1>2, <1>3, <1>4 DEF CountInv

LEMMA CountSteps ==
    ASSUME CountInv, ~LostUpdates, NEW w \in Both, NEW v \in Both, v # w,
           Entering(w) \/ Decided(w) \/ GivingBack(w)
    PROVE  CountInv'
<1>1. DOMAIN counting = Both /\ Both = {v, w} /\ MaxSource \in Nat
  BY ToolsAssumption DEF CountInv, CountTypes, Both
<1>2. counting[v] = Run!Outside
  BY <1>1 DEF Entering, Decided, GivingBack, Run!Source, Run!SourceReturns, Run!Alone,
              Run!SourceRuns, Run!SourceFails, Run!SourceLeft, CountInv, Run!Outside
<1>3. /\ levels[v] + levels[w] <= MaxSource /\ levels[v] \in Nat /\ levels[w] \in Nat
      /\ depth = levels[v] + levels[w] + (IF counting[w].step = "leaves" THEN 1 ELSE 0)
      /\ depth \in Int
  BY <1>2 DEF Leaving, CountInv, CountTypes, Both, Run!Outside
<1>5. CASE Entering(w)
  <2>1. /\ counting' = [counting EXCEPT ![w] = [step |-> "enters", to |-> depth + 1]]
        /\ levels' = levels /\ depth' = depth /\ counting[w].step = "outside"
    BY <1>5 DEF Entering, Run!Source, Run!Active, Run!Outside
  <2>2. /\ counting'[v] = Run!Outside /\ levels'[v] = levels[v] /\ levels'[w] = levels[w]
        /\ counting'[w] = [step |-> "enters", to |-> depth + 1] /\ depth' = depth
    BY <1>2, <1>3, <2>1 DEF CountInv, CountTypes
  <2>3. CountTypes'
    BY <1>3, <2>1, <2>2 DEF CountInv, CountTypes
  <2>4. /\ levels'[v] + levels'[w] <= MaxSource /\ Still(counting'[w], depth')
        /\ depth' = levels'[v] + levels'[w] + (IF counting'[w].step = "leaves" THEN 1 ELSE 0)
    BY <1>1, <1>3, <2>1, <2>2 DEF Still, Run!Outside
  <2> QED
    BY <2>2, <2>3, <2>4, Moved
<1>6. ASSUME NEW p, Run!SourceRuns(w, p)
      PROVE  CountInv'
  <2>1. /\ counting[w].step = "enters" /\ counting[w].to = depth + 1
        /\ depth' = counting[w].to /\ depth' <= MaxSource
        /\ levels' = [levels EXCEPT ![w] = levels[w] + 1]
        /\ counting' = [counting EXCEPT ![w] = [step |-> "outside", to |-> 0]]
    BY <1>6 DEF Run!SourceRuns, Run!Outside, CountInv, Still
  <2>2. /\ counting'[v] = Run!Outside /\ levels'[v] = levels[v] /\ levels'[w] = levels[w] + 1
        /\ counting'[w] = [step |-> "outside", to |-> 0] /\ depth' = depth + 1
    BY <1>2, <1>3, <2>1 DEF CountInv, CountTypes
  <2>3. CountTypes'
    BY <1>3, <2>1, <2>2 DEF CountInv, CountTypes
  <2>4. /\ levels'[v] + levels'[w] <= MaxSource /\ Still(counting'[w], depth')
        /\ depth' = levels'[v] + levels'[w] + (IF counting'[w].step = "leaves" THEN 1 ELSE 0)
    BY <1>1, <1>3, <2>1, <2>2 DEF Still, Run!Outside
  <2> QED
    BY <2>2, <2>3, <2>4, Moved
<1>7. ASSUME NEW p, Run!SourceFails(w, p)
      PROVE  CountInv'
  <2>1. /\ counting[w].step = "enters" /\ counting[w].to = depth + 1
        /\ depth' = counting[w].to /\ levels' = levels
        /\ counting' = [counting EXCEPT ![w] = [step |-> "leaves", to |-> depth' - 1]]
    BY <1>7 DEF Run!SourceFails, Run!Leaves, CountInv, Still
  <2>2. /\ counting'[v] = Run!Outside /\ levels'[v] = levels[v] /\ levels'[w] = levels[w]
        /\ counting'[w] = [step |-> "leaves", to |-> depth] /\ depth' = depth + 1
    BY <1>2, <1>3, <2>1 DEF CountInv, CountTypes
  <2>3. CountTypes'
    BY <1>3, <2>1, <2>2 DEF CountInv, CountTypes
  <2>4. /\ levels'[v] + levels'[w] <= MaxSource /\ Still(counting'[w], depth')
        /\ depth' = levels'[v] + levels'[w] + (IF counting'[w].step = "leaves" THEN 1 ELSE 0)
    BY <1>1, <1>3, <2>1, <2>2 DEF Still, Run!Outside
  <2> QED
    BY <2>2, <2>3, <2>4, Moved
<1>8. CASE Run!SourceReturns(w)
  <2>1. /\ levels[w] > 0 /\ counting[w].step = "outside" /\ depth' = depth
        /\ levels' = [levels EXCEPT ![w] = levels[w] - 1]
        /\ counting' = [counting EXCEPT ![w] = [step |-> "leaves", to |-> depth - 1]]
    BY <1>8 DEF Run!SourceReturns, Run!Active, Run!Leaves, Run!Outside
  <2>2. /\ counting'[v] = Run!Outside /\ levels'[v] = levels[v] /\ levels'[w] = levels[w] - 1
        /\ counting'[w] = [step |-> "leaves", to |-> depth - 1] /\ depth' = depth
    BY <1>2, <1>3, <2>1 DEF CountInv, CountTypes
  <2>3. CountTypes'
    BY <1>3, <2>1, <2>2 DEF CountInv, CountTypes
  <2>4. /\ levels'[v] + levels'[w] <= MaxSource /\ Still(counting'[w], depth')
        /\ depth' = levels'[v] + levels'[w] + (IF counting'[w].step = "leaves" THEN 1 ELSE 0)
    BY <1>1, <1>3, <2>1, <2>2 DEF Still, Run!Outside
  <2> QED
    BY <2>2, <2>3, <2>4, Moved
<1>9. CASE Run!SourceLeft(w)
  <2>1. /\ counting[w].step = "leaves" /\ counting[w].to = depth - 1 /\ depth' = counting[w].to
        /\ levels' = levels
        /\ counting' = [counting EXCEPT ![w] = [step |-> "outside", to |-> 0]]
    BY <1>9 DEF Run!SourceLeft, Run!Outside, CountInv, Still
  <2>2. /\ counting'[v] = Run!Outside /\ levels'[v] = levels[v] /\ levels'[w] = levels[w]
        /\ counting'[w] = [step |-> "outside", to |-> 0] /\ depth' = depth - 1
    BY <1>2, <1>3, <2>1 DEF CountInv, CountTypes
  <2>3. CountTypes'
    BY <1>3, <2>1, <2>2 DEF CountInv, CountTypes
  <2>4. /\ levels'[v] + levels'[w] <= MaxSource /\ Still(counting'[w], depth')
        /\ depth' = levels'[v] + levels'[w] + (IF counting'[w].step = "leaves" THEN 1 ELSE 0)
    BY <1>1, <1>3, <2>1, <2>2 DEF Still, Run!Outside
  <2> QED
    BY <2>2, <2>3, <2>4, Moved
<1> QED
  BY <1>5, <1>6, <1>7, <1>8, <1>9 DEF Decided, GivingBack

LEMMA CountKeeps == ASSUME CountInv, ~LostUpdates, [Run!Next]_runVars PROVE CountInv'
<1>1. CASE depth' = depth /\ levels' = levels /\ counting' = counting
  BY <1>1 DEF CountInv, CountTypes, Leaving, Still
<1>2. ASSUME NEW w \in Both, Entering(w) \/ Decided(w) \/ GivingBack(w)
      PROVE  CountInv'
  <2>1. \E v \in Both : v # w
    BY DEF Both
  <2> QED
    BY <1>2, <2>1, CountSteps
<1> QED
  BY <1>1, <1>2 DEF runVars, Run!Next, Run!sourceVars, Run!Run, Run!Return, Run!Subshell, Run!SubshellEnds,
     Run!Cd, Run!CdAbs, Run!InterpCd, Run!changeDir, Run!Exec, Run!Redirect, Run!MakeDir, Run!RemoveDir,
     Both, Entering, Decided, GivingBack

LEMMA CountSuffices == ASSUME CountInv PROVE Run!LevelsReturned
<1>1. (\A w \in Both : counting[w] = Run!Outside) => Leaving = 0
  BY DEF Leaving, Run!Outside
<1>2. DOMAIN counting = Both /\ levels["runner"] \in Nat /\ levels["subshell"] \in Nat
  BY DEF CountInv, CountTypes, Both
<1> QED
  BY <1>1, <1>2 DEF CountInv, Run!LevelsReturned

-----------------------------------------------------------------------------
LEMMA WorkersInTree ==
    ASSUME RunInv, NEW w \in Run!Workers
    PROVE  /\ w \in Both /\ Run!virtualDir(dir[w]) \in Tree
           /\ Run!virtualDir(dir[Run!At(w)]) \in Tree
<1>1. w \in Both /\ dir[w] \in Tree \cup {Run!Temp} /\ dir["runner"] \in Tree \cup {Run!Temp}
  BY DEF RunInv, RunTypes, Both, Run!Workers
<1> QED
  BY <1>1, VirtualInTree DEF Run!At

LEMMA RunSuffices == ASSUME RunInv, CountInv PROVE Run!PlacesAgree
<1>1. Run!NeverReported
  BY TreeApart, WorkersInTree DEF RunInv, RunTypes, Run!NeverReported
<1> QED
  BY <1>1, CountSuffices DEF RunInv, Run!PlacesAgree

(* Whoever asks the filesystem for a path in the temporary directory is the*)
(* cd of the interpreter.                                                  *)
LEMMA OnlyCdAsks == ASSUME RunInv, [Run!Next]_runVars PROVE Run!AskedByCd
<1> SUFFICES ASSUME asked' # asked, Run!IsPrefix(Run!Temp, asked')
             PROVE  \E w \in Run!Workers : Run!Cd(w)
  BY DEF Run!AskedByCd
<1>1. cwd \in Tree
  BY DEF RunInv, RunTypes
<1>2. ASSUME NEW w, Run!CdAbs(w)
      PROVE  FALSE
  BY <1>2, TreeApart DEF Run!CdAbs, Run!InterpCd
<1>3. ASSUME NEW w, NEW p \in Relative, Run!Exec(w, p)
      PROVE  FALSE
  BY <1>3, WorkersInTree, JoinApart DEF Run!Exec, Run!Active
<1>4. ASSUME NEW p \in Relative, asked' = Run!resolvePath(p)
      PROVE  FALSE
  BY <1>1, <1>4, JoinApart DEF Run!resolvePath
<1>5. ASSUME NEW w, NEW p \in Relative,
             Run!changeDir(w, p) \/ Run!Redirect(w, p) \/ Run!SourceRuns(w, p) \/ Run!SourceFails(w, p)
      PROVE  FALSE
  BY <1>4, <1>5 DEF Run!changeDir, Run!Redirect, Run!SourceRuns, Run!SourceFails
<1>6. ASSUME NEW w, Run!Cd(w)
      PROVE  w \in Run!Workers
  BY <1>6 DEF Run!Cd, Run!Active
<1>7. /\ ~(Run!Run \/ Run!Return \/ Run!Subshell \/ Run!SubshellEnds)
      /\ ~(\E w : Run!Source(w) \/ Run!SourceReturns(w) \/ Run!SourceLeft(w))
      /\ ~(\E w, d : Run!MakeDir(w, d) \/ Run!RemoveDir(w, d))
      /\ ~(UNCHANGED runVars)
  BY DEF runVars, Run!Run, Run!Return, Run!Subshell, Run!SubshellEnds, Run!Source, Run!SourceReturns,
         Run!SourceLeft, Run!MakeDir, Run!RemoveDir
<1> QED
  BY <1>2, <1>3, <1>5, <1>6, <1>7 DEF Run!Next

(* Whatever scripts, subshells and sourced scripts do at the same time, the*)
(* shell and its interpreter agree on the directory, no path leads into the*)
(* temporary one but by a cd of the interpreter (virtualDir, shell.go 520),*)
(* and sourceDepth counts what is sourced, as long as no two workers count *)
(* at the same moment (shell.go 350).                                      *)
THEOREM PlacesHold == ASSUME ~LostUpdates PROVE ToolsSpec => PlacesAgree
<1>1. ToolsInit => RunInv /\ CountInv
  BY RunInitially, CountInitially DEF ToolsInit
<1>2. RunInv /\ CountInv /\ [ToolsNext]_allVars => RunInv' /\ CountInv'
  BY StepOfPart, RunKeeps, CountKeeps
<1>3. RunInv /\ CountInv => (part = "run" => Run!PlacesAgree)
  BY RunSuffices
<1>4. RunInv /\ [ToolsNext]_allVars => [part = "run" => Run!AskedByCd]_runVars
  BY StepOfPart, OnlyCdAsks
<1> QED
  BY <1>1, <1>2, <1>3, <1>4, PTL DEF ToolsSpec, PlacesAgree

-----------------------------------------------------------------------------
(* What is chosen of a sequence, from its beginning on.                    *)

IsUpto(s, K, n, g) ==
    g = [i \in 0..n |-> IF i = 0 THEN <<>> ELSE IF i \in K THEN Append(g[i - 1], s[i]) ELSE g[i - 1]]
Upto(s, K, n) == (CHOOSE g : IsUpto(s, K, n, g))[n]

LEMMA ChosenIsUpto == ASSUME NEW s, NEW K PROVE Cron!Chosen(s, K) = Upto(s, K, Len(s))
BY DEF Cron!Chosen, Upto, IsUpto

LEMMA Counting ==
    ASSUME NEW G, NEW n \in Nat, 0 \in G, \A i \in 0..(n - 1) : i \in G => i + 1 \in G
    PROVE  \A i \in 0..n : i \in G
<1> SUFFICES ASSUME NEW j \in 0..n, j \notin G
             PROVE  FALSE
  OBVIOUS
<1> DEFINE T == {i \in Nat : i \in 0..n /\ i \notin G}
<1>1. T \subseteq Nat /\ T # {}
  OBVIOUS
<1>2. PICK i \in T : \A k \in T : ~(<<k, i>> \in OpToRel(<, Nat))
  <2> HIDE DEF T
  <2> QED
    BY <1>1, NatLessThanWellFounded, WFMin
<1>3. i # 0 /\ i - 1 \in T
  OBVIOUS
<1>4. <<i - 1, i>> \in OpToRel(<, Nat)
  <2>1. i - 1 \in Nat /\ i \in Nat /\ i - 1 < i
    BY <1>3
  <2> QED
    BY <2>1 DEF OpToRel
<1> QED
  BY <1>2, <1>3, <1>4

LEMMA UptosAgree ==
    ASSUME NEW s, NEW K, NEW m \in Nat, NEW n \in Nat, m <= n, NEW g, NEW h,
           IsUpto(s, K, m, g), IsUpto(s, K, n, h)
    PROVE  \A i \in 0..m : g[i] = h[i]
<1> DEFINE G == {i \in 0..m : g[i] = h[i]}
<1>1. \A i \in 0..m : g[i] = IF i = 0 THEN <<>> ELSE IF i \in K THEN Append(g[i - 1], s[i]) ELSE g[i - 1]
  BY DEF IsUpto
<1>2. \A i \in 0..n : h[i] = IF i = 0 THEN <<>> ELSE IF i \in K THEN Append(h[i - 1], s[i]) ELSE h[i - 1]
  BY DEF IsUpto
<1>3. 0 \in G
  BY <1>1, <1>2
<1>4. \A i \in 0..(m - 1) : i \in G => i + 1 \in G
  BY <1>1, <1>2
<1>5. \A i \in 0..m : i \in G
  <2> HIDE DEF G
  <2> QED
    BY <1>3, <1>4, Counting
<1> QED
  BY <1>5

LEMMA UptoExists == ASSUME NEW s, NEW K, NEW n \in Nat PROVE \E g : IsUpto(s, K, n, g)
<1> DEFINE G == {i \in 0..n : \E g : IsUpto(s, K, i, g)}
<1>1. 0 \in G
  <2> DEFINE g == [i \in 0..0 |-> <<>>]
  <2>1. IsUpto(s, K, 0, g)
    BY DEF IsUpto
  <2> QED
    BY <2>1
<1>2. ASSUME NEW m \in 0..(n - 1), m \in G
      PROVE  m + 1 \in G
  <2>1. PICK g : IsUpto(s, K, m, g)
    BY <1>2
  <2> DEFINE e == IF m + 1 \in K THEN Append(g[m], s[m + 1]) ELSE g[m]
             h == [i \in 0..(m + 1) |-> IF i = m + 1 THEN e ELSE g[i]]
  <2>2. \A i \in 0..m : g[i] = IF i = 0 THEN <<>> ELSE IF i \in K THEN Append(g[i - 1], s[i]) ELSE g[i - 1]
    BY <2>1 DEF IsUpto
  <2>3. \A i \in 0..m : h[i] = g[i]
    OBVIOUS
  <2>4. h[m + 1] = e
    OBVIOUS
  <2>5. h = [i \in 0..(m + 1) |-> h[i]]
    OBVIOUS
  <2> HIDE DEF h
  <2>6. \A i \in 0..(m + 1) :
            h[i] = IF i = 0 THEN <<>> ELSE IF i \in K THEN Append(h[i - 1], s[i]) ELSE h[i - 1]
    <3> SUFFICES ASSUME NEW i \in 0..(m + 1)
                 PROVE  h[i] = IF i = 0 THEN <<>> ELSE IF i \in K THEN Append(h[i - 1], s[i]) ELSE h[i - 1]
      OBVIOUS
    <3>1. CASE i = m + 1
      BY <2>3, <2>4, <3>1
    <3>2. CASE i \in 0..m
      BY <2>2, <2>3, <3>2
    <3> QED
      BY <3>1, <3>2
  <2>7. IsUpto(s, K, m + 1, h)
    BY <2>5, <2>6 DEF IsUpto
  <2> QED
    BY <2>7
<1>3. n \in G
  <2>1. \A i \in 0..n : i \in G
    <3> HIDE DEF G
    <3> QED
      BY <1>1, <1>2, Counting
  <2> QED
    BY <2>1
<1> QED
  BY <1>3

(* One position at a time.                                                 *)
LEMMA UptoBegins == ASSUME NEW s, NEW K PROVE Upto(s, K, 0) = <<>>
<1> DEFINE g == CHOOSE g : IsUpto(s, K, 0, g)
<1>1. IsUpto(s, K, 0, g)
  BY UptoExists
<1>2. Upto(s, K, 0) = g[0]
  BY DEF Upto
<1> HIDE DEF g
<1> QED
  BY <1>1, <1>2 DEF IsUpto

LEMMA UptoStep ==
    ASSUME NEW s, NEW K, NEW n \in Nat
    PROVE  Upto(s, K, n + 1) = IF n + 1 \in K THEN Append(Upto(s, K, n), s[n + 1]) ELSE Upto(s, K, n)
<1> DEFINE g == CHOOSE g : IsUpto(s, K, n, g)
           h == CHOOSE h : IsUpto(s, K, n + 1, h)
<1>1. IsUpto(s, K, n, g) /\ IsUpto(s, K, n + 1, h)
  BY UptoExists
<1>2. Upto(s, K, n) = g[n] /\ Upto(s, K, n + 1) = h[n + 1]
  BY DEF Upto
<1> HIDE DEF g, h
<1>3. g[n] = h[n]
  BY <1>1, UptosAgree
<1>4. h[n + 1] = IF n + 1 \in K THEN Append(h[n], s[n + 1]) ELSE h[n]
  <2>1. \A i \in 0..(n + 1) :
            h[i] = IF i = 0 THEN <<>> ELSE IF i \in K THEN Append(h[i - 1], s[i]) ELSE h[i - 1]
    BY <1>1 DEF IsUpto
  <2>2. n + 1 \in 0..(n + 1) /\ n + 1 # 0 /\ (n + 1) - 1 = n
    OBVIOUS
  <2> QED
    BY <2>1, <2>2
<1> QED
  BY <1>2, <1>3, <1>4

LEMMA UptoType ==
    ASSUME NEW S, NEW s \in Seq(S), NEW K
    PROVE  \A n \in 0..Len(s) : Upto(s, K, n) \in Seq(S)
<1> DEFINE G == {n \in 0..Len(s) : Upto(s, K, n) \in Seq(S)}
<1>1. Len(s) \in Nat /\ \A i \in 1..Len(s) : s[i] \in S
  BY LenProperties
<1>2. 0 \in G
  <2>1. Upto(s, K, 0) \in Seq(S)
    BY UptoBegins, EmptySeq
  <2>2. 0 \in 0..Len(s)
    BY <1>1
  <2> QED
    BY <2>1, <2>2
<1>3. ASSUME NEW n \in 0..(Len(s) - 1), n \in G
      PROVE  n + 1 \in G
  <2>1. n \in Nat /\ n + 1 \in 0..Len(s) /\ s[n + 1] \in S /\ Upto(s, K, n) \in Seq(S)
    BY <1>1, <1>3
  <2>2. Append(Upto(s, K, n), s[n + 1]) \in Seq(S)
    BY <2>1, AppendProperties
  <2>3. Upto(s, K, n + 1) = IF n + 1 \in K THEN Append(Upto(s, K, n), s[n + 1]) ELSE Upto(s, K, n)
    BY <2>1, UptoStep
  <2> QED
    BY <2>1, <2>2, <2>3
<1>4. \A n \in 0..Len(s) : n \in G
  <2> HIDE DEF G
  <2> QED
    BY <1>1, <1>2, <1>3, Counting
<1> QED
  BY <1>4

(* Where each element that is chosen comes to be.                          *)
LEMMA UptoPlaces ==
    ASSUME NEW S, NEW s \in Seq(S), NEW K
    PROVE  \A n \in 0..Len(s) : \A i \in 1..n : i \in K =>
                /\ Len(Upto(s, K, i)) \in 1..Len(Upto(s, K, n))
                /\ Upto(s, K, n)[Len(Upto(s, K, i))] = s[i]
<1> DEFINE L(n) == Len(Upto(s, K, n))
           G == {n \in 0..Len(s) : \A i \in 1..n : i \in K => L(i) \in 1..L(n) /\ Upto(s, K, n)[L(i)] = s[i]}
<1>1. Len(s) \in Nat /\ \A i \in 1..Len(s) : s[i] \in S
  BY LenProperties
<1>2. 0 \in G
  BY <1>1
<1>3. ASSUME NEW n \in 0..(Len(s) - 1), n \in G
      PROVE  n + 1 \in G
  <2>1. n \in Nat /\ n + 1 \in 0..Len(s) /\ s[n + 1] \in S /\ Upto(s, K, n) \in Seq(S) /\ L(n) \in Nat
    BY <1>1, UptoType, LenProperties
  <2>2. \A i \in 1..n : i \in K => L(i) \in 1..L(n) /\ Upto(s, K, n)[L(i)] = s[i]
    BY <1>3
  <2>3. Upto(s, K, n + 1) = IF n + 1 \in K THEN Append(Upto(s, K, n), s[n + 1]) ELSE Upto(s, K, n)
    BY <2>1, UptoStep
  <2>4. CASE n + 1 \in K
    <3>1. Upto(s, K, n + 1) = Append(Upto(s, K, n), s[n + 1])
      BY <2>3, <2>4
    <3>2. /\ L(n + 1) = L(n) + 1 /\ Upto(s, K, n + 1)[L(n) + 1] = s[n + 1]
          /\ \A k \in 1..L(n) : Upto(s, K, n + 1)[k] = Upto(s, K, n)[k]
      BY <2>1, <3>1, AppendProperties
    <3>3. ASSUME NEW i \in 1..(n + 1), i \in K
          PROVE  L(i) \in 1..L(n + 1) /\ Upto(s, K, n + 1)[L(i)] = s[i]
      <4>1. CASE i = n + 1
        BY <2>1, <3>2, <4>1
      <4>2. CASE i \in 1..n
        BY <2>1, <2>2, <3>2, <3>3, <4>2
      <4> QED
        BY <2>1, <4>1, <4>2
    <3> QED
      BY <2>1, <3>3
  <2>5. CASE n + 1 \notin K
    <3>1. Upto(s, K, n + 1) = Upto(s, K, n)
      BY <2>3, <2>5
    <3>2. ASSUME NEW i \in 1..(n + 1), i \in K
          PROVE  i \in 1..n
      BY <2>1, <2>5, <3>2
    <3> QED
      BY <2>1, <2>2, <3>1, <3>2
  <2> QED
    BY <2>4, <2>5
<1>4. \A n \in 0..Len(s) : n \in G
  <2> HIDE DEF G
  <2> QED
    BY <1>1, <1>2, <1>3, Counting
<1> QED
  BY <1>4

-----------------------------------------------------------------------------
(* The scheduler.  What is due among the jobs of a file is due among its   *)
(* lines: choosing twice, first what counts and then what is due, is       *)
(* choosing once.                                                          *)

Part == [lo : Nat, hi : Nat]
Line == [kind : STRING, dow : Seq(Part), command : STRING]

LEMMA CommandsOfMore ==
    ASSUME NEW s \in Seq(Line), NEW e \in Line
    PROVE  /\ Cron!CommandsOf(s) \in Seq(STRING) /\ Len(Cron!CommandsOf(s)) = Len(s)
           /\ Cron!CommandsOf(Append(s, e)) = Append(Cron!CommandsOf(s), e.command)
<1> DEFINE n == Len(s)
           c == Cron!CommandsOf(s)
           d == Cron!CommandsOf(Append(s, e))
<1>1. n \in Nat /\ DOMAIN s = 1..n /\ \A i \in 1..n : s[i] \in Line
  BY LenProperties
<1>2. /\ Append(s, e) \in Seq(Line) /\ Len(Append(s, e)) = n + 1
      /\ (\A i \in 1..n : Append(s, e)[i] = s[i]) /\ Append(s, e)[n + 1] = e
  BY AppendProperties
<1>3. DOMAIN Append(s, e) = 1..(n + 1)
  BY <1>2, LenProperties
<1>4. c = [i \in 1..n |-> s[i].command] /\ \A i \in 1..n : s[i].command \in STRING
  BY <1>1 DEF Cron!CommandsOf, Line
<1>5. c \in Seq(STRING) /\ Len(c) = n
  BY <1>1, <1>4
<1>6. d = [i \in 1..(n + 1) |-> Append(s, e)[i].command]
  BY <1>3 DEF Cron!CommandsOf
<1>7. e.command \in STRING
  BY DEF Line
<1> HIDE DEF c, d, n
<1>8. d \in Seq(STRING) /\ Len(d) = n + 1
  <2>1. \A i \in 1..(n + 1) : Append(s, e)[i].command \in STRING
    BY <1>1, <1>2, <1>4, <1>7
  <2> QED
    BY <1>1, <1>6, <2>1
<1>9. /\ Append(c, e.command) \in Seq(STRING) /\ Len(Append(c, e.command)) = n + 1
      /\ (\A i \in 1..n : Append(c, e.command)[i] = c[i]) /\ Append(c, e.command)[n + 1] = e.command
  BY <1>5, <1>7, AppendProperties
<1>10. \A i \in 1..(n + 1) : d[i] = Append(c, e.command)[i]
  BY <1>1, <1>2, <1>4, <1>6, <1>9
<1>11. d = Append(c, e.command)
  BY <1>8, <1>9, <1>10, SeqEqual
<1> QED
  BY <1>5, <1>11 DEF c, d, n

LEMMA ChosenTwice ==
    ASSUME NEW s \in Seq(Line), NEW t \in Seq(Line), NEW C, NEW D \in SUBSET C, NEW E,
           Len(t) = Len(Upto(s, C, Len(s))),
           \A k \in 1..Len(t) : t[k].command = Upto(s, C, Len(s))[k].command,
           \A i \in 1..Len(s) : i \in C => (Len(Upto(s, C, i)) \in E <=> i \in D)
    PROVE  Cron!CommandsOf(Upto(t, E, Len(t))) = Cron!CommandsOf(Upto(s, D, Len(s)))
<1> DEFINE L(n) == Len(Upto(s, C, n))
           same(n) == Cron!CommandsOf(Upto(t, E, L(n))) = Cron!CommandsOf(Upto(s, D, n))
           G == {n \in 0..Len(s) : L(n) <= Len(t) => same(n)}
<1>1. Len(s) \in Nat /\ Len(t) \in Nat /\ (\A i \in 1..Len(s) : s[i] \in Line) /\ \A i \in 1..Len(t) : t[i] \in Line
  BY LenProperties
<1>2. 0 \in G
  <2>1. L(0) = 0
    BY UptoBegins, EmptySeq
  <2>2. Upto(t, E, 0) = <<>> /\ Upto(s, D, 0) = <<>>
    BY UptoBegins
  <2>3. same(0) /\ 0 \in 0..Len(s)
    BY <1>1, <2>1, <2>2
  <2> QED
    BY <2>3
<1>3. ASSUME NEW n \in 0..(Len(s) - 1), n \in G
      PROVE  n + 1 \in G
  <2>1. /\ n \in Nat /\ n + 1 \in 0..Len(s) /\ n + 1 \in 1..Len(s) /\ n \in 0..Len(s) /\ s[n + 1] \in Line
    BY <1>1
  <2>2. /\ Upto(s, C, n) \in Seq(Line) /\ L(n) \in Nat /\ Upto(s, D, n) \in Seq(Line)
    BY <2>1, UptoType, LenProperties
  <2>3. /\ Upto(s, C, n + 1) = IF n + 1 \in C THEN Append(Upto(s, C, n), s[n + 1]) ELSE Upto(s, C, n)
        /\ Upto(s, D, n + 1) = IF n + 1 \in D THEN Append(Upto(s, D, n), s[n + 1]) ELSE Upto(s, D, n)
    BY <2>1, UptoStep
  <2>4. Upto(t, E, L(n) + 1) = IF L(n) + 1 \in E THEN Append(Upto(t, E, L(n)), t[L(n) + 1]) ELSE Upto(t, E, L(n))
    <3>1. \A m \in Nat : Upto(t, E, m + 1) = IF m + 1 \in E THEN Append(Upto(t, E, m), t[m + 1]) ELSE Upto(t, E, m)
      BY UptoStep
    <3> QED
      BY <2>2, <3>1
  <2>5. CASE n + 1 \notin C
    <3>1. L(n + 1) = L(n) /\ Upto(s, D, n + 1) = Upto(s, D, n)
      BY <2>3, <2>5
    <3>2. L(n + 1) <= Len(t) => same(n + 1)
      BY <1>3, <3>1
    <3> QED
      BY <2>1, <3>2
  <2>6. CASE n + 1 \in C
    <3>1. L(n + 1) = L(n) + 1
      BY <2>1, <2>2, <2>3, <2>6, AppendProperties
    <3> SUFFICES ASSUME L(n) + 1 <= Len(t)
                 PROVE  same(n + 1)
      BY <2>1, <3>1
    <3>2. L(n) + 1 \in 1..Len(t) /\ L(n) \in 0..Len(t) /\ t[L(n) + 1] \in Line /\ Upto(t, E, L(n)) \in Seq(Line)
      BY <1>1, <2>2, UptoType
    <3>3. same(n)
      <4>1. L(n) <= Len(t)
        BY <1>1, <2>2
      <4> QED
        BY <1>3, <4>1
    <3>4. t[L(n) + 1].command = s[n + 1].command
      <4>1. Upto(s, C, Len(s))[L(n + 1)] = s[n + 1]
        BY <1>1, <2>1, <2>6, UptoPlaces
      <4> QED
        BY <3>1, <3>2, <4>1
    <3>5. L(n) + 1 \in E <=> n + 1 \in D
      BY <2>1, <2>6, <3>1
    <3>6. CASE n + 1 \in D
      <4>1. Cron!CommandsOf(Upto(s, D, n + 1)) = Append(Cron!CommandsOf(Upto(s, D, n)), s[n + 1].command)
        BY <2>1, <2>2, <2>3, <3>6, CommandsOfMore
      <4>2. Cron!CommandsOf(Append(Upto(t, E, L(n)), t[L(n) + 1]))
                = Append(Cron!CommandsOf(Upto(t, E, L(n))), t[L(n) + 1].command)
        BY <3>2, CommandsOfMore
      <4>3. Upto(t, E, L(n + 1)) = Append(Upto(t, E, L(n)), t[L(n) + 1])
        BY <2>4, <3>1, <3>5, <3>6
      <4> QED
        BY <3>3, <3>4, <4>1, <4>2, <4>3
    <3>7. CASE n + 1 \notin D
      BY <2>3, <2>4, <3>1, <3>3, <3>5, <3>7
    <3> QED
      BY <3>6, <3>7
  <2> QED
    BY <2>5, <2>6
<1>4. Len(s) \in G
  <2>1. \A n \in 0..Len(s) : n \in G
    <3> HIDE DEF G
    <3> QED
      BY <1>1, <1>2, <1>3, Counting
  <2> QED
    BY <1>1, <2>1
<1> QED
  BY <1>1, <1>4

(* A seven is a Sunday: what is left of a list of days when each seven is a*)
(* zero parses if every part was a day, and holds on the same days.        *)
LEMMA Normalized ==
    ASSUME NEW parts \in Seq(Part)
    PROVE  /\ Cron!normalizeDow(parts) \in Seq(Part)
           /\ Cron!Parses(Cron!normalizeDow(parts)) <=> \A i \in DOMAIN parts : Cron!IsDay(parts[i])
<1>1. Len(parts) \in Nat /\ DOMAIN parts = 1..Len(parts) /\ \A i \in 1..Len(parts) : parts[i] \in Part
  BY LenProperties
<1>2. Cron!Day(7) = [lo |-> 7, hi |-> 7] /\ Cron!Day(0) = [lo |-> 0, hi |-> 0]
  BY DEF Cron!Day
<1> DEFINE norm == Cron!normalizeDow(parts)
<1>3. norm = [i \in 1..Len(parts) |-> IF parts[i] = Cron!Day(7) THEN Cron!Day(0) ELSE parts[i]]
  BY <1>1 DEF Cron!normalizeDow
<1>4. \A i \in 1..Len(parts) : (IF parts[i] = Cron!Day(7) THEN Cron!Day(0) ELSE parts[i]) \in Part
  BY <1>1, <1>2 DEF Part
<1>5. norm \in Seq(Part) /\ DOMAIN norm = 1..Len(parts)
  BY <1>1, <1>3, <1>4
<1>6. \A i \in 1..Len(parts) : (norm[i].lo <= norm[i].hi /\ norm[i].hi <= 6) <=> Cron!IsDay(parts[i])
  <2> SUFFICES ASSUME NEW i \in 1..Len(parts)
               PROVE  (norm[i].lo <= norm[i].hi /\ norm[i].hi <= 6) <=> Cron!IsDay(parts[i])
    OBVIOUS
  <2>1. CASE parts[i] = Cron!Day(7)
    <3>1. norm[i] = Cron!Day(0)
      BY <1>3, <2>1
    <3> QED
      BY <1>2, <2>1, <3>1 DEF Cron!IsDay
  <2>2. CASE parts[i] # Cron!Day(7)
    <3>1. norm[i] = parts[i]
      BY <1>3, <2>2
    <3> QED
      BY <2>2, <3>1 DEF Cron!IsDay
  <2> QED
    BY <2>1, <2>2
<1> HIDE DEF norm
<1> QED
  BY <1>1, <1>5, <1>6 DEF Cron!Parses, norm

LEMMA SameDays ==
    ASSUME NEW line \in Line, \A i \in DOMAIN line.dow : Cron!IsDay(line.dow[i]), NEW d \in 0..6
    PROVE  Cron!Matches(Cron!normalizeDow(line.dow), d) <=> Cron!OnDay(line, d)
<1> DEFINE parts == line.dow
           norm  == Cron!normalizeDow(parts)
<1>1. parts \in Seq(Part)
  BY DEF Line
<1>2. Len(parts) \in Nat /\ DOMAIN parts = 1..Len(parts) /\ \A i \in 1..Len(parts) : parts[i] \in Part
  BY <1>1, LenProperties
<1>3. Cron!Day(7) = [lo |-> 7, hi |-> 7] /\ Cron!Day(0) = [lo |-> 0, hi |-> 0]
  BY DEF Cron!Day
<1>4. norm = [i \in DOMAIN parts |-> IF parts[i] = Cron!Day(7) THEN Cron!Day(0) ELSE parts[i]]
  BY DEF Cron!normalizeDow
<1> HIDE DEF norm
<1>5. ASSUME NEW i \in DOMAIN parts
      PROVE  d \in norm[i].lo..norm[i].hi <=> \E x \in parts[i].lo..parts[i].hi : x % 7 = d
  <2>1. parts[i] \in Part /\ parts[i].lo \in Nat /\ parts[i].hi \in Nat
    BY <1>2 DEF Part
  <2>2. CASE parts[i] = Cron!Day(7)
    <3>1. norm[i] = Cron!Day(0)
      BY <1>4, <2>2
    <3>2. parts[i].lo = 7 /\ parts[i].hi = 7 /\ norm[i].lo = 0 /\ norm[i].hi = 0
      BY <1>3, <2>2, <3>1
    <3>3. 7 % 7 = 0 /\ 7 \in 7..7 /\ \A x \in 7..7 : x = 7
      OBVIOUS
    <3> QED
      BY <3>2, <3>3
  <2>3. CASE parts[i] # Cron!Day(7)
    <3>1. norm[i] = parts[i] /\ parts[i].hi <= 6
      BY <1>4, <2>3 DEF Cron!IsDay
    <3>2. \A x \in parts[i].lo..parts[i].hi : x % 7 = x
      BY <2>1, <3>1
    <3> QED
      BY <2>1, <3>1, <3>2
  <2> QED
    BY <2>2, <2>3
<1>6. DOMAIN norm = DOMAIN parts
  BY <1>4
<1> QED
  BY <1>5, <1>6 DEF Cron!Matches, Cron!OnDay, norm

LEMMA ValidIs ==
    ASSUME NEW lines \in Seq(Line)
    PROVE  Cron!Valid(lines) <=> \A k \in DOMAIN lines : Cron!Counts(lines[k]) => Cron!IsJob(lines[k])
<1>1. ASSUME NEW k \in DOMAIN lines
      PROVE  Cron!ParsesLine(lines[k]) <=> Cron!IsJob(lines[k])
  <2>1. lines[k] \in Line
    BY LenProperties
  <2>2. lines[k].dow \in Seq(Part)
    BY <2>1 DEF Line
  <2> QED
    BY <2>2, Normalized DEF Cron!ParsesLine, Cron!IsJob
<1> QED
  BY <1>1 DEF Cron!Valid

(* What a sweep has to run: the commands of the lines that are due.        *)
Commanded(lines, m) ==
    IF \A k \in DOMAIN lines : Cron!Counts(lines[k]) => Cron!IsJob(lines[k])
    THEN Cron!CommandsOf(Cron!Chosen(lines, {k \in DOMAIN lines :
            Cron!Counts(lines[k]) /\ Cron!OnDay(lines[k], (Today + m) % 7)}))
    ELSE <<>>

LEMMA ParsedIs ==
    ASSUME NEW lines \in Seq(Line)
    PROVE  LET C == {i \in DOMAIN lines : Cron!Counts(lines[i])}
               jobs == Upto(lines, C, Len(lines))
               t == Cron!ParseCrontab(lines)
           IN /\ jobs \in Seq(Line) /\ t \in Seq(Line) /\ Len(t) = Len(jobs)
              /\ \A k \in 1..Len(t) : /\ t[k].command = jobs[k].command
                                      /\ t[k].dow = Cron!normalizeDow(jobs[k].dow)
<1> DEFINE C == {i \in DOMAIN lines : Cron!Counts(lines[i])}
           jobs == Upto(lines, C, Len(lines))
           t == Cron!ParseCrontab(lines)
<1>1. t = [i \in DOMAIN jobs |-> [jobs[i] EXCEPT !.dow = Cron!normalizeDow(jobs[i].dow)]]
  BY ChosenIsUpto DEF Cron!ParseCrontab
<1>2. jobs \in Seq(Line)
  <2> HIDE DEF C
  <2>1. Len(lines) \in Nat /\ Len(lines) \in 0..Len(lines)
    BY LenProperties
  <2> QED
    BY <2>1, UptoType
<1> HIDE DEF jobs, t
<1>3. Len(jobs) \in Nat /\ DOMAIN jobs = 1..Len(jobs) /\ \A k \in 1..Len(jobs) : jobs[k] \in Line
  BY <1>2, LenProperties
<1>4. ASSUME NEW k \in 1..Len(jobs)
      PROVE  /\ [jobs[k] EXCEPT !.dow = Cron!normalizeDow(jobs[k].dow)] \in Line
             /\ [jobs[k] EXCEPT !.dow = Cron!normalizeDow(jobs[k].dow)].command = jobs[k].command
             /\ [jobs[k] EXCEPT !.dow = Cron!normalizeDow(jobs[k].dow)].dow = Cron!normalizeDow(jobs[k].dow)
  <2>1. jobs[k] \in Line /\ jobs[k].dow \in Seq(Part)
    BY <1>3 DEF Line
  <2>2. Cron!normalizeDow(jobs[k].dow) \in Seq(Part)
    BY <2>1, Normalized
  <2> QED
    BY <2>1, <2>2 DEF Line
<1>5. t \in Seq(Line) /\ Len(t) = Len(jobs)
  BY <1>1, <1>3, <1>4
<1>6. \A k \in 1..Len(t) : t[k].command = jobs[k].command /\ t[k].dow = Cron!normalizeDow(jobs[k].dow)
  BY <1>1, <1>3, <1>4, <1>5
<1> QED
  BY <1>2, <1>5, <1>6 DEF jobs, t

LEMMA DueIs ==
    ASSUME NEW lines \in Seq(Line), Cron!Valid(lines), NEW m \in Nat
    PROVE  /\ Cron!Due(lines, m) \in Seq(Line)
           /\ Cron!CommandsOf(Cron!Due(lines, m)) = Commanded(lines, m)
<1> DEFINE C == {i \in DOMAIN lines : Cron!Counts(lines[i])}
           jobs == Upto(lines, C, Len(lines))
           t == Cron!ParseCrontab(lines)
           d == (Today + m) % 7
           D == {k \in DOMAIN lines : Cron!Counts(lines[k]) /\ Cron!OnDay(lines[k], d)}
           E == {i \in DOMAIN t : Cron!CronMatches(t[i], m)}
<1>1. /\ jobs \in Seq(Line) /\ t \in Seq(Line) /\ Len(t) = Len(jobs)
      /\ \A k \in 1..Len(t) : t[k].command = jobs[k].command /\ t[k].dow = Cron!normalizeDow(jobs[k].dow)
  BY ParsedIs
<1>2. Cron!Due(lines, m) = Upto(t, E, Len(t))
  BY ChosenIsUpto DEF Cron!Due
<1>3. Commanded(lines, m) = Cron!CommandsOf(Upto(lines, D, Len(lines)))
  <2>1. Cron!Chosen(lines, D) = Upto(lines, D, Len(lines))
    BY ChosenIsUpto
  <2> QED
    BY <2>1, ValidIs DEF Commanded
<1>4. D \in SUBSET C /\ d \in 0..6 /\ Len(t) \in Nat /\ DOMAIN t = 1..Len(t) /\ Len(lines) \in Nat /\ DOMAIN lines = 1..Len(lines)
  <2>1. D \in SUBSET C
    OBVIOUS
  <2>2. d \in 0..6
    BY ToolsAssumption
  <2> HIDE DEF t
  <2>3. Len(t) \in Nat /\ DOMAIN t = 1..Len(t) /\ Len(lines) \in Nat /\ DOMAIN lines = 1..Len(lines)
    BY <1>1, LenProperties
  <2> QED
    BY <2>1, <2>2, <2>3
<1>5. ASSUME NEW i \in 1..Len(lines), i \in C
      PROVE  Len(Upto(lines, C, i)) \in E <=> i \in D
  <2> DEFINE k == Len(Upto(lines, C, i))
  <2>1. k \in 1..Len(jobs) /\ jobs[k] = lines[i]
    <3> HIDE DEF C
    <3> QED
      BY <1>4, <1>5, UptoPlaces
  <2>2. lines[i] \in Line /\ Cron!IsJob(lines[i])
    BY <1>4, <1>5, ValidIs, LenProperties
  <2>3. \A j \in DOMAIN lines[i].dow : Cron!IsDay(lines[i].dow[j])
    BY <2>2 DEF Cron!IsJob
  <2> HIDE DEF jobs, t, k, d
  <2>4. k \in DOMAIN t /\ t[k].dow = Cron!normalizeDow(lines[i].dow)
    BY <1>1, <1>4, <2>1
  <2>5. Cron!CronMatches(t[k], m) <=> Cron!OnDay(lines[i], d)
    BY <1>4, <2>2, <2>3, <2>4, SameDays DEF Cron!CronMatches, d
  <2> QED
    BY <1>4, <1>5, <2>4, <2>5 DEF k
<1> HIDE DEF C, D, E, t
<1>6. Cron!CommandsOf(Upto(t, E, Len(t))) = Cron!CommandsOf(Upto(lines, D, Len(lines)))
  BY <1>1, <1>4, <1>5, ChosenTwice
<1>7. Upto(t, E, Len(t)) \in Seq(Line)
  BY <1>1, <1>4, UptoType
<1> QED
  BY <1>2, <1>3, <1>6, <1>7

(* One more job run is one less to do.                                     *)
LEMMA OneRun ==
    ASSUME NEW todo \in Seq(Line), todo # <<>>, NEW ran \in Seq(STRING)
    PROVE  /\ Append(ran, Head(todo).command) \in Seq(STRING) /\ Tail(todo) \in Seq(Line)
           /\ Append(ran, Head(todo).command) \o Cron!CommandsOf(Tail(todo)) = ran \o Cron!CommandsOf(todo)
<1> DEFINE n == Len(todo)
           h == Head(todo)
           t == Tail(todo)
           c == Cron!CommandsOf(todo)
           d == Cron!CommandsOf(t)
           a == Append(ran, h.command)
<1>1. n \in Nat \ {0} /\ DOMAIN todo = 1..n /\ (\A i \in 1..n : todo[i] \in Line) /\ Len(ran) \in Nat
  BY EmptySeq, LenProperties
<1>2. t \in Seq(Line) /\ Len(t) = n - 1 /\ (\A i \in 1..(n - 1) : t[i] = todo[i + 1]) /\ h \in Line
  BY HeadTailProperties
<1>3. h = todo[1]
  OBVIOUS
<1>4. DOMAIN t = 1..(n - 1)
  BY <1>2, LenProperties
<1>5. c = [i \in 1..n |-> todo[i].command] /\ d = [i \in 1..(n - 1) |-> t[i].command]
  BY <1>1, <1>4 DEF Cron!CommandsOf
<1>6. c \in Seq(STRING) /\ Len(c) = n /\ d \in Seq(STRING) /\ Len(d) = n - 1
  BY <1>1, <1>2, CommandsOfMore
<1>7. /\ a \in Seq(STRING) /\ Len(a) = Len(ran) + 1
      /\ (\A i \in 1..Len(ran) : a[i] = ran[i]) /\ a[Len(ran) + 1] = h.command
  <2>1. h.command \in STRING
    BY <1>2 DEF Line
  <2> QED
    BY <2>1, AppendProperties
<1> HIDE DEF n, h, t, c, d, a
<1>8. /\ a \o d \in Seq(STRING) /\ Len(a \o d) = Len(a) + Len(d)
      /\ \A i \in 1..(Len(a) + Len(d)) : (a \o d)[i] = IF i <= Len(a) THEN a[i] ELSE d[i - Len(a)]
  BY <1>6, <1>7, ConcatProperties
<1>9. /\ ran \o c \in Seq(STRING) /\ Len(ran \o c) = Len(ran) + Len(c)
      /\ \A i \in 1..(Len(ran) + Len(c)) : (ran \o c)[i] = IF i <= Len(ran) THEN ran[i] ELSE c[i - Len(ran)]
  BY <1>6, ConcatProperties
<1> DEFINE r == Len(ran)
           ad == a \o d
           rc == ran \o c
<1> HIDE DEF r, ad, rc
<1>m. r \in Nat /\ n \in Nat \ {0} /\ Len(a) = r + 1 /\ Len(d) = n - 1 /\ Len(c) = n
  BY <1>1, <1>6, <1>7 DEF r
<1>p. /\ ad \in Seq(STRING) /\ Len(ad) = r + n
      /\ \A i \in 1..(r + n) : ad[i] = IF i <= r + 1 THEN a[i] ELSE d[i - (r + 1)]
  <2>1. ad \in Seq(STRING) /\ Len(ad) = Len(a) + Len(d)
    BY <1>8 DEF ad
  <2>2. Len(a) + Len(d) = r + n
    BY <1>m
  <2>3. \A i \in 1..(Len(a) + Len(d)) : ad[i] = IF i <= Len(a) THEN a[i] ELSE d[i - Len(a)]
    BY <1>8 DEF ad
  <2> QED
    BY <1>m, <2>1, <2>2, <2>3
<1>q. /\ rc \in Seq(STRING) /\ Len(rc) = r + n
      /\ \A i \in 1..(r + n) : rc[i] = IF i <= r THEN ran[i] ELSE c[i - r]
  BY <1>9, <1>m DEF rc, r
<1>s. (\A i \in 1..r : a[i] = ran[i]) /\ a[r + 1] = h.command
  BY <1>7 DEF r
<1>10. ASSUME NEW i \in 1..(r + n)
       PROVE  ad[i] = rc[i]
  <2>1. CASE i <= r
    BY <1>m, <1>p, <1>q, <1>s, <2>1
  <2>2. CASE i = r + 1
    <3>1. ad[i] = h.command
      BY <1>m, <1>p, <1>s, <2>2
    <3>2. rc[i] = c[1]
      <4>1. ~(i <= r) /\ i - r = 1
        BY <1>m, <2>2
      <4> QED
        BY <1>q, <4>1
    <3>3. c[1] = todo[1].command
      BY <1>1, <1>5
    <3> QED
      BY <1>3, <3>1, <3>2, <3>3
  <2>3. CASE i > r + 1
    <3> DEFINE k == i - (r + 1)
    <3>1. k \in 1..(n - 1) /\ i - r = k + 1 /\ k + 1 \in 1..n /\ ~(i <= r + 1) /\ ~(i <= r)
      BY <1>m, <2>3
    <3>2. ad[i] = d[k] /\ rc[i] = c[k + 1]
      BY <1>p, <1>q, <3>1
    <3> HIDE DEF k
    <3>3. d[k] = t[k].command /\ c[k + 1] = todo[k + 1].command
      BY <1>5, <3>1
    <3> QED
      BY <1>2, <3>1, <3>2, <3>3
  <2>4. i <= r \/ i = r + 1 \/ i > r + 1
    BY <1>m
  <2> QED
    BY <2>1, <2>2, <2>3, <2>4
<1>11. a \o d = ran \o c
  <2>1. Len(ad) = Len(rc) /\ \A i \in 1..Len(ad) : ad[i] = rc[i]
    BY <1>p, <1>q, <1>10
  <2>2. ad = rc
    BY <1>p, <1>q, <2>1, SeqEqual
  <2> QED
    BY <2>2 DEF ad, rc
<1> QED
  BY <1>2, <1>7, <1>11 DEF a, c, d, t, h

(* A sweep has run, and has still to run, what its file commands; as long  *)
(* as nobody writes the file but crontab, it and all that was read of it   *)
(* can be parsed.                                                          *)
SweepRecord == [step : {"unread", "read"}, minute : Nat, todo : Seq(Line), ran : Seq(STRING), seen : Seq(Line)]
OnCourse(w) ==
    /\ w.step = "unread" => w.seen = <<>> /\ w.ran = <<>>
    /\ w.step = "read" => w.ran \o Cron!CommandsOf(w.todo) = Commanded(w.seen, w.minute)
Sound(lines) == lines = Cron!Absent \/ Cron!Valid(lines)

CronTypes ==
    /\ now \in Nat /\ tick \in Nat
    /\ {tab, installing} \subseteq {Cron!Absent} \cup Seq(Line)
    /\ sweeps \in Seq(SweepRecord)
CronInv ==
    /\ CronTypes
    /\ \A i \in DOMAIN sweeps : OnCourse(sweeps[i])
    /\ ~direct => /\ Sound(tab) /\ Sound(installing)
                  /\ \A i \in DOMAIN sweeps : Cron!Valid(sweeps[i].seen)

LEMMA NoLines ==
    /\ <<>> \in Seq(Line) /\ Cron!Valid(<<>>) /\ Cron!CommandsOf(<<>>) = <<>>
    /\ \A m : Commanded(<<>>, m) = <<>>
<1>1. <<>> \in Seq(Line) /\ Len(<<>>) = 0
  BY EmptySeq
<1>2. Cron!Valid(<<>>)
  BY DEF Cron!Valid
<1>3. Cron!CommandsOf(<<>>) = <<>>
  BY DEF Cron!CommandsOf
<1>4. \A K : Cron!Chosen(<<>>, K) = <<>>
  BY <1>1, ChosenIsUpto, UptoBegins
<1> QED
  BY <1>1, <1>2, <1>3, <1>4 DEF Commanded

LEMMA CronSuffices == ASSUME CronInv PROVE Cron!JobsRun
<1>1. \A i \in DOMAIN sweeps : sweeps[i] \in SweepRecord
  BY LenProperties DEF CronInv, CronTypes
<1>2. Cron!NeverSpoiled
  <2> SUFFICES ASSUME ~direct, NEW i \in DOMAIN sweeps
               PROVE  \A k \in DOMAIN sweeps[i].seen :
                        Cron!Counts(sweeps[i].seen[k]) => Cron!IsJob(sweeps[i].seen[k])
    BY DEF Cron!NeverSpoiled
  <2>1. sweeps[i].seen \in Seq(Line) /\ Cron!Valid(sweeps[i].seen)
    BY <1>1 DEF CronInv, SweepRecord
  <2> QED
    BY <2>1, ValidIs
<1>3. Cron!DueJobsRan
  <2> SUFFICES ASSUME NEW i \in DOMAIN sweeps, sweeps[i].step = "read", sweeps[i].todo = <<>>
               PROVE  sweeps[i].ran = Commanded(sweeps[i].seen, sweeps[i].minute)
    BY DEF Cron!DueJobsRan, Commanded
  <2>1. sweeps[i].ran \o <<>> = Commanded(sweeps[i].seen, sweeps[i].minute)
    BY NoLines DEF CronInv, OnCourse
  <2>2. sweeps[i].ran \in Seq(STRING)
    BY <1>1 DEF SweepRecord
  <2> QED
    BY <2>1, <2>2, ConcatEmptySeq
<1> QED
  BY <1>2, <1>3 DEF Cron!JobsRun

(* The commands of a crontab are a sequence, whatever is in it.            *)
LEMMA CommandsAre == ASSUME NEW s \in Seq(Line) PROVE Cron!CommandsOf(s) \in Seq(STRING)
<1>1. Len(s) \in Nat /\ DOMAIN s = 1..Len(s) /\ \A i \in 1..Len(s) : s[i] \in Line
  BY LenProperties
<1>2. \A i \in 1..Len(s) : s[i].command \in STRING
  BY <1>1 DEF Line
<1> QED
  BY <1>1, <1>2 DEF Cron!CommandsOf

(* What is known of one sweep.                                             *)
LEMMA OneSweep == ASSUME CronInv, NEW i \in DOMAIN sweeps
                  PROVE  /\ sweeps[i] \in SweepRecord /\ OnCourse(sweeps[i])
                         /\ ~direct => Cron!Valid(sweeps[i].seen)
<1>1. sweeps \in Seq(SweepRecord)
  BY DEF CronInv, CronTypes
<1>2. sweeps[i] \in SweepRecord
  BY <1>1, LenProperties
<1> QED
  BY <1>2 DEF CronInv

LEMMA CronBegins == ASSUME Cron!Init PROVE CronInv
<1>1. sweeps = <<>> /\ sweeps \in Seq(SweepRecord) /\ DOMAIN sweeps = {}
  BY EmptySeq DEF Cron!Init
<1> QED
  BY <1>1 DEF Cron!Init, CronInv, CronTypes, Sound

(* One sweep goes on.                                                      *)
LEMMA SweepChanged ==
    ASSUME CronInv, NEW i \in DOMAIN sweeps, NEW w \in SweepRecord, OnCourse(w),
           ~direct => Cron!Valid(w.seen),
           sweeps' = [sweeps EXCEPT ![i] = w],
           UNCHANGED <<now, tick, tab, installing, direct>>
    PROVE  CronInv'
<1>1. sweeps \in Seq(SweepRecord) /\ Len(sweeps) \in Nat /\ DOMAIN sweeps = 1..Len(sweeps)
  BY LenProperties DEF CronInv, CronTypes
<1>2. \A j \in 1..Len(sweeps) : sweeps[j] \in SweepRecord
  BY <1>1, LenProperties
<1>3. DOMAIN sweeps' = 1..Len(sweeps) /\ \A j \in 1..Len(sweeps) : sweeps'[j] = IF j = i THEN w ELSE sweeps[j]
  BY <1>1
<1>4. sweeps' \in Seq(SweepRecord)
  BY <1>1, <1>2, <1>3
<1>5. \A j \in DOMAIN sweeps' : sweeps'[j] = w \/ (j \in DOMAIN sweeps /\ sweeps'[j] = sweeps[j])
  BY <1>1, <1>3
<1>6. CronTypes'
  BY <1>4 DEF CronInv, CronTypes
<1>7. \A j \in DOMAIN sweeps' : OnCourse(sweeps'[j])
  BY <1>5 DEF CronInv
<1>8. ~direct => \A j \in DOMAIN sweeps' : Cron!Valid(sweeps'[j].seen)
  BY <1>5 DEF CronInv
<1>9. /\ \A j \in DOMAIN sweeps' : OnCourse(sweeps[j])'
      /\ direct' = direct /\ Sound(tab)' = Sound(tab) /\ Sound(installing)' = Sound(installing)
      /\ \A j \in DOMAIN sweeps' : Cron!Valid(sweeps[j].seen)' = Cron!Valid(sweeps'[j].seen)
  BY <1>7 DEF OnCourse, Sound, Commanded, Cron!Valid
<1> QED
  BY <1>6, <1>8, <1>9 DEF CronInv

(* The file is replaced, or about to be, by what can be parsed unless it is*)
(* written behind the back of crontab.                                     *)
LEMMA TabChanged ==
    ASSUME CronInv, {tab', installing'} \subseteq {Cron!Absent} \cup Seq(Line),
           direct \/ direct' \/ (Sound(tab') /\ Sound(installing')), direct => direct',
           UNCHANGED <<now, tick, sweeps>>
    PROVE  CronInv'
<1>1. CronTypes'
  BY DEF CronInv, CronTypes
<1>2. \A j \in DOMAIN sweeps' : OnCourse(sweeps[j])'
  BY DEF CronInv, OnCourse, Commanded
<1>3. ~direct' => Sound(tab)' /\ Sound(installing)' /\ \A i \in DOMAIN sweeps' : Cron!Valid(sweeps[i].seen)'
  BY DEF CronInv, Sound, Cron!Valid
<1> QED
  BY <1>1, <1>2, <1>3 DEF CronInv

LEMMA ReadKeeps == ASSUME CronInv, NEW i \in DOMAIN sweeps, Cron!Read(i) PROVE CronInv'
<1> DEFINE s == sweeps[i]
           seen == IF tab = Cron!Absent THEN <<>> ELSE tab
           todo == IF tab # Cron!Absent /\ Cron!Valid(tab) THEN Cron!Due(tab, s.minute) ELSE <<>>
           w == [s EXCEPT !.step = "read", !.seen = seen, !.todo = todo]
<1>1. s \in SweepRecord /\ s.step = "unread" /\ s.seen = <<>> /\ s.ran = <<>> /\ s.minute \in Nat
  <2>1. s.step = "unread"
    BY DEF Cron!Read
  <2> QED
    BY <2>1, OneSweep DEF OnCourse, SweepRecord
<1>2. sweeps' = [sweeps EXCEPT ![i] = w] /\ UNCHANGED <<now, tick, tab, installing, direct>>
  BY DEF Cron!Read
<1>3. seen \in Seq(Line) /\ (tab # Cron!Absent => tab \in Seq(Line))
  BY NoLines DEF CronInv, CronTypes
<1>4. todo \in Seq(Line) /\ Cron!CommandsOf(todo) = Commanded(seen, s.minute)
  <2>1. CASE tab = Cron!Absent
    BY <2>1, NoLines
  <2>2. CASE tab # Cron!Absent /\ Cron!Valid(tab)
    BY <1>1, <1>3, <2>2, DueIs
  <2>3. CASE tab # Cron!Absent /\ ~Cron!Valid(tab)
    BY <1>3, <2>3, NoLines, ValidIs DEF Commanded
  <2> QED
    BY <2>1, <2>2, <2>3
<1> HIDE DEF seen, todo
<1>5. w \in SweepRecord /\ w.step = "read" /\ w.seen = seen /\ w.todo = todo /\ w.ran = <<>> /\ w.minute = s.minute
  BY <1>1, <1>3, <1>4 DEF SweepRecord
<1>6. Cron!CommandsOf(todo) \in Seq(STRING)
  BY <1>4, CommandsAre
<1>7. <<>> \o Cron!CommandsOf(todo) = Cron!CommandsOf(todo)
  BY <1>6, ConcatEmptySeq
<1>8. OnCourse(w)
  BY <1>4, <1>5, <1>7 DEF OnCourse
<1>9. ~direct => Cron!Valid(seen)
  BY NoLines DEF CronInv, Sound, seen
<1> HIDE DEF w
<1> QED
  BY <1>2, <1>5, <1>8, <1>9, SweepChanged

LEMMA RunJobKeeps == ASSUME CronInv, NEW i \in DOMAIN sweeps, Cron!RunJob(i) PROVE CronInv'
<1> DEFINE s == sweeps[i]
           w == [s EXCEPT !.todo = Tail(s.todo), !.ran = Append(s.ran, Head(s.todo).command)]
<1>1. s \in SweepRecord /\ s.step = "read" /\ s.todo # <<>> /\ s.todo \in Seq(Line) /\ s.ran \in Seq(STRING)
  <2>1. s.step = "read" /\ s.todo # <<>>
    BY DEF Cron!RunJob
  <2> QED
    BY <2>1, OneSweep DEF SweepRecord
<1>2. sweeps' = [sweeps EXCEPT ![i] = w] /\ UNCHANGED <<now, tick, tab, installing, direct>>
  BY DEF Cron!RunJob
<1>3. /\ Append(s.ran, Head(s.todo).command) \in Seq(STRING) /\ Tail(s.todo) \in Seq(Line)
      /\ Append(s.ran, Head(s.todo).command) \o Cron!CommandsOf(Tail(s.todo)) = s.ran \o Cron!CommandsOf(s.todo)
  BY <1>1, OneRun
<1>4. /\ w \in SweepRecord /\ w.step = "read" /\ w.seen = s.seen /\ w.minute = s.minute
      /\ w.todo = Tail(s.todo) /\ w.ran = Append(s.ran, Head(s.todo).command)
  BY <1>1, <1>3 DEF SweepRecord
<1>5. OnCourse(s) /\ (~direct => Cron!Valid(s.seen))
  BY OneSweep
<1>6. OnCourse(w)
  BY <1>1, <1>3, <1>4, <1>5 DEF OnCourse
<1> HIDE DEF w
<1> QED
  BY <1>2, <1>4, <1>5, <1>6, SweepChanged DEF s

LEMMA SweepKeeps == ASSUME CronInv, Cron!Sweep PROVE CronInv'
<1> DEFINE w == [step |-> "unread", minute |-> tick, todo |-> <<>>, ran |-> <<>>, seen |-> <<>>]
<1>1. w \in SweepRecord /\ OnCourse(w) /\ Cron!Valid(w.seen)
  BY NoLines, EmptySeq DEF CronInv, CronTypes, SweepRecord, OnCourse
<1>2. sweeps' = Append(sweeps, w) /\ tick' = 0 /\ UNCHANGED <<now, tab, installing, direct>>
  BY DEF Cron!Sweep
<1> HIDE DEF w
<1>3. sweeps \in Seq(SweepRecord)
  BY DEF CronInv, CronTypes
<1>4. /\ sweeps' \in Seq(SweepRecord) /\ Len(sweeps') = Len(sweeps) + 1
      /\ (\A j \in 1..Len(sweeps) : sweeps'[j] = sweeps[j]) /\ sweeps'[Len(sweeps) + 1] = w
  BY <1>1, <1>2, <1>3, AppendProperties
<1>5. Len(sweeps) \in Nat /\ DOMAIN sweeps = 1..Len(sweeps) /\ DOMAIN sweeps' = 1..(Len(sweeps) + 1)
  BY <1>3, <1>4, LenProperties
<1>6. \A j \in DOMAIN sweeps' : sweeps'[j] = w \/ (j \in DOMAIN sweeps /\ sweeps'[j] = sweeps[j])
  BY <1>4, <1>5
<1>7. CronTypes'
  BY <1>2, <1>4 DEF CronInv, CronTypes
<1>8. \A j \in DOMAIN sweeps' : OnCourse(sweeps'[j]) /\ (~direct => Cron!Valid(sweeps'[j].seen))
  BY <1>1, <1>6 DEF CronInv
<1>9. /\ \A j \in DOMAIN sweeps' : OnCourse(sweeps[j])'
      /\ Sound(tab)' = Sound(tab) /\ Sound(installing)' = Sound(installing)
      /\ \A j \in DOMAIN sweeps' : Cron!Valid(sweeps[j].seen)' = Cron!Valid(sweeps'[j].seen)
  BY <1>2, <1>8 DEF OnCourse, Sound, Commanded, Cron!Valid
<1> QED
  BY <1>2, <1>7, <1>8, <1>9 DEF CronInv

LEMMA CronKeeps == ASSUME CronInv, [Cron!Next]_cronVars PROVE CronInv'
<1>1. ASSUME NEW lines \in Crontabs, Cron!Install(lines) \/ Cron!Overwrite(lines)
      PROVE  CronInv'
  <2>1. lines \in Seq(Line)
    BY ToolsAssumption DEF Line, Part
  <2>2. CASE Cron!Install(lines)
    BY <2>1, <2>2, NoLines, TabChanged DEF Cron!Install, Sound
  <2>3. CASE Cron!Overwrite(lines)
    BY <2>1, <2>3, TabChanged DEF Cron!Overwrite
  <2> QED
    BY <1>1, <2>2, <2>3
<1>2. ASSUME Cron!Installed PROVE CronInv'
  <2>1. installing # Cron!Absent /\ installing' = Cron!Absent /\ (tab' = installing \/ tab' = <<>>)
    BY <1>2 DEF Cron!Installed
  <2> QED
    BY <1>2, <2>1, NoLines, TabChanged DEF CronInv, CronTypes, Cron!Installed, Sound
<1>3. ASSUME Cron!Remove PROVE CronInv'
  BY <1>3, TabChanged DEF CronInv, CronTypes, Cron!Remove, Sound
<1>4. ASSUME Cron!Minute \/ UNCHANGED cronVars PROVE CronInv'
  <2>1. now' \in Nat /\ tick' \in Nat /\ UNCHANGED <<tab, installing, sweeps, direct>>
    BY <1>4 DEF Cron!Minute, cronVars, CronInv, CronTypes
  <2> QED
    BY <2>1 DEF CronInv, CronTypes, OnCourse, Sound, Commanded, Cron!Valid
<1> QED
  BY <1>1, <1>2, <1>3, <1>4, SweepKeeps, ReadKeeps, RunJobKeeps DEF Cron!Next, Cron!Loop

(* The jobs of a crontab are run, each once and in its order, and none is  *)
(* spoiled by another file, whatever crontabs users write, and whenever    *)
(* minutes pass, files change and sweeps come to read them.                *)
THEOREM JobsHold == ToolsSpec => []JobsRun
<1>1. ToolsInit => CronInv
  BY CronBegins DEF ToolsInit
<1>2. CronInv /\ [ToolsNext]_allVars => CronInv'
  BY StepOfPart, CronKeeps
<1>3. CronInv => JobsRun
  BY CronSuffices DEF JobsRun
<1> QED
  BY <1>1, <1>2, <1>3, PTL DEF ToolsSpec

-----------------------------------------------------------------------------
(* sqlite3.  Until two commands have the file at a time or a write fails,  *)
(* one command at most is at it: what has settled is in the file, or, while*)
(* that is truncated, in the copy that is about to be written.             *)

Content    == IF db = NoDb THEN {} ELSE db
AtIt       == {p \in Procs : proc[p].step \in {"working", "truncated"}}
OneAtATime ==
    /\ \A p, o \in AtIt : p = o
    /\ (\A p \in Procs : proc[p].step # "truncated") => settled \subseteq Content
    /\ \A p \in Procs : /\ proc[p].step = "working" => Content \subseteq proc[p].db
                        /\ proc[p].step = "truncated" => settled \subseteq proc[p].db
CommandRecord ==
    [step : {"idle", "working", "truncated", "ended"}, db : SUBSET Procs, todo : Seq(Sql!Stmts),
     bail : BOOLEAN, batch : BOOLEAN, failed : BOOLEAN]
SqlInv ==
    /\ db \in (SUBSET Procs) \cup {NoDb} /\ settled \subseteq Procs
    /\ proc \in [Procs -> CommandRecord]
    /\ ~shared /\ ~refused => OneAtATime
    /\ Sql!BailStops

LEMMA SqlBegins == ASSUME Sql!Init PROVE SqlInv
<1>1. Sql!Idle \in CommandRecord /\ Sql!Idle.step = "idle"
  BY EmptySeq DEF Sql!Idle, CommandRecord
<1>2. proc = [p \in Procs |-> Sql!Idle] /\ db = NoDb /\ settled = {}
  BY DEF Sql!Init
<1>3. \A p \in Procs : proc[p].step = "idle"
  BY <1>1, <1>2
<1> QED
  BY <1>1, <1>2, <1>3 DEF SqlInv, OneAtATime, AtIt, Sql!BailStops

(* One command takes a step: the others are where they were.               *)
LEMMA CommandChanged ==
    ASSUME SqlInv, NEW p \in Procs, NEW w \in CommandRecord, proc' = [proc EXCEPT ![p] = w],
           w.step = "working" /\ w.bail /\ w.batch /\ w.failed => w.todo = <<>>
    PROVE  /\ proc' \in [Procs -> CommandRecord] /\ proc'[p] = w
           /\ \A o \in Procs \ {p} : proc'[o] = proc[o]
           /\ Sql!BailStops'
BY DEF SqlInv, Sql!BailStops

LEMMA SqlStays == ASSUME SqlInv, UNCHANGED sqliteVars PROVE SqlInv'
BY DEF SqlInv, sqliteVars, OneAtATime, AtIt, Content, Sql!BailStops

LEMMA OpenKeeps ==
    ASSUME SqlInv, NEW p \in Procs, NEW script \in Sql!Scripts, NEW bail \in BOOLEAN, NEW batch \in BOOLEAN,
           Sql!openDB(p, script, bail, batch)
    PROVE  SqlInv'
<1> DEFINE w == [step |-> "working", db |-> Sql!Copied, todo |-> script,
                 bail |-> bail, batch |-> batch, failed |-> FALSE]
<1>1. Sql!Copied = Content /\ Content \subseteq Procs
  BY DEF Sql!Copied, Content, SqlInv
<1>2. script \in Seq(Sql!Stmts)
  BY DEF Sql!Scripts
<1>3. w \in CommandRecord /\ w.step = "working" /\ w.db = Content /\ w.failed = FALSE
  BY <1>1, <1>2 DEF CommandRecord
<1>4. /\ proc' = [proc EXCEPT ![p] = w] /\ UNCHANGED <<db, settled, refused>>
      /\ proc[p].step = "idle" /\ shared' = (shared \/ Sql!At(p) # {})
  BY DEF Sql!openDB
<1> HIDE DEF w
<1>5. /\ proc' \in [Procs -> CommandRecord] /\ proc'[p] = w
      /\ (\A o \in Procs \ {p} : proc'[o] = proc[o]) /\ Sql!BailStops'
  BY <1>3, <1>4, CommandChanged
<1>6. ASSUME ~shared', ~refused'
      PROVE  OneAtATime'
  <2>1. OneAtATime /\ Sql!At(p) = {}
    BY <1>4, <1>6 DEF SqlInv
  <2>2. \A o \in Procs \ {p} : proc[o].step \notin {"working", "truncated"}
    BY <2>1 DEF Sql!At
  <2>3. settled \subseteq Content
    BY <1>4, <2>1, <2>2 DEF OneAtATime
  <2> QED
    BY <1>3, <1>4, <1>5, <2>2, <2>3 DEF OneAtATime, AtIt, Content
<1> QED
  BY <1>4, <1>5, <1>6 DEF SqlInv

(* A command that goes on keeps what it has copied.                        *)
LEMMA GoesOn ==
    ASSUME SqlInv, NEW p \in Procs, proc[p].step = "working",
           NEW w \in CommandRecord, proc' = [proc EXCEPT ![p] = w], w.step = "working",
           proc[p].db \subseteq w.db, w.bail /\ w.batch /\ w.failed => w.todo = <<>>,
           UNCHANGED <<db, settled, shared, refused>>
    PROVE  SqlInv'
<1>1. /\ proc' \in [Procs -> CommandRecord] /\ proc'[p] = w
      /\ (\A o \in Procs \ {p} : proc'[o] = proc[o]) /\ Sql!BailStops'
  BY CommandChanged
<1>2. ASSUME OneAtATime
      PROVE  OneAtATime'
  <2>1. AtIt' = AtIt /\ Content' = Content
    BY <1>1 DEF AtIt, Content
  <2>2. \A o \in Procs : proc'[o].step = proc[o].step /\ proc[o].db \subseteq proc'[o].db
    BY <1>1
  <2> QED
    BY <1>2, <2>1, <2>2 DEF OneAtATime
<1> QED
  BY <1>1, <1>2 DEF SqlInv

LEMMA WorkKeeps ==
    ASSUME SqlInv, NEW p \in Procs, Sql!execStatement(p) \/ Sql!Cancel(p)
    PROVE  SqlInv'
<1> DEFINE s == proc[p]
           stmt == Head(s.todo)
           worked == [s EXCEPT !.db = IF stmt = "insert" THEN s.db \cup {p} ELSE s.db,
                               !.failed = s.failed \/ stmt \in {"wrong", "quit"},
                               !.todo = IF Sql!Stops(p, stmt) THEN <<>> ELSE Tail(s.todo)]
           cancelled == [s EXCEPT !.todo = <<>>]
<1>1. s \in CommandRecord /\ s.step = "working" /\ s.todo # <<>> /\ UNCHANGED <<db, settled, shared, refused>>
  BY DEF SqlInv, Sql!execStatement, Sql!Cancel
<1>2. s.todo \in Seq(Sql!Stmts) /\ <<>> \in Seq(Sql!Stmts)
  BY <1>1, EmptySeq DEF CommandRecord
<1>3. stmt \in Sql!Stmts /\ Tail(s.todo) \in Seq(Sql!Stmts)
  BY <1>1, <1>2, HeadTailProperties
<1>4. s.bail /\ s.batch => ~s.failed
  BY <1>1 DEF SqlInv, Sql!BailStops
<1>5. CASE Sql!execStatement(p)
  <2>1. /\ worked \in CommandRecord /\ worked.step = "working" /\ s.db \subseteq worked.db
        /\ worked.bail = s.bail /\ worked.batch = s.batch
        /\ worked.failed = (s.failed \/ stmt \in {"wrong", "quit"})
        /\ worked.todo = IF Sql!Stops(p, stmt) THEN <<>> ELSE Tail(s.todo)
    BY <1>1, <1>2, <1>3 DEF CommandRecord
  <2>2. proc' = [proc EXCEPT ![p] = worked]
    BY <1>5 DEF Sql!execStatement
  <2>3. s.bail /\ s.batch /\ stmt \in {"wrong", "quit"} => Sql!Stops(p, stmt)
    BY DEF Sql!Stops
  <2>4. worked.bail /\ worked.batch /\ worked.failed => worked.todo = <<>>
    BY <1>4, <2>1, <2>3
  <2> HIDE DEF worked
  <2> QED
    BY <1>1, <2>1, <2>2, <2>4, GoesOn
<1>6. CASE Sql!Cancel(p)
  <2>1. cancelled \in CommandRecord /\ cancelled.step = "working" /\ cancelled.db = s.db /\ cancelled.todo = <<>>
    BY <1>1, <1>2 DEF CommandRecord
  <2>2. proc' = [proc EXCEPT ![p] = cancelled]
    BY <1>6 DEF Sql!Cancel
  <2> HIDE DEF cancelled
  <2> QED
    BY <1>1, <2>1, <2>2, GoesOn
<1> QED
  BY <1>5, <1>6

LEMMA TruncateKeeps == ASSUME SqlInv, NEW p \in Procs, Sql!Truncate(p) PROVE SqlInv'
<1> DEFINE s == proc[p]
<1>1. s \in CommandRecord /\ s.step = "working" /\ UNCHANGED <<settled, shared>>
  BY DEF SqlInv, Sql!Truncate
<1>2. PICK w \in CommandRecord : /\ proc' = [proc EXCEPT ![p] = w] /\ w.db = s.db
                                 /\ \/ db' = {} /\ w.step = "truncated" /\ UNCHANGED refused
                                    \/ db' = db /\ w.step = "ended" /\ refused'
  <2>1. CASE db' = {} /\ proc' = [proc EXCEPT ![p].step = "truncated"] /\ UNCHANGED refused
    <3>1. [s EXCEPT !.step = "truncated"] \in CommandRecord
      BY <1>1 DEF CommandRecord
    <3> QED
      BY <1>1, <2>1, <3>1 DEF CommandRecord
  <2>2. CASE db' = db /\ proc' = [proc EXCEPT ![p].step = "ended"] /\ refused'
    <3>1. [s EXCEPT !.step = "ended"] \in CommandRecord
      BY <1>1 DEF CommandRecord
    <3> QED
      BY <1>1, <2>2, <3>1 DEF CommandRecord
  <2> QED
    BY <2>1, <2>2 DEF Sql!Truncate
<1>3. /\ proc' \in [Procs -> CommandRecord] /\ proc'[p] = w
      /\ (\A o \in Procs \ {p} : proc'[o] = proc[o]) /\ Sql!BailStops'
  BY <1>2, CommandChanged
<1>4. ASSUME ~shared', ~refused'
      PROVE  OneAtATime'
  <2>1. db' = {} /\ w.step = "truncated" /\ ~shared /\ ~refused
    BY <1>1, <1>2, <1>4
  <2>2. OneAtATime /\ p \in AtIt
    BY <1>1, <2>1 DEF SqlInv, AtIt
  <2>3. \A o \in Procs \ {p} : o \notin AtIt
    BY <2>2 DEF OneAtATime
  <2>4. settled \subseteq w.db
    BY <1>1, <1>2, <2>2, <2>3 DEF OneAtATime, AtIt
  <2> QED
    BY <1>1, <1>3, <2>1, <2>3, <2>4 DEF OneAtATime, AtIt
<1> QED
  BY <1>1, <1>2, <1>3, <1>4 DEF SqlInv

LEMMA WriteKeeps == ASSUME SqlInv, NEW p \in Procs, Sql!Write(p) PROVE SqlInv'
<1> DEFINE s == proc[p]
           w == [s EXCEPT !.step = "ended"]
<1>1. s \in CommandRecord /\ s.step = "truncated" /\ UNCHANGED shared
  BY DEF SqlInv, Sql!Write
<1>2. w \in CommandRecord /\ w.step = "ended" /\ s.db \subseteq Procs
  BY <1>1 DEF CommandRecord
<1>3. /\ proc' = [proc EXCEPT ![p] = w] /\ settled' = settled \cup (s.db \cap {p})
      /\ (db' = s.db /\ UNCHANGED refused) \/ (db' = db /\ refused')
  BY DEF Sql!Write
<1> HIDE DEF w
<1>4. /\ proc' \in [Procs -> CommandRecord] /\ proc'[p] = w
      /\ (\A o \in Procs \ {p} : proc'[o] = proc[o]) /\ Sql!BailStops'
  BY <1>2, <1>3, CommandChanged
<1>5. ASSUME ~shared', ~refused'
      PROVE  OneAtATime'
  <2>1. db' = s.db /\ OneAtATime /\ p \in AtIt
    BY <1>1, <1>3, <1>5 DEF SqlInv, AtIt
  <2>2. settled' \subseteq s.db
    BY <1>1, <1>3, <2>1 DEF OneAtATime
  <2>3. \A o \in Procs \ {p} : o \notin AtIt
    BY <2>1 DEF OneAtATime
  <2>4. Content' = s.db
    BY <1>2, <2>1, ToolsAssumption DEF Content
  <2> QED
    BY <1>2, <1>4, <2>2, <2>3, <2>4 DEF OneAtATime, AtIt
<1>6. db' \in (SUBSET Procs) \cup {NoDb} /\ settled' \subseteq Procs
  BY <1>2, <1>3 DEF SqlInv
<1> QED
  BY <1>4, <1>5, <1>6 DEF SqlInv

LEMMA SqlKeeps == ASSUME SqlInv, [Sql!Next]_sqliteVars PROVE SqlInv'
BY SqlStays, OpenKeeps, WorkKeeps, TruncateKeeps, WriteKeeps DEF Sql!Next

(* What a sqlite3 command has inserted stays in the database as long as no *)
(* two had the file at a time and every write went through, and under -bail*)
(* nothing is executed after a statement that failed: BatchesKept but for  *)
(* how a text is cut.                                                      *)
THEOREM InsertionsHold == ToolsSpec => [](part = "sqlite" => Sql!InsertionsStay /\ Sql!BailStops)
<1>1. ToolsInit => SqlInv
  BY SqlBegins DEF ToolsInit
<1>2. SqlInv /\ [ToolsNext]_allVars => SqlInv'
  BY StepOfPart, SqlKeeps
<1>3. SqlInv => Sql!InsertionsStay /\ Sql!BailStops
  <2> SUFFICES ASSUME SqlInv, ~shared, ~refused, \A p \in Procs : proc[p].step \in {"idle", "ended"}
               PROVE  settled \subseteq Content
    BY DEF SqlInv, Sql!InsertionsStay, Content
  <2> QED
    BY DEF SqlInv, OneAtATime
<1> QED
  BY <1>1, <1>2, <1>3, PTL DEF ToolsSpec
=============================================================================
