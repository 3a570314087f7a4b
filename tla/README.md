# memsh in TLA+

This directory models memsh: the server that lets many clients work in virtual
filesystems at once, the shell it gives each of them, and the commands that change or
compare what is in them. It is written from the source (`src/`), with its tests and
documentation as a second witness. `PROJECT.json` maps every definition to the lines
it stands for, lists the runs, the mutant of the code that each property catches, the
hazards, and the theorems.

    tlc -workers 2 -config store.cfg MCSessionStore.tla     # a run
    tlapm SessionStoreProofs.tla                            # proofs

## 1. Inventory

| component | state it keeps | operations | what is hard, what makes it correct |
|---|---|---|---|
| session store `internal/session/store.go`, `persistence.go` | map of entries, a file per session, a mutex | Get, Create, GetExisting, Update, AddUsage, Replace, Delete, Snapshot, reap, reload | entries outlive their place in the map; crash between any two operations; cap and TTL. A restart is invisible apart from expiry. |
| HTTP handlers `internal/server/server.go` | a pointer to an entry, locals | /run, snapshot export and import, complete, DELETE | hold ExecMu of an *entry*, report by *id*; rollback after a run over quota. One command at a time per filesystem, budgets cumulative. |
| SSH sessions `internal/ssh/server.go` | the same, plus a long-lived cwd; a connection count; failures per address | command, interactive shell, rc file; connect, password, close | one lookup for a whole shell; check-then-act of the throttle; double close |
| cron `internal/session/cron.go`, `pkg/cron`, `native/crontab.go` | a Snap of each session; `/.crontab` | install, tick, sweep, job, log | a stale Snap; a second lookup by id; a dropped tick; a file that is written in two calls; one bad line |
| limits and quota `limits.go`, `quota.go` | counters of bytes and files under a mutex | OpenFile, Write, Truncate, Remove, RemoveAll, Rename | measure, reserve, call and refund are not one step; an append handle stands where it was opened |
| MCP pool `internal/mcp/pool.go` | shells, with their time of birth | GetServer, Sweep, Close | the SDK binds a session later than the pool makes its shell |
| HTTP middleware `middleware.go`, `http.go`; life of the process `cmd/serve.go` | request counts per address; the listener | CORS, origin guard, rate limit, key; signal, shutdown | order of the chain; fixed window and pruning; who waits for whom at the end |
| network policy, dialer, meter `pkg/network`, `curl`, `nc` | usage under a mutex, open connections | evaluate, dial, read, write, close | bytes are metered after they were sent; the name is resolved before it is judged |
| ssh command `native/ssh.go` | `known_hosts` | connect, ask, note | read, ask, read again, truncate, write: two commands at a time |
| git `native/git` | refs, index, work tree, stash; go-git's table of transports | add … stash, merge, revert, apply; clone, fetch, push | a refused write in the middle of a sequence; one table for all shells |
| shell interpreter `pkg/shell` | three notions of the directory; tables of commands; WASI descriptors | options, New, dispatch, cd, source, redirects; plugins of a pipeline | options in any order; subshells and background jobs that outlive their script, `source` in any of them; plugins that run at the same time |
| commands on trees `native/*.go`, `wasi_fs.go`, `snapshot.go` | the tree of MemMapFs, archives | rm … mktemp, cp, mv, gzip, tar, zip, ls, tree, find, snapshots | a map of names with listings beside it; a quota that may refuse any write |
| commands on texts `native/*.go`, `git/patch.go` | none | diff, git diff, git apply, the filters | off-by-one at ends of texts, ranges and hunks |
| sqlite3 `native/sqlite.go` | a copy of the database | open, statements, write-back | two copies at a time; where a statement ends |
| memsh on a terminal `cmd/root.go` | a session in a file | start, script, leave, save | saved only at the end; limits before and after |
| awk, jq, lua, javascript, printers; configuration; MCP tools; web pages | little or none | | not modelled, see section 6 |

Interactions: HTTP handlers, SSH sessions and cron jobs share the store (calls under
its mutex) and, through the entries it hands out, the session filesystems (under
ExecMu of the entry). Each of them runs its commands through a QuotaFs of its own
around the session's filesystem. The commands of one script share filesystem, meter
and plugin runtime when they form a pipeline or run in the background. All shells of
the process share go-git's transports. The MCP pool and the SSH front share nothing with the
store. The hazards of each component, with the line where each one bites, are in
`PROJECT.json`.

## 2. Modules

The server:

| module | models | how its state and actions correspond |
|---|---|---|
| `SessionMap` | what the store promises | a map from ids to cumulative budgets with `Open`, `Charge` and `Forget`; no memory, no disk, no crash |
| `SessionStore` | `store.go`, `persistence.go` | `entries` is the map, `heap` the `Entry` objects (named by id and incarnation, since callers keep pointers), `fsys` the filesystems they point to, `disk` the session files. One action per exported method, each the whole critical section of `Store.mu`, persistence included. `Crash` drops everything but `disk`; `Restart` is `loadPersisted`. |
| `SessionServer` | `server.go`, the session part of `ssh/server.go`, `cron.go` | EXTENDS `SessionStore`. `pc` and `job` are where each goroutine is and its locals, `execMu` the owner of each entry's mutex. A handler is cut into actions at the mutex and before each call into the store: `RunAttach` (lookup), `RunLock` (mutex, limits, rollback snapshot), `RunOpen` (timeout, QuotaFs, shell), `Exec` (a write), `RunFinish` (report by id), `RunKeep` or `RunRollback` and `RunRelink`; likewise for shells, exports, imports and cron jobs. `CommandEnds` is apart from the other steps: nothing says that it happens. |
| `QuotaFs` | `quota.go` | `q` is the counter, `names`/`size` the wrapped MemMapFs, `handle` an open `quotaFile` with the place it stands at, `op` the operation a command is in. Every operation has a step that measures (`Open`, `Remove`, ...), `Reserve`, a step that calls MemMapFs (`OpenCall`, ...), and `Refund`. |
| `Crontab` | `crontab.go`, `pkg/cron`, scheduler of `cron.go` | `tab` is `/.crontab`, `installing` a crontab command between its two calls, `tick` the ticker's channel, `sweeps` the goroutines of a minute. `Install` validates first; `Sweep`, `Read`, `RunJob`. Of an expression only the day of the week is kept, the field the code rewrites. |
| `HttpServer` | `http.go`, `middleware.go`, `cmd/serve.go` | `Arrive` is the whole chain, ending in a handler or a refusal; `bucket` and `sincePrune` are the limiter's; `Signal`, `Shutdown`, `Exit` the end of the process |
| `McpPool` | `mcp/pool.go` | `entries` is `Pool.entries`, `open` the shells not closed, `session` what the SDK knows of each |
| `SshFront` | `connLimiter`, `authThrottle`, `PasswordHandler` | `Try` asks the throttle, `Compare` compares and counts, `Close` may come twice |
| `GitTransport` | `git/transport.go` | `table` is go-git's, `mu` the mutex; `Disable`, `Install`, `Restore` are the statements of `withPolicyHTTPTransport` |

The shell and what its commands keep:

| module | models | how its state and actions correspond |
|---|---|---|
| `CommandTable` | `options.go`, `defaults.go`, `New`, dispatch of `plugin.go` | one action per option, then discovery and compilation; the tables are those of `Shell` |
| `ShellRun` | `shell.go`, `fs.go` | `cwd`, `dir` and the virtual directory; cd, redirects, subshells that go on when `Run` has returned; `source` by the runner or a subshell, with `depth` read and written in two steps (`counting`) |
| `WasmHost` | `plugin.go` | invocations of plugins at the same time; the one module named "memsh", `fds`, `freeFds`, `nextFd` |
| `NetworkMeter` | `pkg/network`, `curl.go`, `nc.go` | connections that dial, transfer and close at the same time, counted in the order of the code; the next shell's meter |
| `KnownHosts` | `ssh.go` | one action between any two calls to the filesystem or the user |
| `GitRepo` | the subcommands of git that change something | a path holds a content or nothing, a commit is a tree and its parents; one action per command, with the writes that may fail cut where the command notes something |
| `Files` | the commands that change or walk a tree, WASI filesystem calls, snapshots | `data` is MemMapFs's map, `linked` its listings; `archive` one archive, its form and entries; one action per command with every write it makes and the one that is refused, and what that leaves behind |
| `Patches` | `diff.go`, `git/diff.go`, `applyPatch` | the algorithms as operators: longest common subsequence, hunks, chunks, parsing, application |
| `Sqlite` | `sqlite.go` | `splitStatements` as an operator; a command copies, executes piece by piece, truncates and writes back |
| `TextTools` | head, tail, grep, uniq, sort, shuf, tac, rev, tr, fold, cut, paste, nl, wc, seq | one operator per filter, on lines of characters |
| `LocalShell` | `cmd/root.go`, `LoadShellSession`, `SaveShellSession` | `record` is the session file, `proc` the processes with the script they collect; one action per mode, a start that fails since the session cannot be restored, and the deferred save |

`SessionStoreProofs`, `SessionServerProofs`, `QuotaFsProofs`, `GitRepoProofs`,
`FrontsProofs`, `WorkspaceProofs` and `ToolsProofs` hold theorems, `Sums` the lemmas about
sums over finite sets that several of them need. The `MC` modules give TLC its instances. Several of them put components that
share nothing side by side: `part` says which one a behaviour is about, and the others
stay in an initial state, so that a run is the union of its parts and costs the sum of
them, never the product. A property that begins with `part = ... =>` is the component's own.

Composition: `SessionServer` contains the whole of `SessionStore`: its handlers are made of
the store's actions, and `server_steady` checks the refinement of the store for the composed system. It knows of
`QuotaFs` only its answer: with `Drift = FALSE` its counter is exact, with
`Drift = TRUE` it may let a command exceed its quota, which is what the rollback in
the handlers is for. `QuotaFs` is where that assumption is examined; the modules of the
commands know of it only that a write may be refused (`QuotaFull`). `Crontab` says
which jobs a minute has, `SessionServer` what one job does to the session.

Abstractions. In the server a filesystem is its identity as a directory tree and the bytes it
holds; a cwd is `/`, or the tree it was entered in. Times are ages in ticks, cut off
where nothing distinguishes them. Network usage is one number. Output, error texts
and the contents of scripts are left out: a script is any sequence of writes,
followed by any cwd of its tree and any runtime within its timeout. That `context`
stops a command exactly at its timeout is an assumption (a command may overrun by the
time its cancellation takes). In `Files` and `GitRepo` a command is one step: the
shell runs the commands of a script one after the other, and what two of a pipeline
do to one tree at a time is `QuotaFs`'s subject. Third-party code (afero's MemMapFs, go-git,
mvdan.cc/sh, robfig/cron, wazero, SQLite, the MCP SDK) is modelled by what the code here
relies on, and marked external in `PROJECT.json`.

## 3. Runs

Passing:

| run | instance | shows |
|---|---|---|
| `store` | 1 id, cap 1, TTL 1, 2 incarnations and 2 filesystems between restarts, files that work | `DurableState`, `CwdFollowsTree`, `StoreKeepsPromise` (refinement of `SessionMap`), `AbandonedExpire` (liveness) under any callers, crashes and restarts |
| `server_steady` | 3 goroutines, 1 id, quota 1 of 2 bytes, runtime limit 2, runs, shells, cron, exports, crashes | `FsExclusive`, `RuntimeWithinBudget`, `UsageNeverShrinks`, and `StoreKeepsPromise` of the whole server |
| `server_drift` | 2 goroutines, 1 established id and another that finds no room under a cap of 1; runs, SSH commands, cron, imports, undercounting QuotaFs | `CapRespected`, `RunsInSession`, `RunsEndWithinQuota`, `SwapHoldsExecMu`, and `RequestsFinish` (liveness) where the session's commands end |
| `server_safety` | 2 goroutines, 1 id and 2 incarnations of it: runs, SSH shells, cron, DELETE, the reaper, time, handlers that fail | `OnlyClientsCreate` |
| `fronts` | git commands of 2 shells; 2 requests out of 8 kinds, a limit of 1 in a window of 2; 3 MCP clients and a pool of 2; 3 SSH connections from 1 address, cap 2, 2 failures in a window of 2; trees of up to 6 nodes with a refused write, trees of up to 4 with plugins and archives of 2 entries; every text of up to 3 characters in up to 3 lines, over a space, a delimiter and a letter | `TransportsKept`, `GitTurns` (liveness); `MiddlewareHolds`; `PoolKept`, `ShellsClose` (liveness); `FrontHolds`, `LockoutEnds` (liveness); `KeepsFiles`, `TreesShown`; `TextsKept` |
| `workspace` | a repository of 2 files, 2 branches, a tag, 2 commits and 1 stash, with writes that fail, and the same with 3 commits and 2 stashes under those commands that stashing takes (`Stashing` in `MCWorkspace`); 2 connections open at a time and 3 dials under 5 policies, with 2 requests and 1 byte allowed; 2 ssh commands and 3 keys of a host; a terminal and a script on one session of 1 file and runtime 2, with scripts of 2 lines and 3 starts, and a name with two dots in it | `RefsMoveForward`, `StashKeepsWork`; `UsageMetered`, `ConnectedWithinPolicy`; `AcceptedWasConfirmed`; `SessionGoesOn` |
| `tools` | QuotaFs with 2 commands, 3 names, at most 1 byte and 2 files allowed; 2 plugins of a pipeline and 2 files; 3 options over 3 commands; a shell in a virtual directory with a subshell or background job, and one level of source that either may take; all pairs of texts of up to 3 of 3 lines, one of which begins with "-- "; 4 crontabs over 2 minutes; 2 sqlite3 commands with texts of up to 4 characters and 2 statements | `QuotaKept`; `FdsKeptApart`; `ShellAsAsked`; `PlacesAgree`; `DiffsAreTrue`; `JobsRun`; `BatchesKept` |

Where a component promises several things that belong together, the run checks their conjunction,
and the module states each of them by its own name with the code behaviour it is about:

| checked | stands for |
|---|---|
| `TransportsKept` (`GitTransport`) | `OwnDialerOnly`, `TableRestored` |
| `MiddlewareHolds` (`HttpServer`) | `HandledIsAllowed`, `TwoWindowsAtMost` for requests, `GuessesBounded` for keys |
| `PoolKept` (`McpPool`) | types, `ShellsCapped`, `SessionsHaveShells` |
| `FrontHolds` (`SshFront`) | types, `ConnsCounted`, `GuessesBounded` for passwords |
| `KeepsFiles` (`Files`) | `HidesNothing`, and `LosesNothing` of gzip, gunzip, cp, mv and restoring, where the shell's own commands change the tree; `UnpacksInside`, of new files too, and `AddsToArchive` with archives |
| `TreesShown` (`Files`) | types, `WalksAgree`, `SnapshotsRestore` |
| `TextsKept` (`TextTools`) | `PartsMakeWhole`, `SortedOnce`, `FoldRestores`, `CutUndoesPaste`, `NumbersGoOn`, and of every step `LinesWereRead` |
| `UsageMetered` (`NetworkMeter`) | `OvershootBounded`, `BytesAccountedFor`, `RuntimeAccountedFor`, `RequestsBounded` |
| `StashKeepsWork` (`GitRepo`) | types, and of every step `PushKeepsWork`, `PopBringsBack`, `OthersStay` |
| `SessionGoesOn` (`LocalShell`) | `RuntimeCumulates`, `RcLoadedOnce`, and of every step `OverStays` |
| `QuotaKept` (`QuotaFs`) | types, `NeverUndercounts`, `QuotaEnforced` |
| `FdsKeptApart` (`WasmHost`) | `EachFdOnce`, `TableHasOneUser` |
| `ShellAsAsked` (`CommandTable`) | `WhichTellsTruth`, `OffersWhatRuns`, `SuppressedStaysOut`, `DialerFollowsOptions` |
| `PlacesAgree` (`ShellRun`) | `NeverReported`, `LevelsReturned`, `RedirectsAgree`, and of every step `AskedByCd` |
| `DiffsAreTrue` (`Patches`) | `ScriptIsShortest`, `HunksHoldChanges`, `ChunksSayWhere`, `OneHunkApplies` |
| `JobsRun` (`Crontab`) | `DueJobsRan`, `NeverSpoiled` |
| `BatchesKept` (`Sqlite`) | `StatementsWhole`, `InsertionsStay`, `BailStops` |

Failing, each a disagreement between the code and its own documentation (`findings`):

| run | what happens |
|---|---|
| `cron_on_new_session` | A cron job waits for ExecMu of the entry in its Snap. The session is deleted and created anew, a run starts in the new one. The job gets the *old* mutex, looks the id up again and works in the new filesystem beside the run. |
| `rollback_resurrects` | A command exceeds its quota, its session is deleted before it ends, and the rollback (`Store.Replace`, which creates what is absent) brings the session back. |
| `quota_self_rename` | Renaming a file to itself refunds its bytes and its place while it stays: the counter is then lower than the truth. |
| `snapshot_not_restored` | A file named `a..b` is kept by `TakeSnapshot` and refused by `RestoreSnapshot`: the session can neither be imported nor restored after a restart nor rolled back. |
| `patch_not_applied` | `git apply` of a patch with two hunks, as `diff -u` makes it of two versions, the new one under `b/`, the first of which adds or removes lines: the second lands in the wrong place, and no error is told. |

Why the bounds are enough. Sessions interact only through the cap, so one id in full
detail and two for the cap cover the store; two incarnations are a session and its
successor. Two goroutines are the smallest conflict; the third in `server_steady` is a
waiter while two others conflict. One byte over the quota is as good as many. In
`SessionServer`, handlers start only while there are model objects left for every
import and rollback in flight (`Spare`), so that the bound never stops a handler half
way, which would be mistaken for a deadlock or would hide a step. `MaxRuntime` lies
above `RuntimeLimit` in `server_steady`, so that an overrun would be seen;
where it does not, only that run's runtime is bounded. Two connections that are both
within `--max-requests`, two shells, two plugins and two
ssh or sqlite3 commands are again the smallest conflict; of the three dials the third meets the limit, or follows a
connection that was closed; three MCP clients and SSH connections
meet a limit of two with one to spare. Trees of depth two hold a directory that is not empty, its
move into another, and a name that leads outside; two commits and a stash are what the refs
relate, and two stashes are an entry and an older one. Texts of three lines have a first, a last and a middle one, and every way in
which two changes can be apart, joined or at the ends under contexts of 0 and 1; a text of
three characters has a run of two and something beside it, a field on each side of a delimiter,
and a space in or out of reach of a width of two. Deadlock is checked in every run but
`tools` and `patch_not_applied`, whose parts stop when the bound on their
options, sources or minutes is reached. Runs that use symmetry check no liveness.

Fairness. `LiveStoreSpec`: time passes, the reaper's ticker (30 s, `store.go:325`)
fires, a crashed server is started again. `LiveSpec` of `SessionServer`: handlers
go on up to their command and after it (`Acquire`, `Advance`), which is their own code. That a command ends is not assumed:
there is a timeout (`EffectiveTimeout`), but some commands never end or ignore their context (section 5). `RequestsFinish` therefore
promises service in a session only if every command of that session ends (`CommandsEnd(id)`). Strong fairness for acquiring ExecMu, because a Go `sync.Mutex` hands over to a
goroutine that has waited for 1 ms (starvation mode). Nothing is assumed of
clients, of commands and their writes, of the cron clock, or of the rc file of an SSH shell, which is
sourced without a timeout. `McpPool`: the sweep ticker, time, and that the SDK binds or
drops each session it asked a server for. `SshFront`: only that time passes.
`GitTransport`: who holds the mutex goes on, which assumes that remotes answer or hang
up, and the mutex starves nobody.

Mutants. Every property of a passing run, and of a conjunction almost every part, has a variant of
some definition (marked "Mutant" in the modules, defined just before it) that a plausible mistake
would lead to and under which TLC finds the property violated.

## 4. Proofs

`SessionStoreProofs`, for all constants that satisfy `StoreAssumption` and
`NoFileAssumption` (finite set of ids, natural bounds, `NoFile` no record):

* `TypeCorrect`: `StoreSpec => []TypeOK`; `TypeOK` is inductive.
* `StoreInvariant`: `StoreSpec => []StoreInv`, with
  `StoreInv == TypeOK /\ CapRespected /\ DurableState /\ DiskWithin`.
* `CapHolds` and `DurabilityHolds` follow: `[]CapRespected`, with failing files too, and
  `[]DurableState`.
* `CwdFollows`: `StoreSpec => []CwdFollowsTree`, inductive with `TypeOK`. Only the store's own clients are
  in it: a handler of the server may report the cwd of a tree that was replaced meanwhile.

`DurableState` is not inductive by itself: while the server is down only the files know how
many sessions there are, and a reload stops at the cap. That no file is left
unread needs that there never are more files than the cap allows. `DiskWithin` says
so; it holds because every operation that writes a new file has just passed the cap
(`InsertEffect`), and the files are exactly the live sessions while the server is up.
One lemma per operation says what it leaves of map and files (`PutEffect`,
`PersistEffect`, `InsertEffect`, ...), and the step of each operation follows from them.

`SessionStoreProofs` ends with `PromiseKept`: with a working disk
(`~Faults`), `StoreSpec => StoreKeepsPromise`. The mapping takes the budgets from memory while
the server is up, and from the files while it is down. Only a crash and a
restart need `StoreInv`: there one replaces the other, and `DurableState` says they agree.

`SessionServerProofs`, for any number of goroutines, carries this over to the server. A goroutine's action either
leaves the store alone or is one of the store's operations on the session of its job, and moves no other
goroutine: `Step(p)` says so, and there is one lemma per group of actions that it is a step (`RunAttachStep`,
`RunLockStep`, ...). From it follow

* `ServerInvariant`: `ServerInv == StoreInv /\ ServerTypeOK /\ JobsOK /\ MutexHeld` is inductive. `JobsOK` says what the
  variables of a handler are at each label, `MutexHeld` that an ExecMu has an owner exactly while one of the handlers that
  point to its Entry is between its lock and its unlock. `MutualExclusion` is a part of it.
* `ServerCapHolds`, `ServerDurable`: the store's invariants at every step of every handler;
* `ServerPromiseKept`, with a working disk: the server implements `SessionMap`, by the step lemmas of `PromiseKept`;
* `ClientsAloneCreate`, for `Quota = 0`: `OnlyClientsCreate`. With a quota a rollback can bring a
  deleted session back, which `rollback_resurrects` shows; the hypothesis excludes just that.

Its second half proves what ExecMu is for. The mutex belongs to an Entry object, reports go by session
id. The two agree as long as no session is deleted or reaped while a handler is at work in it: the
hypothesis `[][NonePulled]_vars`. It excludes what `cron_on_new_session` and `rollback_resurrects` show, and nothing
else the code promises: sessions come, are used, deleted and reaped when idle, and the server crashes and
restarts at will. The lemma behind all of it is `Act(p)`: what a step of a goroutine does to the sessions
(`Effect`), to its own place (`Carries`) and to what it has read (`Loads`).

* `ExclusionInvariant`: `ExclInv == ServerInv /\ Stopped /\ Pointing /\ InBudget /\ Reckoned`. `Pointing` says that handlers point to
  the Entry in the map, `Reckoned` that a running command knows all that its session has used: neither
  is inductive without the other, for a handler's knowledge stays true only because nobody else holds
  the mutex of the same Entry.
* `ServerOneAtATime` and `FilesystemsExclusive`: `FsExclusive`, as long as no rc file of an interactive shell is
  being sourced (`ssh/server.go:345` sources it without ExecMu).
* `RuntimeKept`: `RuntimeWithinBudget`, crashes, restarts and failing disks included; `UsageKept`: `UsageNeverShrinks`.
* `CommandsRunInSession` and `SwapsHoldExecMu`: `RunsInSession` and `SwapHoldsExecMu`, under a second hypothesis,
  `[]NoBlindSwap`: no session appears between the lookup of an import that found none (`server.go:344`) and
  its `Replace` (`store.go:207`), since such an import holds no mutex.
* `RunsEndInQuota`: `RunsEndWithinQuota`, however far the counters of QuotaFs have strayed, with a working disk, in a
  server that stays up, under both hypotheses and while no rc file is being sourced (`[]NoneSourcing`). Each is needed:
  a `Replace` that cannot write is ignored (`server.go:237`), a crash ends handlers between the run and its
  validation, and whoever writes without the mutex may do so after the validation. `QuotaInv` adds what the handlers
  keep: the snapshot taken before a run is within the quota (`SnapsFit`), because it was taken under the mutex
  of a session that was (`Fits`, one lemma per group of actions), and the tree a rollback has made holds it
  until the Entry points to it (`RolledBack`).

`QuotaFsProofs`, for any number of commands, names and files and for all limits, under `~Overlap`, `~RefundTwice` and `~AppendStale` (no two
commands are busy with one file at a time, no file is renamed to itself or truncated after it was removed, no appending handle writes
after somebody else's truncation; section 5 and `quota_self_rename` show why): `QuotaHolds`, that is `Spec => []QuotaKept`. The counter says
nothing by itself while operations are under way: it may know of more than there is, or of less while a
truncation has been given back in advance. `Ledger`, the heart of `QuotaInv`, adds what the
commands still owe: tree + owed <= counter, in bytes and in files. It is inductive because what a command has
measured stays true until its call (`Measured`), which needs that busy commands have different files (`Apart`) and
that no file has two names (`OneName`); `OthersSound` is that argument, once for all actions. `Untouched(c)` says what
a step of `c` leaves alone, `CallKeeps` reduces each wrapped call to its effect on one or two names. The sums are
those of `Sums`.

`Sums`: the library's fold is a sum (`FoldIsSum`) that exists (`SumExists`), does not depend on the order
(`SumRemoves`), changes with one element by what that element changes (`SumChanges`), splits (`SumSplits`),
is monotone (`SumGrows`), and is invariant under a renaming of the elements (`SumMoves`).
`SubsetInduction`, by a least counterexample, takes the place of the library's induction theorems.

`GitRepoProofs`, for any set of paths, contents, branches and tags and any number of commits:

* `GitInvariant`: `GitInv == Typed /\ StashKnown /\ StashDistinct`: the parent of a commit is an older one, branches, tags and
  HEAD point to commits there are, and the stash holds different commits. `Step` says what any command does to the log, the refs
  and the stash (the log only grows); one lemma per command says that it is one, and `StepKeeps` is then the only argument.
* `StashKeeps`: `StashKeepsWork`, wherever a write is refused, for a stash of any length. It needs `StashDistinct`: an entry that was dropped is
  told from those that are left by its commit alone (`WithoutTells`).
* `RefsForward`: `RefsMoveForward`. The history of a branch is the recursive function `ChainIn`; that it is defined at all, and a
  sequence of commits, is `ChainExists` and `ChainType`, from parents being older, by a least counterexample (`CourseOfValues`). A
  commit on top of the tip then has the old tip in its history (`ParentFollows`, `CommitForward`).

`FrontsProofs`, about `MCFronts`, the fronts of the server side by side; each theorem takes from a step only
its own part (`StepOfPart`):

* `SshHolds`: `FrontHolds`, for finitely many connections, any number of addresses, any cap, limit and window
  (`SshLimits`: limit and window are positive, as the constants of `ssh/server.go:44` are). The counter is the number of connections
  accepted and not yet closed, whoever closes them how often (`Counted`). `GuessesBounded` is not inductive: a connection
  past the throttle has yet to add its failure. `Bound` counts both: failures within the window and connections that are
  `Guessing` exceed the limit by less than the number of connections. That time only lowers the first is `SumAges`.
* `ChainHolds`: `MiddlewareHolds`, for any limit, window and number of handlers (`HttpLimits`: limit and window are positive, since a limit of 0
  turns the limiter off, `middleware.go:119`; the kinds of requests are those of `MCFronts`). What a client got through in the last window is bounded by twice the limit because a bucket and the
  one before it cover it: `Young` are the ages that belong to the present bucket, and what is older fits in one limit. Pruning
  drops only buckets whose window has passed.
* `PoolCapHolds`: the pool never runs more shells than its cap, for any number of clients, any cap and grace, because the
  shells that run are exactly those in the map (`PoolIsAll`) and a sweep only takes from it. `PoolHolds`: `PoolKept`, under
  the assumption that sessions are bound in time (`~SlowBind`): until the server stops, whoever has or waits for a
  session is in the map, and too young to be swept if it waits.
* `TransportsKeptHolds`, from `TransportAssumption` alone: `OwnDialerOnly` and `TableRestored`, neither of
  them inductive. What `Restore` puts back is what `Disable` saw; the invariant says that this is the table of the start,
  because only the holder of the mutex is inside (`HolderHasMutex`) and it found the table as the last one left
  it (`TableFollows`). `InsideKeeps` is the one lemma behind the four steps that are taken inside.

`WorkspaceProofs`, about `MCWorkspace`:

* `TrustHolds`: `AcceptedWasConfirmed`, for any commands, hosts and keys, without an assumption. Inductive is that what the
  file holds, and what each command read of it before it writes it again, are entries the user said yes to (`TrustInv`); so a
  write over somebody else's may lose an entry and never adds one.
* `PolicyHolds`: `ConnectedWithinPolicy`, for any number of connections (`NetLimits`; the policies, destinations and
  answers are those of `MCWorkspace`). The invariant says of a connection that is still being dialled that the
  policy allows its address, or has nothing to say of addresses at all: only then does `EvaluateAddress` leave the name to the
  dialer, and only then may the resolver change its mind. `TargetIs` is that fact about `EvaluateAddress`.
* `MeterHolds`: `UsageMetered`, for any finite number of connections and all limits (`NetLimits`; 0 is no limit). `MeterInv`
  gives each connection three weights: what it moved and did not account for, how long it is open and not charged, and
  how far it may still take the meter (`May`: the transfer under way or, if it has not been told that it is over
  the limit, the next). The bound on the overshoot is inductive only with the last: usage and all that connections may still
  move are within the limit and one transfer per request. An accounting that stays within the limit starts this account anew,
  because connections in use are no more than requests (`Held`). `MeterStep` is that argument, once for the steps of one
  connection; each action then supplies its weights before and after.

* `LocalHolds`: `SessionGoesOn`, for any number of processes, scripts of any length and all limits (`LocalLimits`: a runtime is a
  number, and no file is not a record). `OneByOne` says what is known as long as nobody was killed and no two had the
  session: the one process that is on, or the record if none is, has used what all took together, and if the record has too many
  files, the process still has those it began with, since no script of it may run. That the list of aliases is
  among them (`AliasesFile`) keeps the save from adding a file. What a script does to the files is not looked
  into: `OutcomeIs` says all that is needed of it.

`ToolsProofs`, about `MCTools`, under `ToolsAssumption`: nobody uses the name that `os.MkdirTemp` makes up, no file is not
an empty one, a day of a crontab is a number or a range.

* `FdsHold`: `FdsKeptApart`, for any files and any number of invocations and descriptors. `WasmInv` is the property with its types: that a
  number taken from `freeFds` is not open needs that the free ones and the open ones together are all below `nextFd`, each
  once. `WithoutLast` and `WithOneMore` are the facts about sequences it rests on.
* `TableHolds`: `ShellAsAsked`, for any commands, plugins and options in any order, those that turn WASM off among them: completion offers exactly
  what can run, and of bytes that have no runtime `which` alone is wrong, which `WhichTellsTruth` says. The tables are related while they are being built:
  what `SwitchesKeep`, `NetworkKeeps` and `NewKeeps` preserve is what discovery, the filter and the defaults need.
* `PlacesHold`: `PlacesAgree`, for any tree of directories and any interleaving of a script with a subshell or background job, both of
  which may source, as long as no two count a level at the same moment (`~LostUpdates`; section 5 says what happens otherwise).
  `CountInv` is the account: `sourceDepth` is the levels of both and those that are on their way in or out. `NotThere` and `JoinApart` say that what a command may name is
  not below the temporary directory; the one way there is a relative `cd`, which the property excepts.
* `JobsHold`: `JobsRun`, for all crontabs, of any number of lines. `CronInv` says of a sweep that what it ran, followed by what it
  has still to run, is what its file commands (`OnCourse`), and that nothing crontab wrote is spoiled (`Sound`). The
  hard part is `DueIs`: the code parses a file and picks the due jobs from what it parsed, the property picks lines from the
  file. Both choose elements of a sequence by their positions (`Chosen`), which is a recursive function: `Upto` gives it
  meaning (`UptoExists`, `UptoStep`, by induction over a set of numbers, `Counting`), and `ChosenTwice` says
  that choosing from what was chosen is choosing once. `SameDays` is the treatment of 7 as 0, `ValidIs` that
  the parser accepts what the property calls a job.
* `InsertionsHold`: `InsertionsStay` and `BailStops`, for any number of commands with scripts of any length. Inductive is `OneAtATime`: until two
  commands have the file at a time or a write fails, what has settled is in the file or, while that is truncated, in the copy of
  the one command that is about to write it.

Only model-checked: every liveness property (fairness and ENABLED are out of the prover's reach); of `BatchesKept` the part
about texts (`StatementsWhole`); `DiffsAreTrue`, `TextsKept`, `KeepsFiles` and `TreesShown`. The algorithms of `Patches`,
`TextTools`, `Files` and the splitting of SQL are recursive functions of two arguments and folds over them: what
they compute for every input would need induction over data, which the installed provers cannot instantiate, and
which a set of numbers replaced in `Crontab` at the price of a dozen lemmas for one function.

## 5. What the models leave open

Behaviours met while modelling that no run above reports. Where a constant is named, giving it another
value shows them; where a property is said to fail, it is stated in its module, no run lists it, and TLC finds it violated.

Server:

* An import locks a session only if it exists when looked up (`server.go:344`); one created
  between lookup and `Replace` is swapped without its ExecMu, against `store.go:207`.
  `SwapHoldsExecMu` is checked of an established session.
* A report after a delete and a re-creation overwrites the network usage of the new
  session with that of the old one (`server.go:231`, `cron.go:141`). `UsageNeverShrinks` is
  checked without deletes.
* After a rollback of a deleted session, the old and the new entry share one filesystem under
  two mutexes (`server.go:237`).
* The rc file of an interactive shell is sourced without ExecMu and QuotaFs (`ssh/server.go:345`);
  two shells that open a session whose rc is not loaded (a fresh one, or one just imported)
  can do so at once. `FsExclusive` is checked of a session whose rc is loaded. A crash
  inside a handler between report and rollback leaves an over-quota session on disk.
* An append handle behind a truncation writes more than it pays for: MemMapFs moves the handle to the end only when the file is opened, `quotaFile.Write`
  charges from the size the file has now (`quota.go:191`), so that `{ echo aaaa; : > f; echo b; } >> f` fills a gap nobody pays for (`AppendStale = TRUE`:
  `NeverUndercounts` and `QuotaEnforced` fail). A plugin that opens with `O_APPEND` (`wasi_fs.go:44`) has such a handle too. A plugin that seeks past the end of a file is not modelled.
* Two commands busy with one file (`Overlap = TRUE`) can refund it twice; so can truncating a
  file that was removed (`RefundTwice`). The code's own answer is the check after the run.
* A cron job is not rolled back: what it wrote over the quota stays until the next command is refused.
* A range `5-7` in a crontab is refused, since only a 7 by itself is made a 0; a line that does not
  parse takes every job of the file with it (`pkg/cron/cron.go:108`).
* `McpPool`: a session bound later than `sessionGrace` after its shell was made finds it closed
  (`SlowBind = TRUE`); a shell made after `Close` is never closed.
* With a TTL of 0 the reaper drops every session, the reload none (`store.go:332`, `429`).
* A signal ends the process while requests are handled: `Shutdown` waits for them in a goroutine
  nobody waits for (`serve.go:195`); `ShutdownGraceful` in `HttpServer` is what does not hold.
* `--max-runtime` of the network refuses nothing: the runtime of a connection is charged when it closes, and
  no later request looks at it (`dialer.go:112`).
* A git command over the network ignores its context while it holds the mutex of all shells: a server that never
  answers stops git for everybody (`git/transport.go:53`).

Shell and commands:

* A temporary directory stands in for a start directory the host does not have; a relative `cd` may name it
  (`shell.go:520`). `AskedByCd` says that nothing else does.
* `SetCwd` from a subshell changes the shell's directory. Jobs in the background outlive `Run`, and the levels of `source` they are in
  stay counted (`LevelsReturned` counts them). Two that count at the same moment may lose an update, and scripts then nest
  deeper than `maxSourceDepth` (`LostUpdates = TRUE`: `RecursionLimited` fails, `shell.go:350`). Like `sourceDepth`, `Shell.cwd` and the runner's directory are shared without
  a lock; of these the model takes every access as one step, the counter alone in two.
* Bytes given with `WithPluginBytes` lose against a native command though the
  list at `plugin.go:23` puts them first (`BytesWin` in `CommandTable` fails). In a shell made with `WithWASMEnabled(false)`
  they stay in the table of plugins: `which` names them, dispatch hands them to a runtime that was not made (`shell.go:309`,
  `plugin.go:165`), completion does not offer them (`CompiledWhenUsed` fails; `WhichTellsTruth` excepts them by name).
* The WASI `path_remove_directory` removes a directory that is not empty and leaves its files without a listing;
  so may moving a directory over another (`HidesNothing` names both). `rm -d` removes a directory with all that is in it.
* `cp -r` of a directory into itself does not end; `cp f f` empties the file; tar loses empty directories and
  truncates its archive first, and a refused write leaves a part of it without an error; an archive or a stash that
  zip or `git stash` rewrites is lost when the write is refused, because the file was truncated before (`zip.go:158`, `stash.go:61`: `ZipPreserves` in `Files` and
  `PushPrepends` in `GitRepo` fail; `AddsToArchive` and `OthersStay` except just that); gunzip of a name without a suffix
  writes over its source and, unless `-k` is given, then removes it (`gzip.go:168`: `KeepsOriginal` fails, `LosesNothing` names it);
  `zip -r` on an archive that exists doubles entries; `find -maxdepth` counts from the
  start, `tree -L` from below it.
* `git revert` and `cherry-pick` do not stage deletions; `stash apply` never deletes; a negative stash index is not
  refused; `checkout` and `switch` write over changes that are staged and over untracked files, and where go-git refuses because of
  changes that are not staged, HEAD has moved to the other branch already; `git branch b` moves a branch that exists, and the current one can be deleted; a merge discards
  uncommitted changes; `git remote rename` to a name that
  exists deletes the remote and then fails.
* `git apply` takes a file only from a line `+++ b/...`: of a patch that `diff -u old new` made of other names it does nothing and tells
  no error. It does not compare context, and a removed line that begins with `-- ` ends its hunk.
  An added line that begins with `++ b/`
  would be taken for a header; no line of the model does. `OneHunkApplies` holds for one hunk without such a line, which is what `diff` and `git diff` make of two versions
  that differ in one place.
* Two sqlite3 commands at a time lose insertions, even if one of them only reads; a refused write-back is told nobody and
  leaves the file truncated; `.quit` ends a batch under `-bail` only.
* Two ssh commands at a time may lose an entry of `known_hosts`: it is asked for again.

On a terminal:

* Two memsh on one session: the one that ends later takes back what the other saved. A process that is killed saves
  nothing. A session with a name that holds `..` cannot be opened again (`StartFails`). `RuntimeCumulates` and `RcLoadedOnce` speak of processes one after the other.
* A session over `--max-files` refuses every script, rm too (`OverStays`). The file of the aliases is
  written at the end, after the last look at the limits, so a session at its limit is over it the next time (`root.go:127`).
* A session begun with `-c` or a pipe counts as having loaded `~/.memshrc`, and never does (`root.go:128`).
* Piped input without a newline at its end loses its last line (`root.go:344`); a pipe runs lines, not
  scripts. At the prompt a loop is run at the first line that does not ask for another one, whatever is still open
  (`root.go:222`).

Filters:

* `fold -w 0` does not end; `cut -c 1-N` builds N positions whatever the line; `seq 1 2 4` prints a 5
  (`seq.go:54`); `sort -n -u` leaves duplicates that are not neighbours; `head` and `read` take more from a shared input than they use.

## 6. Not modelled

* The interpreters awk, jq, lua and javascript, and the commands that only print or format (date, printf, base64, man, ...):
  pure functions of their input, with a language or a format of their own, or third-party engines.
* git log, show, status, blame, grep and the plumbing: they read what `GitRepo` has. The configuration of remotes beyond the transport.
* MCP tools: they run in the one shell of their session, one request at a time.
* Configuration, flags, line editing, completion, host keys, TLS, the web terminal: read once, pure I/O, or static.
* `internal/repl`: no command uses it.
* Third-party code: external, as section 2 says.

## 7. Plan

1. Proofs of `WalksAgree` (`Files`) for the operations on one name, and of `StatementsWhole` (`Sqlite`) for texts without comments.
2. jq's and awk's tokenizers against reference definitions.
