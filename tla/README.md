# TLA+ models of scut

This directory holds a verification project for scut: TLA+ modules translated
from its Go source, TLC configurations that model-check them on small
instances, and theorems about them that TLAPS checks for every value of the
constants. `PROJECT.json` is the index: components, runs, the source lines
behind every definition, hazards, findings and theorems.

Contents: [the system](#the-system) ·
[plan](#plan) ·
[archive store](#the-module-archive-store) ·
[checksum checkpoint](#the-checksum-database-checkpoint) ·
[remote routes](#remote-routes) ·
[lookups](#lookups) · [cache commands](#cache-commands) ·
[agent configuration](#agent-configuration-files) ·
[file updates](#file-updates) ·
[runs](#runs) · [proofs](#proofs) · [findings](#findings) ·
[not modelled](#what-is-not-modelled)

## The system

scut is a command-line helper for coding agents. Its processes are short: each
command, each agent hook and each documentation lookup is an invocation of its
own, so most of the concurrency happens *between* processes, over files in the
user's cache and configuration directories. Only the checksum checkpoint is
guarded by a lock; everything else relies on what single filesystem calls
guarantee.

The inventory below names each component, its state, its operations and what
makes it correct. Paths are under `src/`.

### Documentation retrieval (`internal/godoc`)

A lookup `scut gotools doc example.com/m/pkg.Type` resolves interpretations of
its argument, and asks a chain of sources for each: local directories, the
standard library, the build list, replacements, Go's download cache, scut's own
archive cache, and the remote routes. Whatever a remote source delivers is
verified and cached for the next invocation.

| Component | State | Operations | Interacts with | Correct when |
|---|---|---|---|---|
| module archive store (`archive_store.go`) | a directory tree per module: version directories of four files, staging directories, the `latest` alias | `Get`, `Put`, `Latest`, `SetLatest` | every lookup and cache command of every process, without a lock | a version becomes visible whole and never changes; a lookup returns the files of one archive; `latest` names a version that is there |
| cache management (`archive_manage.go`) | the same tree | `InspectCache`, `RemoveCache`, `PruneCache`, `CleanCache` | races with the store's writers and readers | a removal takes a matching `latest` along; pruning deletes only what the policy says; staging names do not leak |
| cached-archive lookups (`source_archive.go`) | none of its own | `Fetch` | the store, the verifier | what is read is verified again before it is used |
| archive integrity (`integrity.go`) | go.sum files (read only) | `Verify` | the checksum database | recorded sums win, a mismatch is terminal |
| checksum database (`checksum_database.go`) | `<config>/sumdb/<name>/latest` and the lock directory `latest.lock` | `Lookup`, `ReadConfig`, `WriteConfig` | other processes, through the file; the sumdb client of `golang.org/x/mod` | at most one process in a section under the lock; the checkpoint never goes back behind a tree somebody accepted; a lock left behind is broken |
| remote routes (`source_remote.go`, `source_proxy.go`, `goenv.go`) | the parsed GOPROXY list, the best error so far | `Fetch` | proxies, direct Git, the verifier, the store | comma advances after "not found" only, pipe after any result; nothing unverified is cached or returned; no proxy is asked for a private module |
| direct Git (`source_git.go`, `archive_git.go`, `vcs_policy.go`) | an in-memory clone | `Fetch` | go-import discovery, git, the verifier, the store | policy is checked before cloning; only a resolved commit is cached |
| Go authentication (`http_auth.go`) | headers by URL prefix, filled once | `Client.Do` | every HTTP request of the process (goroutines) | commands run once; one retry after a 4xx answer |
| source resolution (`resolver.go`, `lookup.go`, `source_*.go`, `module_selection.go`) | deferred errors, the build list loaded once | `Resolve`, `Fetch` | all sources | the first applicable source answers; a deferred error is reported by priority |
| extraction and rendering (`formatter.go`, `godoc.go`, `parser.go`, ...) | none | pure functions | | layout only |

### Agent integration

| Component | State | Operations | Interacts with | Correct when |
|---|---|---|---|---|
| agent configuration (`internal/cmd/claude/config`, `internal/cmd/codex/config`, `internal/cmd/initcmd`) | JSON files shared with the agents and the user | install, uninstall, status, init | the agent writing the same file; other scut processes | foreign settings survive; install and uninstall are idempotent and inverse; a failed step of init is reported |
| hook handlers (`internal/cmd/*/hook`) | none | format the file the agent has just written | the formatter, the agent | the file is either the old or the formatted text |
| formatting (`internal/format`, `internal/formatignore`) | the file | in place (hooks) or staged and renamed (`scut format`) | concurrent formatters | no update is lost |
| logging (`internal/logging`) | a log file, rotated by rename | append, rotate | other processes appending | no record is lost by a rotation |
| self-update (`internal/cmd/update`) | the executable | download, verify, stage, rename | other updates | the executable is the old or the new one, never in between |
| status line, doctor, mcp, version, entry points | none that is shared | reports and flag wiring | | |

### Behaviours that are hard to test

The hazards are listed line by line in `PROJECT.json`, those no property
covers included. In short:

- *Interleavings of filesystem calls.* `Get` opens the ZIP three times and each
  sidecar once, by path. `Put` writes four files and renames a directory.
  `os.RemoveAll` lists a directory once and unlinks what it listed. Any of these
  may alternate with any other, in other processes.
- *Crashes.* A killed process runs no deferred clean-up: staging directories and
  `latest.lock` stay, a checkpoint may be half replaced.
- *Check-then-act.* `SetLatest` publishes an alias after `Get` said the version
  was there; `removeMatchingLatestAlias` removes by name what it compared
  before; a stale lock is removed by name after a `Stat`.
- *Fallback and partial failure.* Routes, interpretations and installs are
  loops in which one step may fail and the next must or must not be tried.

## Plan

The order puts first what several processes share and a unit test reaches
least, and last what is sequential.

| # | Module | Models | Composes | State |
|---|---|---|---|---|
| 1 | `ArchiveStore` | `Get`, `Put`, `Latest`, `SetLatest`, `RemoveCache`, `ArchiveFetcher` for one module | implements `ImmutableStore` | checked, proved |
| 2 | `ChecksumState` | lock, `ReadConfig`, `WriteConfig`, the merge loop around them | implements `RollbackGuard` | checked, proved |
| 3 | `RemoteRoutes` | `parseProxyRoutes`, `RemoteFetcher`, `ProxyFetcher`, `GitFetcher`, archive integrity, the checksum database's own route | uses the promises of 1 and 2 | checked, proved |
| 4 | `Lookup` | `LookupResolver`, `Resolver` and its fetchers, module selection, build list, Go environment | 3 as one step | checked, proved |
| 5 | `CachePrune` | `InspectCache`, `RemoveCache`, `PruneCache`, `CleanCache` over a changing cache | the promise of 1 for the others | checked, proved |
| 6 | `AgentConfig` | install, uninstall, status, init and doctor over shared settings files | | checked, proved |
| 7 | `FileUpdates` | hook formatting, `scut format`, log rotation, self-update | | checked, proved |

Each module has a passing run, and a violation run only where the code and its
documents disagree. Every invariant a passing run checks is also a theorem.
Theorems worth proving next: `RollbackGuard` and `ImmutableStore` for processes
with removals, once the abstract specifications allow what the remarks under
Findings describe.

## The module archive store

`ImmutableStore` is what the store promises its users (decisions D-003, D-007,
D-009 and D-018 of `.agents/plans/gotools-module-cache-stack.md`): a version is
stored whole and never changes while it is stored, the first archive stored
wins, latest names a stored version, a removal takes such a latest along, and a
lookup answers with what is stored. Four variables of one line each: `stored`,
`latest`, `answer`.

`ArchiveStore` is the code, for one module path. **A step is one filesystem
call** of one process, because no lock is taken.

| State | In the code |
|---|---|
| `vdir`, `entry`, `temp`, `alias`, `aliasTemp` | the names in `M/@v`: the directory itself, version directories, `.archive-*`, `latest`, `.latest-*` |
| `file` | the four files (`zip`, `hash`, `verification`, `revision`) of each directory *inode* |
| `pc`, `job` | the call an invocation is about to make, and its arguments |
| `dir` | the inode it staged, or the directory a removal is inside of |
| `got` | what `Get` has read so far |
| `rm` | what `os.RemoveAll` has listed and not yet removed |
| `out` | the result of the operation |

Directories are inodes and not names, since a removal that has opened a
directory goes on unlinking its files after `Put` has renamed it: that is how
a directory comes to be published incomplete. An archive stands for its ZIP and for the ZIP's
h1 hash, so a sidecar that matches is one that is equal. Archives in `Pinned`
carry a Git revision. `GoSum` is the archive whose hash go.sum has for a version,
if it has one.

| Actions | Code |
|---|---|
| `Get*`, `Cancelled` | `Get`, `verifyArchiveHash`, `readOptionalRevision`, `readArchiveVerification`: one action per file opened |
| `Put*`, `Mkdir` | `Put`: staging, the four writes, checks, rename; a failed rename accepts a readable winner through `Get`; a failed sync after the rename, which leaves the entry; the deferred `RemoveAll` on every way out |
| `ReadLatest`, `SetLatest*` | `Latest`, `SetLatest` with its `Get` first |
| `Remove*` | `RemoveCache` of a version or of a module: the measuring walk, `RemoveAll` name by name and file by file, the alias read and then removed by name, the empty directory |
| `Verify`, `Answer`, `Return` | `ArchiveFetcher` verifying what `Get` returned: go.sum first, then the sidecar; the policy or the checksum database may refuse either way |
| `Crash` | the process is killed between any two calls; nothing deferred runs |

`Get` is used by four callers (lookup, first look of `Put`, after a failed
rename, `SetLatest`); `AfterGet` says where each continues.

## The checksum-database checkpoint

`RollbackGuard` is the promise (D-029): the recorded tree only grows, and
nobody believes a tree that is not recorded for the processes after it.

`ChecksumState` is the code. A client is a process with one module to verify.
Its sumdb client (a library, modelled from how it calls `ReadConfig` and
`WriteConfig`) merges signed trees in memory and writes them back until the file
is not behind. A tree is its size; all are of one append-only log. `LockMkdir`,
`LockStat`, `LockBreak` and `LockWait` are `acquireChecksumStateLock`;
`ReadConfig`, `WriteCompare`, `WriteTruncate` and `WriteAt` are the file
operations under the lock, `Unlock` the deferred removal of the directory by
name. `LockAges` is the minute after which a lock counts as stale. `Truncate`
changes the length first, so the file may be `Torn` until `WriteAt`, and stays
so if the writer is killed.

Any of these calls may fail: `LockFails` is Mkdir or the context, `ConfigFails`
what comes before the file's text changes, `WriteAborts` what comes after
(`WriteAt`, `Sync`, `Close`, the sync of the directory), and `ConfigFailsReturns`
unlocks and reports the error. `WriteConfig` has no rollback: a `WriteAt` that
fails after `Truncate`, on a full disk for instance, leaves the file torn just
as a kill does, with the writer alive. `ReadsWhole` says that there is no third
way: whoever reads a torn file reads what a killed or failed writer has left,
never what a writer is still working on. Only `os.Remove` of the lock is taken
to succeed.

## Remote routes

`RemoteRoutes` is one lookup that no local source could answer, on its way
through GOPROXY (D-022, D-023, D-030, D-031). It is sequential: what a lookup
cannot control (answers of proxies, repositories and the checksum database,
failures of the cache, cancellation) is chosen by the environment at each step,
and the initial state chooses the user's policy and request.

| State | In the code |
|---|---|
| `query` | `ModuleDownloadPolicy`, the requested version, the build list's selection, go.sum |
| `routes`, `at` | the parsed route list and the loop index of `RemoteFetcher.Fetch` |
| `todo`, `first` | the module path candidates one proxy has not been asked for yet |
| `cur` | the module, version and archive in hand, and whether it was verified |
| `tried`, `best` | the errors of earlier routes (history), the error that would be reported |
| `stored`, `latest` | what reached the archive store |
| `asked`, `discovered`, `sums`, `evidence` | history: the modules each route was asked for, the routes on whose behalf go-import discovery asked a host, what was asked of the checksum database and through which base, which version a proxy reported as latest |

| Actions | Code |
|---|---|
| `Parse`, `RouteFails`, `Cancelled`, `Off` | `parseProxyRoutes` and the loop of `RemoteFetcher.Fetch` |
| `ProxyRoute*`, `ProxyVersion`, `ProxyZip`, `ProxyExhausted`, `ProxyPut`, `ProxySetLatest`, `ProxyExtract` | `ProxyFetcher.Fetch` and `fetchSelected` |
| `Verify`, `Database`, `DatabaseFails` | `ModuleArchiveVerifier.Verify`, `initBase` and the checksum lookup |
| `Git*` | `GitFetcher.Fetch`: checks before the clone, the clone and its SSH retry, archive, verification, extraction, caching |

An archive stands for a ZIP and its hash, `Authentic` for the one the checksum
database has. A GOPRIVATE-like pattern is the set of module paths it matches.
The caching steps are the promise of `ImmutableStore`: the first archive wins.
A base of the checksum database that answers 404 makes an error that is "not
found" (`checksumHTTPError`); whether it is one still after the sumdb client has
passed it on is that library's business, so `DatabaseFails` may be either.

`PrivacyRespected` says who learns a module's path, and it is weaker than
"private modules stay off proxies". GONOPROXY decides whom a *route* asks: no
proxy is asked for a module it matches, and the implicit route asks for no other.
GONOSUMDB decides what the *database* is asked, and GONOPROXY has no part in it:
where no URL is configured for the database, the question goes through the first
proxy of GOPROXY that supports it, so that this proxy learns of a module that
is private and not exempt (remarks under Findings). Discovery asks the host a
path begins with whether the path is private or not; the property says on
whose behalf it does not.

A tag or branch that is not a canonical version is read from Git without
verification; the documents promise verification for canonical archives and
reject only unversioned checkouts, so `OnlyVerified` leaves this case out.

## Lookups

`Lookup` is `scut gotools doc` before anything is fetched from the network: how
its arguments are read, which source answers, and which error is reported. It
is sequential within an invocation; what makes it hard is the product of
interpretations, sources, versions, environments and errors.

A *world* is what is on disk and on the network (own module, GOROOT, go.mod,
build list, Go's module cache, checksum databases), a *request* one invocation
with its environment, go.sum and `--version`. A path is a sequence of elements,
an element a sequence of identifiers between periods, because the code cuts
arguments at slashes and at periods. A second lookup of the same user may
follow over the same scut cache under another environment (`NextLookup`).

| State | In the code |
|---|---|
| `cands`, `at`, `matches`, `importPath`, `excluded` | `lookupCandidates`, the loops of `LookupResolver.Resolve` over interpretations and over the packages one may name and that are still to be tried, the package being asked for |
| `absent`, `symbolErr`, `literalErr` | the errors `Resolve` puts aside |
| `route`, `source` | the chain of fetchers of `Resolver.Fetch`, what was fetched |
| `buildList` | `go list -m`, read once per invocation under a limit of two seconds |
| `store`, `latest` | scut's cache with the provenance recorded for each archive |

| Actions and operators | Code |
|---|---|
| `ReadArguments`, `OneArg`, `TwoArgs` | `lookupCandidates` |
| `TakeCandidate`, `IndexUnreadable`, `TakePackage`, `LeaveCandidate`, `Failed`, `GiveUp` | `LookupResolver.Resolve`, `LocalPackageIndex` |
| `ReadBuildList`, `Listed`, `Required`, `Select` | `BuildListFetcher`, `ModuleSelectorChain` |
| `Fetch` with `LocalAnswer`, `StdlibAnswer`, `BuildListAnswer`, `ReplaceAnswer`, `GoCacheAnswer`, `ScutCacheAnswer` | one call of each fetcher |
| `RemoteMisses`, `RemoteFails`, `RemoteDelivers` | `RemoteFetcher`, with the outcomes `RemoteRoutes` has in detail |
| `Voucher`, `Satisfies` | `ModuleArchiveVerifier`, `archiveVerificationSatisfiesPolicy` |
| `Setting` | the precedence of process, user and GOROOT environment |
| `Excluded`, `NotParsed`, `Found`, `SymbolMissing` | what is done with a source that was found |

`SelectionHonoured` leaves out packages of modules selected with a local
directory: where that directory lacks the package the caches are asked under
the module's own path, which is what the code means. Two readings of the code
that no document contradicts: the `Old.Version` of a replace directive is not
looked at, and `ReplaceSourceFetcher` matches by prefix.

## Cache commands

`CachePrune` runs one command (list, verify, remove, clean or prune) step by
step over a cache of several modules, while other invocations stage, publish,
record and remove. A version directory is its size, newest time and state; what
happens below it, file by file, is in `ArchiveStore`.

| State | In the code |
|---|---|
| `entry`, `staged`, `alias`, `stray` | version directories, `.archive-*`, `latest` and unexpected files in each `@v` |
| `mods`, `todo` | what `filepath.WalkDir` or `ReadDir` listed and has not visited |
| `listed`, `problems`, `at`, `named`, `measured`, `pass` | `ModuleCacheInventory` as far as it has been filled, the module the inspection is in, and which of a prune's two inspections it is |
| `queue`, `removal`, `total` | the entries to remove, `ModuleCacheRemoval` of one and of all |
| `before`, `touched` | history: the cache at the start, and what others changed since |

| Actions | Code |
|---|---|
| `Measure*`, `Measured` | `directoryMetrics`, `cacheRemovalMetrics` |
| `ListVersions`, `ReadLatestAlias`, `InspectEntry`, `InspectFails`, `EndOfModule`, `Inspected` | `InspectCache`, and what list and verify report |
| `SelectEntries`, `NextEntry`, `AllRemoved` | `PruneCache` |
| `MatchAliasSize`, `AliasVanishes`, `EmptyEntry`, `RemoveEntry`, `MatchAlias`, `DropAlias` | `RemoveCache` of a version |
| `WipeModule`, `WipeItem`, `Wiped` | `os.RemoveAll` of a module or of the root |
| `Other*`, `Tick` | other invocations and the clock |

What the properties leave open, and the code does: an inspection that lists a
directory before a version appears and reads `latest` after it may report an
alias to a missing version that was never missing; a removal killed half way
touches the directory, so that it counts as young.

## Agent configuration files

`AgentConfig` has the two files of one scope and any number of commands on
them. Reading, truncating and writing are steps of their own, since
`afero.WriteFile` opens with `O_TRUNC` and nothing is locked; the user or the
agent may edit in between, and a command may be killed or fail while it writes.

| State | In the code |
|---|---|
| `file`, `home` | `settings.json` and `hooks.json`, the directories they are in |
| `host` | which paths refuse a write, which binaries are on the path, `config.toml` |
| `pc`, `command`, `agents`, `checks` | where a command is and which agents it still has to deal with |
| `plan` | the model it has merged in memory |
| `out`, `written` | what it reported, which files it opened for writing |

| Actions and operators | Code |
|---|---|
| `Owns`, `IsScutGroup`, `Foreign` | `ownership.go` of both agents |
| `Unmarshal` | what the typed models keep of a file |
| `Merge`, `Installed`, `Uninstalled`, `Refused` | `install.go`, `uninstall.go` |
| `Start`, `Preflight`, `Preflighted` | `initcmd`: detection and `preflightWritable` |
| `ReadFails`, `NothingToRemove`, `Refuse`, `DryRun`, `MergeFile` | `readSettings`, `readHooksFile` and the merge |
| `Truncate`, `Write`, `WriteFails`, `Crash` | `writeSettings`, `writeHooksFile` |
| `ShowStatus`, `Diagnose` | `status.go`, `doctor.go` |

Observed on the way, and left open by the properties: an edit between a
command's read and its write is lost (the properties speak of what was there at
the start); a killed write leaves an empty or torn file that every later
command refuses; preflight looks only at whether a file can be written, so a
Codex file that does not parse, or a foreign status line, still leaves a
partial init; Claude's ownership rule takes any command that begins with
`scut`, a user's `scut format` included; Codex's merge keeps scut groups that
have another matcher; doctor counts commands in mixed groups and at events that
are not registered, status does not.

## File updates

`FileUpdates` has the processes that rewrite a user's files: the post-tool-use
hooks write in place, `scut format` and `scut update` stage a temporary file
and rename it. Names and inodes are kept apart, because a hook that has a file
open goes on writing to it after `scut format` has replaced the name, and
because a link names another name. Hooks and commands share one log.

| State | In the code |
|---|---|
| `dir`, `disk`, `temps` | names, the text of each inode, temporary files |
| `pc`, `command`, `todo`, `plan`, `handle`, `changed` | a process: what it does next, the files left, the text to write, the open file, what it reports |
| `log`, `rotated`, `records`, `logger` | the current log, the rotated ones by second, what is in each, who has which open |
| `edited`, `raced`, `broken`, `settled`, `clashes` | history for the properties |

| Actions | Code |
|---|---|
| `StatLog`, `Rotate`, `OpenLog`, `Return`, `Clean` | `logging.Open`, `rotateIfNeeded`, `logging clean` |
| `Skip`, `LookFails`, `Select`, `ReadMissing`, `Unchanged`, `Report`, `Read` | the hook's `Run` and `formatFiles`, with ignore files |
| `Truncate`, `Write`, `WriteFails` | a hook's in-place write |
| `Stage`, `Fill`, `StageFails`, `Rename` | `writeFileAtomic`, the replacement of the executable |
| `Fetch` | `scut update`: decision, download, checksum |
| `Crash`, `Edit`, `Delete`, `Tick` | kills, the agent or an editor, the clock |

The excuses in the properties are the code's own limits: an edit or deletion
inside a process's window between read and write is overwritten or undone
(`raced`), a failed or killed in-place write leaves a cut file (`broken`), and
two rotations in one second lose the first rotated log (`clashes`), because its
name has a resolution of one second. Of two processes that both found the log
too large the second renames the fresh, small one, although the comment says
small logs are left alone (`logging.go:92`); if there is no log left to rename it goes on without one.

## Runs

| Run | Instance | States | Shows |
|---|---|---|---|
| `archive_lookups` | 2 processes, 2 versions (one with a sum in go.sum), 2 archives (one pinned), 3 inodes, crashes | 905 k | with nothing removed: `EntriesWhole`, `AliasResolves`, `LookupWhole`, and the store implements `ImmutableStore` (`KeepsPromise`) |
| `archive_commands` | a process that looks up, publishes and sets latest against one that publishes and removes versions and the module; 1 version, 2 archives | 905 k | `LookupVerified`: bytes returned are those go.sum or the sidecar vouches for, whatever is removed underneath; `NeverMixed`: no directory mixes two archives; `NoDebris`: staging names never outlive their process's operation |
| `checksum_clients` | 2 clients, one of which may be killed, every file operation failing, trees up to 3 | 11 k | `Exclusive`, `ReadsWhole`, `GuardsRollback`, and with fairness `Terminates` |
| `checksum_break` | 3 clients, one killed, trees up to 2 | violation | two waiters break a stale lock in turn (`AcceptedStaysRecorded`) |
| `remote_routes` | 214 combinations of GOPROXY, policy, go.sum and request, private modules that are not exempt included; 3 modules, 2 versions, 2 archives | 496 k | which route is asked what (`FallbackRule`, `PrivacyRespected`), what is cached and returned (`OnlyVerified`, `LatestIsEvidence`), which error is reported (`ErrorByRank`) |
| `lookups` | 6 worlds, 16 shapes of arguments, 5 environments, 3 states of go.sum, with and without `--version` and network; up to 2 lookups | 81 k | which interpretation, version and archive answers (`NonePassedOver`, `SelectionHonoured`, `AnswerVouched`), when the network is asked (`NetworkLast`) and that no failure is reported as not found (`FailureReported`) |
| `lookup_excluded` | the same, one lookup | violation | an excluded package reported as not found (`ExcludedReported`) |
| `cache_prune` | 15 commands on 5 caches, 2 modules, 2 versions, 2 steps of others | 503 k | a prune takes exactly what its policy says (`AgeExact`, `SizeExact`), reports what it freed (`AccountingExact`), latest goes exactly with its version (`LatestFollows`), verify misses nothing (`VerifySound`) |
| `cache_clean` | clean alone, the same caches | violation | clean reports success and removes nothing (`CleanEmpties`) |
| `agent_config` | 2 commands of 13, 4 pairs of files, 3 hosts, 1 edit, 1 crash | 643 k | what is the user's stays (`ForeignSurvives`), rerunning changes nothing (`Idempotent`), writers, status and doctor agree (`WritersSeen`), init stops before it writes (`PreflightGuards`) |
| `agent_foreign` | 2 installs next to a user's hook | violation | members of a user's hook that scut's model lacks are dropped (`ForeignPreserved`) |
| `file_updates` | 2 processes of 13 commands, 3 files, a link, the executable; 2 edits, 1 fault, 2 seconds | 987 k | a formatted file has the text of its last edit (`FormOfLastEdit`), what is renamed into place is whole (`Whole`), log records survive rotation (`RecordsKept`) |

**Bounds.** Two processes are what each race found here needs, and the proofs
cover any number where they apply. Three inodes let a published entry and two
staged ones exist at once, so that each process can lose a rename. Two archives
are needed for "mixed" and "first wins" to mean something, two versions for an
alias that moves. `MaxDebris` bounds the names left by crashes: 1 in
`archive_lookups`, so that stale staging directories are there while others
publish; 0 in `archive_commands`, where a leak must not be excused by a crash
(processes may still be killed where they hold nothing). `MaxTree = 3` gives two
writers that differ from the tree on disk. Symmetry is used in runs that check
no liveness, on inodes always, on processes only where their roles
are the same and of versions nowhere, as go.sum tells them apart.

In `remote_routes` two routes after the implicit one are enough for every
decision of the loop, since it keeps nothing but the index and the best error;
two candidates give discovery order and a retry with the shorter path, and the
fork gives a replacement whose path is not a candidate. The recorded sum is that
of one module version, once as delivered and once not.

In `lookups` each world adds something the others lack (a cached version beside
the selected one, a replacement by path, a corrupt cache entry, an unreadable
directory, GOROOT packages with the same suffix), and two lookups are enough
for a policy to change between storing and reading. `MaxOthers = 2` lets
another invocation finish a publication or a removal inside one walk, or do half of
two; sizes 3 and 2 and limits between their sums put every boundary of the size
policy inside the run. `MaxEdits`, `MaxCrashes`, `MaxFaults` and `MaxSeconds`
bound what the world does: one crash or fault leaves a file for the other
process to meet, two edits give a file that changed again after it was
formatted, one tick separates two rotations. `MaxNames` is the number of names the
longest command has. An inode is named by who made it, for which of its names and
in which turn (`User` stands for the agent and the user), so that any number of
processes never runs out of inodes. `MaxRecords = 0` makes every log
with a record too large, so that both processes rotate. The three files of
`file_updates` differ in their role (touched, ignored, unreadable ignore file);
only the first is edited (`Touched`).

**Deadlock.** It is checked in the archive runs (a process can always start
another operation). Checksum clients, lookups, cache commands, configuration
commands and file updates end, so their runs do not check it.

**Fairness.** `Terminates` assumes weak fairness of `Progress(c)`, what a live
client does when nobody cancels it: the operating system schedules live
processes. Weak fairness is enough because a waiter's loop is always enabled.
`LockAges` is weakly fair because it is the clock. Nothing is assumed of
`Begin` and `Failure` (`Kill`, `LockFails`, `LookupFails`, `ConfigFails`,
`WriteAborts`); a call that has failed does return (`ConfigFailsReturns`). In the model a live holder
is prompt (`SlowHolders = FALSE`): sections under the lock are a handful of
local file operations, and a minute is what the code itself allows them.

## Proofs

TLAPS proves these for every value of the constants (any number of processes,
versions, archives, inodes and trees; GOPROXY lists and import paths of any length;
any number of commands and hooks).

| Module | Theorem | Says | Under |
|---|---|---|---|
| `ArchiveStoreProofs` | `TypeCorrect` | `Spec => []TypeOK` | |
| | `ArchivesNeverMix` | `Spec => []NeverMixed` | |
| | `LookupsVouched` | `Spec => []LookupVerified` | |
| | `NothingLeftBehind` | `Spec => []NoDebris` | |
| `ArchiveLookupsProofs` | `PublicationWhole` | `Spec => []EntriesWhole` | `NoRemovals` |
| | `AliasAlwaysResolves` | `Spec => []AliasResolves` | `NoRemovals` |
| | `LookupsWhole` | `Spec => []LookupWhole` | `NoRemovals` |
| | `CacheKeepsPromise` | `Spec => KeepsPromise` | `NoRemovals` |
| `ChecksumStateProofs` | `TypeCorrect` | `Spec => []TypeOK` | |
| | `Excludes` | `Exclusive` always | `[]Prompt` |
| | `WholeReads` | `ReadsWhole` always | `[]Prompt` |
| | `RollbackGuarded` | `GuardsRollback` | `[]Prompt` |
| | `PromptBehaviours` | `Spec => []Prompt` | `~SlowHolders`, and no client is killed or there are at most two |
| `RemoteRoutesProofs` | `TypeCorrect` | `Spec => []TypeOK` | |
| | `FollowsFallbackRule` | `Spec => []FallbackRule` | |
| | `CachesOnlyVerified` | `Spec => []OnlyVerified` | |
| | `KeepsPrivate` | `Spec => []PrivacyRespected` | |
| | `LatestHasEvidence` | `Spec => []LatestIsEvidence` | |
| | `ReportsByRank` | `Spec => []ErrorByRank` | |
| `LookupProofs` | `AnswersAreVouched` | `Spec => []AnswerVouched` | |
| | `SelectionsAreHonoured` | `Spec => []SelectionHonoured` | |
| | `FailuresAreReported` | `Spec => []FailureReported` | |
| | `NetworkIsLast` | `Spec => NetworkLast` | |
| | `LookupsTyped` | `Spec => []TypeOK` | |
| | `DocumentedIsFound` | `Spec => []NonePassedOver` | |
| `CachePruneProofs` | `CommandsTyped` | `Spec => []TypeOK` | |
| | `VerificationSound` | `Spec => []VerifySound` | |
| | `PruneByAge` | `Spec => []AgeExact` | |
| | `LatestGoesWithItsVersion` | `Spec => []LatestFollows` | |
| | `RemovalAccounted` | `Spec => []AccountingExact` | |
| | `PruneBySize` | `Spec => []SizeExact` | |
| | `PruneTakesEntriesOnly` | `Spec => []EntriesOnly` | |
| `AgentConfigProofs` | `InitPreflightsFirst` | `Spec => []PreflightGuards` | |
| | `FilesDoNotGrow` | `Spec => []TypeOK` | |
| | `UsersSettingsSurvive` | `Spec => []ForeignSurvives` | |
| | `RerunsChangeNothing` | `Spec => []Idempotent` | |
| | `WhatIsWrittenIsSeen` | `Spec => []WritersSeen` | |
| `FileUpdatesProofs` | `RecordsSurviveRotation` | `Spec => []RecordsKept` | |
| | `TemporariesApart` | `Spec => []TypeOK` | |
| | `FilesStayWhole` | `Spec => []Whole` | |
| | `FormattersConverge` | `Spec => []FormOfLastEdit` | |

**Assumptions.** `ArchiveStoreAssumption`, `ChecksumStateAssumption` and
`RemoteRoutesAssumption` only say that the special values (`Absent`, `NoInode`,
`NoVersion`, `Torn`, `NoClient`) are not ordinary ones and give the constants
their types; TLC evaluates them. `LookupAssumption` says that GOROOT has no
package with a relative import path, that Go's module cache holds archives, that
an argument and its path elements are not the empty sequence, and that a
database name is none of the model's own names for the other kinds of provenance
(the code keeps them apart by a prefix). It also says that the checksum database
of an environment exists or is off. `CachePruneAssumption` says that modules and
versions are finitely many, that a directory has a size and a place in the order
of the listing, and what the command line lets through: `clean` and `prune` take
no module, `remove` takes one, a version comes with a module.
`AgentConfigAssumption` says that commands are those of `Op` and their agents
are agents, that no hook event is called `status-line`, that what is installed
by default can be installed, and that a file which parses has the three members
and lists of groups. `FileUpdatesAssumption` says that a link leads to a file
that is no link, that nobody formats the executable or updates anything else,
that names, inodes, processes and the special values are apart, that a command
has at most `MaxNames` names, and that only hooks open a log (`OpenLogger` is
called in the `claude` and `codex` command groups alone).

`NoRemovals` says that no process has a removal among its operations; the
remarks under Findings say how the promise fails without it. `Prompt` says what
breaking a lock by its name relies on: only the lock of a killed client gets a
minute old, and a live client that has decided to break a lock still finds it
that old, that is, nobody has broken it before and made a new one. It is not an
assumption about constants but about behaviours, and `PromptBehaviours` says
which constants give it: if live holders are never suspended for a minute, every
behaviour is prompt when nobody is killed, and with two clients also when one
is. With a third client it fails, as `checksum_break` shows. `checksum_clients`
is an instance of the case with two.

**Archive store.** `TypeOK` is not inductive: that a step reads `file[dir[p]]`
makes sense only if `dir[p]` is an inode at that label. `TypeInv` adds `Fits`,
which ties label, operation and held directory together. `NeverMixed` needs
`MixInv`: a staging directory belongs to one `Put` and holds only that archive's
files, and no two `Put`s stage the same inode (an inode with a handle is never
handed out). Removals only clear files, so they cannot mix. `LookupVerified`
holds whatever is removed underneath, because of what `Get` has *read* and not
of what is there: `VouchInv` says that a process past the ZIP has read an
archive, and that a lookup that succeeded compared go.sum or the sidecar it has
read with those bytes. For `NoDebris`, `DebrisInv` says who owns a temporary name: a `Put` its
staging directory and a `SetLatest` its staged alias, never the same inode. If
no crash may leave a name behind (`MaxDebris = 0`), every such name has an
owner, and an owner lets go only of a directory whose name is gone.

`LookupInv` is the invariant behind the refinement. `StageWhole` follows the
writes of `Put` label by label, so that a directory is complete when it is
renamed; `Own` and `Apart` say that staged directories are private and not
published, so that no later write touches an entry; `ReadsSound` says that an
entry which `Get` has seen is there and that what was read is still what a read
would give. The refinement follows step by step: `PutRename` is `Store`,
`SetLatestRename` is `RecordLatest` (whether the sync after them fails or not), a
`Verify` that succeeds is `Answer`, the start of a lookup
or a new operation is `Forget`, and every other step stutters.

**Checksum checkpoint.** `LockInv`: a live client in a section under the lock
owns it; together with `Prompt`, a lock that is broken is that of a killed
client. `FileInv` relates the file to the writer's progress: it is torn only
under a writer or after one was killed or failed (`Tears`), unchanged between
compare and truncate, the writer's tree is ahead of what it compared (`Writes`),
and whoever was killed or failed while replacing the file had compared with no
longer a tree than the recorded one (`Replaces`). `TrustInv`: what a client has read or accepted is
recorded. The refinement maps `WriteAt`, and a
`WriteAborts` that has written everything, to `Record`, a client's end to `Accept`.

**Remote routes.** `TypeInv` adds to `TypeOK` that a step which holds an archive
or a version really holds one, and that nothing is held before the list is
parsed. `RouteInv` says which kind of route a step belongs to. On these two rest
four independent invariants. `TrustInv`: what a step relies on the verifier for
has been verified, so what `Put` stores and what `Extract` reads is trusted; the
one exception is a floating revision of an exempt module. `PrivacyInv`: the
candidates of a route never include a module that route may not be asked about,
and a question to the database is about a module the verifier had to ask for.
`EvidenceInv`: a floating version in hand under a proxy was reported by it.
`OrderInv` relates the errors so far to the separators of the *parsed* routes;
`FallbackRule` speaks of the *configured* list, and the lemmas `ListedShape` and
`RoutesShape` bridge the two: the parsed list is the configured one up to its
first terminal entry, with at most one implicit route in front. `BestInv` states
what the single kept error is among all errors so far. In each proof the actions
that end a route go through one lemma (`OrderFails`, `BestFails`, ...).

**Lookups.** `Cleared` states what a fetcher that has been passed did not have:
when the chain has come to the network, no earlier fetcher had the package, and
`NetworkLast` follows. `AnswerInv` has two parts. `StoreInv`: the provenance
recorded with an archive in scut's cache is true (a `go.sum` had the hash, or
the database named has it), though what an earlier environment was allowed to
skip may be recorded too. `SourceInv`: a source in hand may be used, that is,
under *this* environment its archive is vouched for and, where a version is
selected, comes from it. The lemma `AnswerIsValid` shows that for the answer of
every fetcher; `FirstExists` (the well-ordering of the naturals) is needed
because the walks over module paths take the first answer that decides.
`FailInv` follows the errors put aside: as long as a failure is not reported
there is an error put aside to report. It needs the shape of the interpretations
(`OneArgShape`): of several, only the first names no symbol, so a missing symbol
cannot end the search early.

The order of interpretations is `Ranked`: each further one cuts the argument one
period later. `Search` then says, for packages GOROOT documents, that no
interpretation behind the current one is documented, and that while the current
one is tried its documenting package is still to come or being asked for, in the
local or the standard source, so nothing else can answer before.

**Cache commands.** Other invocations change the cache all the time, so every
invariant is about what nobody else has touched, and `ControlInv` ties the label
to the command, the queue and the pass. `Kept`: what an inspection has not got
to is as it was at the start. `Noted`: what an inspection has passed is listed
or among its problems; with `Clear` (a verification succeeds without problems)
this is `VerifySound`. `DueOnly`, `AgePositive` and `OldGone` are the two halves
of `AgeExact`: an entry that is queued or gone was due, and after the selection
an entry that was old at the start is gone or still queued. `Follows` is
`LatestFollows` with the steps in between: a version and its alias are there
together, or the version is gone and the removal is about to drop the alias
(`ClearedInv`), or the whole module is being wiped.

`AccountingExact` and `SizeExact` compare sums of sizes, so they rest on a theory
of sums over finite sets, which the library does not have. `MapThenSumSet` takes
the elements of a set in the order of `CHOOSE`; `Adds` is its defining equation
as a function on the subsets, and `SubsetsAreAll`, an induction on the subsets of
a finite set stated for a set of subsets instead of an operator, gives what is
needed: the order does not matter (`SumTake`), sums add and split (`SumAdd`,
`SumSplit`), a part is no more than the whole (`SumPart`), and one changed
summand changes the sum by as much (`SumChange`). `TotalIs` and `ListedIs` carry
this over to the two sums of the model.

Both results are about a cache nobody else changes (`Quiet`). `Books` balances
it at every label: what was there at the start is what is there and what the
total counts (`Balance`), also between the two halves of the removal of an entry,
when `latest` may still be there though it is counted (`Held`). For that the
removal in flight must be known (`Flight`), a walk must have counted what it has
passed (`Walked`), and what is wiped must be what was counted (`WipeBooks`);
`Counted` does the same for the number of entries. `RemovalAccounted` reads the
balance at the end.

For a prune `PruneBooks` adds that what is left is as it was (`AsBefore`), that
the total is the sum of what each missing entry had at the start, alias included
(`Freed`, which needs `Follows`), that the inspection has listed the entries as
they were and measured all (`Listings`, `Sized`), and what was chosen
(`Choice`): an entry that is taken is old or `Over`, one that is not taken is not
`Over`, where `Over(e)` says that the cache does not fit even without all that
is older than `e`. The code computes a running size instead; `OverSelected`
shows that the two agree, because what the age policy takes is older than what
it leaves. `SizeExact` follows. What is `Over` is closed towards older entries
(`OverDown`), so nothing older than a taken entry stays. If the second look finds
the cache too large and an entry is left, take the oldest one (`Oldest`): all
older ones are gone, so by `Balance` and `Freed` the cache without them is what
was measured, and the entry would be `Over`. And with the last entry taken the
cache would not fit, because all other missing entries are older than it.

**Agent configuration.** `PreflightInv`: as long as an `init` is in its
preflight, every target it may not write is among those still to be looked at;
after the preflight there is none, or the command is a dry run and stops before
it opens a file. The lemma `InOrderLists` says that the preflight visits every
agent asked for.

The other four rest on a theory of the merges. `Foreign` is a walk along a list
of groups; `WalkBounded` and `WalksAgree` say how long its result is and that
two walks over the same foreign groups agree, by induction over the position,
stated for a set of naturals (`NatsAreAll`) because the library's induction
theorem takes an operator. From these follow what Claude's merge and Codex's two
merges do to one event (`MergeEvent`): the foreign groups stay in order, the
list grows at most once, the group is found again, and merging twice is merging
once. Then `KeptInv` says of the commands that every file is `Sound` (if a
command can start from it, it is a model that keeps the foreign groups and keys
of the start and has grown at most by scut's own group) and every plan is
`Derived` from such a model by a merge that was not refused. Files are written
by several processes at once, but what lands in a file is somebody's plan,
nothing, or a mixture that does not parse; an edit starts from what parses.
`ForeignSurvives` and the bound in `TypeOK` follow from `Sound`, `Idempotent`
and `WritersSeen` from `Derived`.

**File updates.** *Log.* `LogInv`: unless a rotation clashed, a log that is open
or has records has a name. A rename keeps that (the log moves with its records
and its writers to a free name), and opening adds the file under the name `log`
only when nothing is there. A hook records when it ends, so a hook that has
ended with a log left its record in that log.

*Files.* `FileInv` adds what each process is doing with which names (`Turns`),
and `Bindings`: an inode is only ever bound to the name it was made for, a
hook's handle is of the file it deals with, a temporary name belongs to the one
process that is filling or renaming it (or was killed then), and an inode that
is still to be made is nowhere in use. On it rest two more. `WholeInv`: what a
process is going to write is derived from a text somebody wrote and not from a
cut one, unless a hook writes that file in place. `FormInv` is about files no
fault or race concerns: their text is that of the last edit, formatted if a
formatter has settled it, or it is being written by a hook whose plan is the
formatted last edit; and a process between its read and its write still has the
last edit in hand.

**Model-checked only.** `Terminates` stays with TLC: liveness is beyond the prover.
Nothing is claimed of the checksum checkpoint in behaviours that are not
`Prompt` (`checksum_break` shows that little holds there), nor of the archive
store's `EntriesWhole`, `AliasResolves` and `KeepsPromise` under removals, which
break them (remarks under Findings).

## Findings

1. *A stale lock is broken twice* (`checksum_database.go:350`). Both breakers
   enter, and the smaller tree replaces the larger one that was accepted.
2. *An excluded package is reported as not found* (`lookup.go:130`). Asked for
   `path/pkg.Sym`, the first interpretation takes `pkg.Sym` for a package, which
   a cached module does not have; that absence outranks the exclusion the second
   one meets.
3. *Clean succeeds and removes nothing* (`archive_manage.go:475`). A file that
   goes away while the cache is measured is taken for a missing cache.
   `RemoveCache` reports a module as not found for the same reason.
4. *A user's hook loses members* (`settings.go:28`). The Claude model has no
   place for a hook's members it does not name, and any install or uninstall
   writes the hook back without them. The Codex model keeps them.

Remarks, seen in the models and without a run of their own:

- A module removal unlinks files inside the staging directory of a running
  `Put`, whose rename then publishes the rest (`archive_manage.go:419`;
  `gotools.md:124` calls publication atomic). The next reader reports the entry
  as incomplete; it is never taken for whole (`LookupVerified`).
- `SetLatest` may publish an alias for a version that was removed, with its
  alias, after it was checked (`archive_store.go:197`; `gotools.md:173`).
- With GONOPROXY or GOPRIVATE set, the implicit route comes before
  `GOPROXY=off`, and its "not found" is the error kept (`source_remote.go:161`;
  `gotools.md:76`).
- A go.sum mismatch is not terminal behind a pipe (`source_remote.go:164`;
  `gotools.md:101`): the next proxy is asked. Nothing unverified is used.
- A torn checkpoint is never repaired (`checksum_database.go:281`). One failed
  `WriteAt` or kill after the truncation leaves it, and every later lookup that
  needs the database fails until the file is removed by hand.
- A module that GONOPROXY matches and GONOSUMDB does not is named to a proxy of
  GOPROXY after all, as the way to the checksum database
  (`checksum_database.go:154`, where `initBase` skips the implicit route).
  `gotools.md:80` says that such a module "is not sent to a configured proxy";
  with GOPRIVATE, which sets both, it is not. A direct or proxy route starts
  go-import discovery for a private path before it looks at GONOPROXY
  (`source_proxy.go:137`, `source_git.go:158`), while D-023 has the match before
  remote access; the host asked is the one in the path.
- `logging clean --older-than` is documented in `usage/logging.md`; the flag is
  `--days`.

## What is not modelled

- *Data.* ZIP structure, hash computation, path escaping, signed notes and the
  text of errors: an archive is a model value, a tree is its size.
- *The filesystem below POSIX.* Calls are atomic and take effect in order; loss
  of unsynced data in a power failure is not modelled, nor are permissions. The
  modes the code sets are left out.
- *One module path.* Paths of different modules share parent directories only;
  the nested-module case of `RemoveCache` is left out, as is the removal of empty
  parent directories.
- *Remote details.* URL syntax, what go-import discovery answers, GOVCS rules, repository
  layout and the Go environment are outcomes or sets; a `file://` proxy answers
  like an HTTP one. A build-list
  selection always has a version (the main module and directory replacements
  have a directory and are answered locally).
- *An archive that does not match its own verification.* `Put` refuses it at
  once; its callers verify first.
- *Go authentication.* Credentials are headers chosen by a longest-prefix match
  over strings; the one piece of state is a `sync.Once` and a map under a mutex
  within one process. The hazard it has (the first request's cancellation) is
  listed.
- *Lookups.* Attempts and wording, build tags from GOFLAGS, checksums from
  go.work; a fetcher's file operations are one step, since `ArchiveStore` has
  them.
- *Cache commands.* Symlinks below the root, validation of the root, empty `@v`
  directories, parsing of sizes (and its float rounding near 2^63), tables.
- *Configuration.* Which file a scope stands for, several scopes at once, the
  printed tables.
- *File updates.* What a formatter makes of a text and whether a pattern matches
  are parameters; links of more than one hop; how the executable was installed
  (`script`) and which release is the latest; the text of log records and the
  cutoff of `logging clean` in days.
- Components with nothing to check: rendering, hook payload types, the status
  line (goroutines that fill disjoint fields), mcp (a library's proxy), version,
  the development loop's task runner, documentation and packaging.
  `PROJECT.json` gives the reason for each.
