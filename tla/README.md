# Formal models of clusterstatus

TLA+ models of the concurrent parts of `dgruber/clusterstatus`, with TLC runs on
small instances and TLAPS proofs for every instance size.

## The system

`clusterstatus` serves DRMAA2 job and cluster information over HTTP and ships
a client, `uc`. The repository has these parts:

| Part | Source | What it does |
|---|---|---|
| Scheduler | `src/cmd/uc/scheduler.go` | `uc` picks a cluster to submit to. It fetches every cluster's load concurrently (`getAllLoadValues` / `getClusterLoad`, joined by a `sync.WaitGroup`). Then one of three policies selects a cluster: probabilistic, least-loaded or random. |
| Inception | `src/unnamed/part_003` | The "inception" proxy answers for a set of clusters. `GetJobInfosByFilter` fans out one goroutine per configured cluster. Each goroutine appends the peer's job infos to a shared slice under a mutex, and the call returns after `Wait`. `GetAllMachines`/`Queues`/`Categories` ask the clusters one after the other. `GetJobInfo` routes `id@cluster` to one cluster. |
| Process tracker | `src/vendor/.../simpletracker/os.go` | `StartProcess` starts a job as an OS process. It applies the job's environment overlay to the process-wide environment, starts the child, and restores the environment. |
| DRMAA2 binding | `src/unnamed/part_000` | The cgo binding for the C DRMAA2 library: sessions, jobs, array jobs and state conversions. The C library and the DRM behind it are not in the repository. |
| CLI | `src/unnamed/part_001`, `part_002` | Flag parsing, HTTP requests and output formatting. |
| Other | `proxy_test.go`, `GoDRMAA2Interface.txt`, `Gopkg.toml` | A test suite, a godoc listing and a dependency manifest. |

The scheduler and inception each run inside one `uc`/proxy process and talk to
the cluster proxies over HTTP. The process tracker runs inside a cluster proxy.
None of them shares state with the others, so each is modelled on its own.

## Modules

- **`LoadSelection`**: the pure selection algorithms of `scheduler.go`.
  - Loads are integers in units of `1/Scale`, and a weight is `Scale - load`. This is `int64((1.0 - v) * 10000)` with `Scale` for 10000.
  - `Likelyhood` is the cumulative-sum array as a recursive function.
  - `ProbDraws` is the range of `rand.Int63n(total - 1)`, and `ProbPick` is the first `k` with `likelyhood[k] > draw`.
  - `ProbPanics` is the `Int63n(0)` case.
  - `MinLoad` is `minLoad`'s scan with its strict `<`.
- **`MCLoadSelection`**: enumerates every load vector of 1 to `MaxClusters` clusters as the initial state. It checks the operators against reference definitions.
- **`Scheduler`**: one `SelectCluster` decision after another.
  - `GetAllLoadValues` allocates the zeroed slice, calls `Add(N)` and launches the fetchers.
  - `GetClusterLoad(i)` models one fetcher with three outcomes: unreachable, decoded, or undecodable. It keeps the code's inverted test, so only a failed decode writes.
  - `Joined` is `Wait`.
  - `SelectLoadBased`, `SelectProb` and `SelectRandom` are the three policies. `SelectProb` can panic, which models a `rand.Int63n(0)` crash.
  - `MaxDecisions` bounds the number of decisions.
  - `N` may be 0, an empty configuration. `SelectRandom` (`rand.Intn(0)`) and `SelectLoadBased` (`conf.Cluster[0]`) then panic.
- **`SchedulerProofs`**: the inductive invariant `SInv` of `Scheduler` and the TLAPS proofs. The `scheduler` run uses this module.
- **`Inception`**: one call of `GetJobInfosByFilter`.
  - `VisitCluster` is one loop iteration, including the self-address test. The address is a token sequence, so `fmt.Sprintf("%s/", a)` is `a \o <<"/">>`, and the never-assigned `inceptionAddress` is `<<>>`.
  - `LoopDone` and `WaitAll` model the end of the loop and `jip.Wait()`.
  - Per goroutine: `GetJobs` (nil or a slice), then `Lock`, then `ReadSlice` and `WriteSlice`, then `UnlockDone`. The append is split into a read step and a write step, so losing an update is possible if the mutex did not exclude it.
- **`InceptionConfig`**: the configuration that all Inception operations share. It holds the `N` clusters, their addresses (`SelfPeers` are at the inception's own address) and the self-address test `IsOwnAddress`. `Inception` and `InceptionReads` extend it.
- **`AggregateRead`**: the abstract read aggregation that the spec promises (§4.4).
  - Every peer except the proxy's own is asked once, and each one answers or fails.
  - `Return` outputs an arrangement of the successful results, that is, each one exactly once.
  - `SafeSpec` is the safety part. `ASpec` adds weak fairness: the call returns.
- **`InceptionProofs`**: the inductive invariant of `Inception`, and the TLAPS proofs.
- **`InceptionReads`**: one call of `GetAllMachines`, `GetAllQueues` or `GetAllCategories`; `op` says which.
  - `Visit(ok)` is one loop iteration, which ends in one of three ways:
    - `SkipOwn`: the `continue` of the own-address guard;
    - `AddressFails`: `GetClusterAddress` fails and `log.Panicln` unwinds the call;
    - `Fetched`: the request; a success appends, an error is excluded.
  - `ReturnAll` is the final `return`.
  - `GetJobCategories` has no error result. An unanswered request gives a nil slice, which appends nothing, so the three entry points share one control flow.
  - Whether `GetClusterAddress` resolves a name depends on the configuration, which lives outside `src/`. The model chooses the outcome at the step, once per cluster and call.
- **`InceptionReadsProofs`**: the merge invariant `RInv` and the refinement proof for `InceptionReads`.
- **`JobRouting`**: one `GetJobInfo` call, with `getJobFromCluster`.
  - Strings are sequences of symbols, and `"@"` is the separator. `Split` is `strings.Split` on `"@"`, written as a `FoldLeft`.
  - `FirstMatch` is the loop with its `break` (`SelectInSeq`).
  - `GetJobFromCluster` sends the request when the first cluster of the name has a non-empty address.
  - `GetJob` is the remote call, which may fail.
- **`MCJobRouting`**: the spec's identifier grammar as a reference (`RefRoute`, `RefCluster`). It is checked against every id of up to 4 symbols and every configuration of up to 2 clusters.
- **`DRMAAJobState`**: the `JobState` constants (iota) and `jobStateMap`/`goJobState` (a missing key reads as the zero value `Unset`).
  - One job moves along the DRMAA2 life cycle (`DrmTransition`, modelled from the spec: hold/release, suspend/resume, requeue, termination, end).
  - A client polls it with `GetState` (`Undetermined` when the C call fails).
  - `jobStateMap` is written as a function over its eight keys (a `CASE` per Go map entry), so that the provers can read it.
- **`DRMAAJobStateProofs`**: the TLAPS proofs about `goJobState` and `GetState`.
- **`SimpleTracker`**: concurrent `StartProcess` calls from `Callers`.
  - The environment is a function from `Keys` to `Vals \cup {Absent}`.
  - `CurrentEnv` and `RestoreEnv` are what `currentEnv`/`restoreEnv` actually do. The map is keyed by whole `K=V` entries, so `Getenv`, `Unsetenv` and `Setenv` on those names have no effect, and the restore is the identity.
  - The mutex is modelled per call (`mtx[p]`), because it is a local variable.
  - `CmdStart` has the success path and the error path. The error path returns without restoring.
- **`MCSimpleTracker`**: symmetry sets for TLC.
- **`TrackerProofs`**: the inductive invariant `TInv` of `SimpleTracker`, and the TLAPS proofs. The `tracker_start` run uses this module, so that TLC also checks `TInv`. It has no symmetry set.

## Runs

| Run | Expect | What it shows |
|---|---|---|
| `load_selection` | pass | `minLoad` returns the first least-loaded cluster. Probabilistic selection never picks a cluster at load 1.0. Checked for all vectors up to 3 clusters with `Scale = 4`. |
| `prob_proportional` | violation | The draw `Int63n(total-1)` misses the last unit, so the last cluster's share of the draws is below its share of the weight (`ProbSelectionProportional`: `Picks(k) * TotalWeight = Weight(k) * |draws|`). For loads `<<0, 0>>` the 7 draws give cluster 1 four and cluster 2 three (4/7 and 3/7, not 1/2 each); `[0,0,0]` gives 4/11, 4/11, 3/11. |
| `scheduler` | pass | Two decisions with every policy on 3 clusters. A load-based or probabilistic choice is only made after all fetchers finished. The inductive invariant `SInv` holds. |
| `scheduler_least_loaded` | violation | `LoadBasedSched` picks an unreachable cluster over one that reported a load. Decoded loads are never stored (`scheduler.go:147`), and failed fetches read as 0. |
| `inception_fanout` | pass | 3 peers, each able to fail. The call always returns (`FanOutReturns`, under fairness). The result holds each answering peer exactly once (`MergeComplete`). The call implements the abstract aggregate read, fairness included (`ImplementsAggregateRead`). Every write of `jobinfos` appends to the current slice (`AppendOnly`, an action property). The inductive invariant `IInv` of the proofs holds in every reachable state (the run's module is `InceptionProofs`). |
| `inception_self` | violation | A peer at the inception's own address is requested, because `inceptionAddress` is never set. |
| `inception_reads` | pass | 4 clusters; each may fail to resolve, fail to answer or answer. A returned slice always holds each answering cluster's result exactly once (`ReadsSafe`, the refinement of `AggregateRead!SafeSpec`). |
| `inception_reads_return` | violation | One cluster that `GetClusterAddress` cannot resolve aborts the whole read with `log.Panicln`, so `ImplementsAggregateRead` (the call returns) fails. |
| `job_routing` | pass | Routing follows the spec's grammar for every id and configuration in the bounds (`RoutingAsSpecified`): `42@c` asks the first cluster named `c` for `42`, `42` asks `default`, and a malformed id is never requested. |
| `drmaa_state_unset` | violation | `GetState` of a requeued job answers `Unset`. |
| `tracker_start` | pass | Two concurrent `StartProcess` calls. Every started child has each key of its overlay set. The inductive invariant `TInv` holds. |
| `tracker_isolation` | violation | A child sees another job's overlay: `k1=v1`, set by `p2`'s `JobEnvironment`, stays in the process environment, because `restoreEnv` is a no-op (`os.go:22`) and the mutex is local (`os.go:54`). `p1`'s child, whose `JobEnvironment` is empty, inherits it. |

Every property of a passing run has a mutant in `PROJECT.json`. The mutant is a plausible bug in the mapped code, and TLC finds it.

### Bounds

- **Scheduler:** 3 clusters and `Scale = 4`. With 3 clusters, ties, a zero-weight cluster and the weight-1 edge all appear. `Loads = {1, 3}` gives distinct load values. Two decisions show that the second fetch starts from a fresh slice.
- **Inception:** 3 peers allow any two goroutines to contend for the lock while a third has failed. The sequential reads use 4 clusters, so a panic can come after earlier answers and before later ones. Any such case needs at least 3 clusters.
- **Routing:** the bounds are 2 names (`a`, `default`), 2 hosts, configurations of up to 2 clusters, and ids of up to 4 symbols. They include `42@a`, `42`, the malformed `42@a@`, `@@`, `@` and `42@`, repeated cluster names and empty addresses.
- **Job states:** three polls cover a poll after a run and a requeue.
- **Tracker:** 2 callers, 2 keys and 2 values are the smallest setting in which overlays of different jobs can collide.

### Fairness

- **Inception:** `FanOutReturns` and `ImplementsAggregateRead` assume weak fairness for the caller and for every goroutine. The sequential reads assume weak fairness of their single goroutine. The Go runtime schedules every runnable goroutine. The model also assumes that each HTTP request eventually returns. The code has no timeout of its own (see the hazards).
- No other run checks liveness.

## Proofs (TLAPS)

`InceptionProofs` proves the following for every `N` and every `SelfPeers`.

- `IInvInvariant`: `Spec => []IInv`.
- `TypeCorrect`: `Spec => []TypeOK`. In particular, the WaitGroup counter never goes negative.
- `MergeCorrect`: `Spec => []MergeComplete`.
- `OwnGuardNeverSkips`: no cluster is ever skipped, for any `SelfPeers`. The own-address guard is dead code, so the `inception_self` request happens in every configuration that has a self-address.
- `RefinesAggregateRead`: `SelfPeers = {} => (Spec => AR!SafeSpec)`. `GetJobInfosByFilter` implements the safety part of the abstract aggregate read.

`MergeComplete` only speaks about the returned state, so it is not inductive. `IInv` strengthens it with these parts:

- `Ctl`: the loop visits clusters in order, and `returned` implies no goroutine is still running. A skipped cluster is always one at the own address.
- `LockInv`: the mutex is held exactly by the goroutine between `Lock` and `Unlock`. The slice a goroutine read inside `append` is still the current slice.
- `RespInv`: a peer's answer is known exactly when its goroutine is past `GetJobs`.
- `CountInv`: `wg` equals the cardinality of the pending clusters.
- `SliceInv`: `jobinfos` has no duplicates, and its elements are exactly the appended peers.

The proof has one case per action. Each case establishes these facts, which are then combined:

- the new `Pending` set: it is unchanged or loses one element, with `FS_RemoveElement` giving the cardinality;
- the new appended set;
- each conjunct of `IInv`.

The `AppendNew` lemma gives the effect of `append` on a duplicate-free sequence.

The refinement maps the state as follows:
- `resp` maps to `ares`;
- `returned` maps to `astate`;
- `jobinfos` maps to `aout` once the call has returned.

Steps map like this:
- `GetJobs(c)` is `Answer(c)`.
- `WaitAll` is `Return`. By `CountInv`, no cluster is pending, so `DoneMerge` turns `SliceInv` into "the slice is a duplicate-free listing of the answered peers". `NoDupArrangement` then shows that it is one of the abstract `Arrangements`, via a bijection with `1..Len`, `FS_Bijection` and `FS_Interval`.
- Every other step leaves the mapped state unchanged.
- With `SelfPeers = {}` no cluster is skipped, because `IsOwnAddress` is always false.

`InceptionReadsProofs` proves `ReadsRefineSafely`: `SelfPeers = {} => (Spec => ReadsSafe)` for every `N`. It covers `GetAllMachines`, `GetAllQueues` and `GetAllCategories`, the panicking path included. The inductive invariant `RInv` says:
- a cluster has answered exactly when the loop has passed it;
- a returned call has passed every cluster;
- `all` has no duplicates, and its elements are exactly the clusters that answered `"ok"`.

The lemmas used are:
- `VisitRInv`: one iteration preserves `RInv`;
- `AppendFresh`: `Append` of a new element;
- `Arranged`: a duplicate-free sequence is an arrangement of its elements;
- `NeverOwn`: no cluster is at the empty `inceptionAddress`.

It also proves `ReadsTypeCorrect`, `Spec => []TypeOK` for every `N`, from the same `RInv`. The loop index stays in `1..N+1`.

`SchedulerProofs` proves the following for every `N`, every `Loads` and every bound on the decisions:

- `SInvInvariant`: `Spec => []SInv`, the inductive invariant below, which the `scheduler` run also checks.
- `JoinedSelection`: `Spec => []SelectionOnJoinedLoads`.

`SelectionOnJoinedLoads` is not inductive. The inductive invariant is `SInv`, which adds `WaitInv`:

- `wg` equals the cardinality of `Fetching`, the goroutines that have not called `Done`;
- goroutines run only in the `fetching` phase;
- in that phase every goroutine of the decision is running or done.

`JoinedAllDone` turns `wg = 0` into "every fetch is done", using `FS_EmptySet`. A decision's `chosen = MinLoad(load)` survives later steps because no running goroutine is left to write `load`. The proofs never need the value of `MinLoad`.

`TrackerProofs` proves the following for every set of callers, variable names and values:

- `RestoreIsIdentity`: `restoreEnv` leaves the environment as it is, whatever snapshot `currentEnv` returned. It rests on one assumption, the last conjunct of `TrackerAssumption`: a variable name is never an `Environ()` entry `"K=V"`. This is the reason behind the `tracker_isolation` finding.
- `TInvInvariant`: `Spec => []TInv`, the inductive invariant below, which the `tracker_start` run also checks.
- `TrackerTypeCorrect`: `Spec => []TypeOK`.
- `OverlayAppliedHolds`: `Spec => []OverlayApplied`.

The inductive invariant `TInv` adds these facts to `TypeOK`:

- `pending` and `snap` are functions on `Callers`;
- every snapshot is keyed by entries;
- every value in the environment was set by some template (`FromTemplates`);
- a variable a call in its `Setenv` loop has already set stays set;
- a started child has every variable of its `JobEnvironment` set, each to a template's value.

There is one lemma per action. `RestoreUnlockTInv` uses `RestoreIsIdentity`.

`InceptionProofs` also proves `AppendOnlyHolds`: `Spec => AppendOnly` for every `N`. The action property says that every change of `jobinfos` keeps its old elements in place and makes it longer. Lemma `WriteExtends` gets it from `IInv`: only `WriteSlice` changes `jobinfos`, and `LockInv` says that the slice a writer read inside `append` is still the current one. So the write is `jobinfos \o <<c>>`. Without the mutex (the mutant `LockUnguarded`) two goroutines read the same slice, and the second write drops the first one's job infos.

`DRMAAJobStateProofs` proves the following for every bound on the polls:

- `ConversionLosesRequeued`: over every value of `drmaa2_jinfo.jobState` (`CJobStates`: the life-cycle states and the C unset value `DRMAA2_UNSET_ENUM`), `goJobState` answers `Unset` exactly for `DRMAA2_REQUEUED` and for `DRMAA2_UNSET_ENUM`. The TODO above `jobStateMap` says that the unset value should read as `Undetermined`. It never answers `Requeued`. It maps the eight keys of `jobStateMap` to distinct Go states. Lemma `MapTable` evaluates the table.
- `GetStateNeverRequeued`: `Spec => []` no poll result is `Requeued`, although the DRM requeues running jobs.
- `UnsetOnlyWhenRequeued`: an action property. A `GetState` step that appends `Unset` happens only while the job is in `DRMAA2_REQUEUED`. Together with `ConversionLosesRequeued`, this is the `drmaa_state_unset` finding for every configuration.

The modelled job only takes life-cycle states (`CStates`), so in `GetStateNeverRequeued` and `UnsetOnlyWhenRequeued` the unset value plays no part. Whether the C library ever reports it for a real job is outside the repository. The inductive invariant `PollInv` says that the job's state is a C state of the life cycle, and every poll result is a converted state or `Undetermined`.

These stay with TLC only:

- Liveness: `FanOutReturns`, and the fairness half of `ImplementsAggregateRead` for both fan-out and sequential reads. Temporal properties under fairness are outside what TLAPS handles here.
- `JobRouting`. Its properties are about strings split with the community folds, which are recursive. TLC covers them completely within the bounds. (`GetStateNeverUnset` of `DRMAAJobState` is false; the proofs above state what holds instead.)
- The properties of `LoadSelection` (`MinLoadIsFirstMinimum`, `SelectsOnlyAvailable`), and the `TypeOK` of `Scheduler`. The last one needs `MinLoad(load) \in 1..N`. `MinLoad` and `Likelyhood` are recursive functions over `0..Len(loads)`. Any statement about their values needs induction over the data, and the installed provers cannot instantiate the library's induction theorems. So TLC checks them over every load vector within the bounds.
- `RoutingAsSpecified` of `MCJobRouting`: the module reaches recursive operators through `SequencesExt`.

## Not modelled

- **DRMAA2 binding (`part_000`), the rest:**
  - `convertGoStateToC` and the state filter of `MonitoringSession.GetAllJobs`. The Go-to-C switch has no case for `Requeued` either (`part_000:645`): a `Requeued` filter reaches C as `DRMAA2_UNDETERMINED`. The hazard list records it; no run checks it.
  - Session management: `CreateJobSession`, `OpenJobSession`, `destroySession`, `JobSession.Close`, `OpenMonitoringSession` and `CloseMonitoringSession`. Their state is the C library's handle table. Two hazards are recorded against them and are left unchecked: a named `OpenMonitoringSession` drops the handle it opened (`part_000:1467`), and `OpenMonitoringSession("")` returns a failed open unchecked (`part_000:1469`).
  - `Job.modify` (Suspend, Resume, Hold, Release, Terminate), `WaitStarted`/`WaitTerminated`, `Reap`, `RunJob`, `RunBulkJobs`, the `ArrayJob` operations, `waitAny` and event notification. Each of them is one C call whose effect, and whose wait semantics, lives entirely in the C library outside the repository. The Go side only converts arguments and turns a NULL or error code into `makeLastError()`. A model of them would be a model of the C library.
  - The conversions of templates, infos, lists and maps are data copies.
  - `String()` is formatting.
- **Inception stubs:** `RunJob`, `JobOperation` and `GetAllSessions` are stubs. `DRMSLoad`/`Name`/`Version` return constants.
- **Empty configuration:** `Scheduler` models the `N = 0` branch of both schedulers, which panics (`rand.Intn(0)`, and `minLoad` returning index 0). No run uses `N = 0`.
- **Tracker:** `KillPid`, `SuspendPid`, `ResumePid` and `TrackProcess` are not modelled. The pipe-redirection goroutines are file I/O, so the `redirectIn` panic is listed as a hazard without a property.
- **Timeouts:** the HTTP client is outside `src/`. The models assume that every request returns. A peer that never answers stalls both the fan-out and the sequential reads; this is listed as a hazard.
- **CLI, tests and manifests:** these are sequential I/O, or not code.
- **Float arithmetic:** not modelled. Truncation in `(1.0 - v) * 10000` and loads above 1.0 are listed as a hazard.
