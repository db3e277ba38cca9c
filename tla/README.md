# A TLA+ model of the go.d plugin

The go.d plugin is a data collection orchestrator for Netdata. One process finds
the configurations of collection jobs, decides which of them can run, runs each
as a goroutine on a common clock, and writes what they collect to Netdata. Each
job drives one collector: a client of some application that is started, asked
again and again, and cleaned up. This directory models both halves: the agent
under `src/agent`, where goroutines, files, locks and signals interleave, and the
collectors under `src/modules`, which face an application that may go away, come
back, change or fail at any request.

## The system

    files --> file discovery --+                                      +--> jobs --> Netdata
                               +-> discovery manager --> job manager -+     |
    config files --> service --+                          |  |  ^     |  collectors --> applications
       discovery, pipelines                state file <---+  |  +-- ticker
                                           lock files <------+
    signals --> agent: starts, stops and reloads all of the above; functions from Netdata

| Part | Module | State | What makes it hard |
|---|---|---|---|
| file watcher, reader (`discovery/file`) | `FileWatcher`, `FileDiscovery` | cache of modification times, groups on their way | files change between listing, Lstat and read; calls fail |
| config group cache (`confgroup/cache.go`) | `ConfGroup`, `ConfGroupCache` | count per config, configs per source | configs shared by sources; unsigned counters |
| discovery manager (`discovery/manager.go`) | `DiscoveryManager`, `ConflatingFeed` | newest unsent group per source, a flag, the sender's position | updates during a send, a lost wake-up, a consumer that has gone |
| service discovery (`discovery/sd/sd.go`) | `ServiceDiscovery` | content and pipeline per file | a replaced pipeline is still sending; invalid contents |
| pipeline (`discovery/sd/pipeline`) | `Pipeline` | groups in the goroutines' hands and in the accumulator, configs per target | groups arrive while the pipeline sends, and race for the accumulator |
| job manager (`jobmgr`) | `JobManager` | running names, retry tasks, queue, statuses, locks | handlers, timers and jobs interleave; names and hashes are different keys |
| job, charts (`module`) | `Job`, `JobCharts` | phase, loop, retries; charts with flags, Netdata's view | one channel used both ways, missed ticks, panics half way |
| ticker (`ticker`) | `Ticker` | count, done, C | late consumers, Stop against a ready consumer |
| file locks (`filelock`) | `FileLock` | map of held locks, the kernel's locks | several processes, reload, kill |
| state file (`filestatus`) | `FileStatus` | store, flag, file | save during a flush, kill between truncation and write |
| agent (`agent.go`) | `Agent` | instances, their managers, signals, hosts | reload, timeout, a hung collection, state that outlives an instance |
| functions (`functions`) | `FunctionManager` | lines, buffer, payload | reload within a payload |
| collectors (`modules/*`) | `Collector` and the catalogue | session, step of Collect, instances, charts | the application changes between two requests |
| log reader (`pkg/logs`, `weblog`, `squidlog`) | `LogReader` | file, offset, buffer | rotation, half-written lines |
| `k8s_state` | `K8sState` | informers, queues, records, charts | five goroutines, names that come back |

`PROJECT.json` lists every part with its status, the hazards at the lines where
they bite, and the source lines of every definition.

## The modules

**ConfGroup, ConfGroupCache.** `ConfGroup` holds the cache as a value and
`CacheAdd` (Add) as an operator; `ConfGroupCache` lets any source send any group.
A group's configs are a set, because the code skips a second config with the
same hash; a source without an entry and one with an empty entry are one value,
because the code deletes empty entries. Counters are integers, so that an
underflow would show as a negative number.

**FileWatcher, FileDiscovery.** A refresh is a step per system call: the listing,
an Lstat and a read per file, the send. The directory changes between any two of
them. Run may fail to get its notifications and return before the first refresh.
`FileDiscovery` composes the watcher with the relay of `runDiscoverer`, the
reader that sends its files once, and the receiver, which is `ConfGroupCache`.

**DiscoveryManager, ConflatingFeed.** A group is the version its source reached.
Sections under the mutex are one step; taking the flag, the snapshot and the send
of `mustSend`, and the tick and `trySend`, are separate steps. The consumer is
waiting at the channel, busy, or gone. `ConflatingFeed` is the abstract
specification: per source, versions arrive in increasing order, possibly with
gaps, and news is delivered as long as the feed runs. The refinement mapping is
the identity on the histories (`latest`, and `seen`, which `MCDiscovery` calls
`delivered`), with the manager's context as `stopped` (`FeedSpec`).

**ServiceDiscovery, Pipeline.** `ServiceDiscovery` receives config files and
starts, replaces and removes pipelines, which to it are goroutines that send
until they have noticed that they are cancelled. `Pipeline` is one of them: the
accumulator and `processGroup` with its cache. All discoverers of a pipeline send
on one channel, from which any `runDiscoverer` goroutine receives (`Take`), to
store what it got when it has the mutex (`Store`); two that hold groups of one
source may store them in the wrong order. Classify and compose are pure; `Composed`
is any function from targets to configs. (`NewServiceDiscovery` returns nil at
present: the agent does not use this part yet.)

**JobManager.** `groupsPc`, `configsPc` and `tickerPc` are the three handlers of
`Run`, `managerPc` is `Run` itself with its deferred `cleanup`. `SendAdd` and
`RetryAdd` are receives from `addCh` followed by all of `addConfig`, which runs
on one goroutine and blocks on nothing but the module. `removeConfig` is split at
`stopJob`, where it waits for the job while it holds `queueMux`: `SendRemove`,
then `RemoveStopped`; `Notify` is excluded in between, as the mutex does.
`tasks` are the goroutines of `runRetryTask`. A cancelled task whose timer has
fired may still deliver its config when it is slow to reach the `select` of
`sendConfig`; the constant `StaleRetry` allows this. `locks` and `others` are the
lock files of this and of other plugins. The Dyncfg calls do nothing
(`NewManager` installs no-ops and the agent installs nothing else).

**FileLock, FileStatus.** Several processes with the map of `Locker` on one side
and the kernel's locks on the other, used the way `addConfig`, `removeConfig` and
`cleanup` use them; a reload starts with a new, empty map, as `agent.run` does.
`Save` and `Remove` change the store and raise the flag in two steps; a flush
marshals, truncates and writes in three. Errors, kills and restarts are actions.

**Ticker, Job, JobCharts.** `Ticker` is the goroutine with its consumer. `Job` is
one job from detection to the end of `Stop`; the clock counts modulo a common
multiple of all intervals. `JobCharts` is the list of charts during and between
collections, and in `processMetrics` one step per chart; Netdata is the set of
charts it was told of and not told are obsolete. Dimensions, labels and the
execution-time chart are left out.

**Agent, FunctionManager.** `Agent` is the process: `serve` with its signal
channel and its timeout, the four managers of each instance, which return in any
order, `keepAlive`, and what survives an instance: `vnodes.Disabled` and the host
that Netdata takes the next lines for. `FunctionManager` is the scanner over the
standard input; its buffer may end within a line, and the next instance reads on
where the last one stopped. The part of a line that a cancelled read leaves is
handed over as a line: in a payload it counts as one (or closes it, when only the
newline is missing), outside it does not parse, or parses to the call with a
shortened last word, which may name a function.

**Collector, CollectorSteps, Collectors.** The collectors have one shape: Init,
Check, Collect again and again, Cleanup. `Collector` is that shape against an
application that goes down, comes back, gains and loses instances and fails any
single request, between any two requests of one Collect. What each collector does
is a record of the catalogue, written in the vocabulary of `CollectorSteps`: how
it holds its session (when the client is made, whether that contacts the
application, which errors make the module drop it, what Cleanup closes), what
Init needs, the requests of Collect in the order of its code with what a failure
and an empty answer of each does, when charts of instances are added and removed,
and how the charts of a vanished instance are matched. The catalogue is in five
modules (`DatabaseCollectors`, `WebCollectors`, `NetworkCollectors`,
`SystemCollectors`, `WindowsCollectors`); a collector with several kinds of
instances has a record for each. `Collectors` unites them and names the
collectors that are known not to keep a property, with the reason at their
records. The actions of `Collector` are what all modules do; `PROJECT.json` maps
each to one module where it can be read, and each record's parts to the
functions of its own collector. Discovery apart from Collect (vSphere) is an
action of its own. A request that is made only when some time has passed is
`Timed`. MySQL's global variables are not: `recheckGlobalVarsTime` is compared at
`mysql/collect.go:54` but nothing ever sets it, so they are asked for in every
Collect.

**LogReader, K8sState.** Two collectors keep more state than the catalogue can
say. `LogReader` is the reader of `pkg/logs` with the parsers' reading loop, as
`weblog` and `squidlog` use it; a line is two units, so that half of it can be in
the file. The read that finds the end of the file and the Close of `reopen` are
two steps. `K8sState` has the informers, the work queues, the relay, the updater
and Collect, for pods and nodes; `MyNodeNames` are the values of `MY_NODE_NAME`,
which makes `updateNodeState` ignore all nodes but one (`Ignored`). Work queues,
and the goroutines waiting to send on a channel, are served first come, first
served, as in Go.

The MC modules instantiate all this. `MCDiscovery`, `MCJob`, `MCServiceDiscovery`,
`MCAgent` and `MCCollectorState` hold several components that do not interact. One
of them runs in a behaviour and the others stand still: a variable `subject`
chooses it, and in `MCDiscovery` the specification does (`FilesSpec`,
`ManagerSpec`). Each extends one of its components and instantiates the others
(`MCAgent` extends `FunctionManager`, `MCDiscovery` `FileDiscovery`,
`MCCollectorState` `LogReader`), so that the proofs about all of them speak of the
definitions TLC runs.

Operators whose name says what they get wrong (`GiveUp`, `ForgetsTimer`,
`KeepsTracking`, ...), placed before the definition they stand in for, are variants of that
definition with one plausible mistake; none is used by a specification. Each shows
that a property notices the mistake.

## What is checked

| Run | Question | Bounds |
|---|---|---|
| `file_discovery` | does the receiver end up with what is in the directory, can what was published always be withdrawn, does the cache report exact differences? | 1 watched and 1 read file that share a config, 4 writes, 1 failing call |
| `discovery_manager` | is an update ever stranded, lost, overtaken? does it implement the feed, does it stop? | 2 discoverers, 3 sources, 2 versions: one in hand, one in the cache |
| `job_manager` | do running map, queue, locks and retries agree? | 2 configs with one name, 2 sources, 2 batches, slow retries |
| `job_manager_liveness` | are exactly the provided configs tracked and the running ones saved as running? does every config get a status, do recoveries end, does everything return? | 2 configs with own names, 1 source, 2 batches, an endless retry beside a bounded one, prompt retries |
| `job` | the order of module calls, Stop, starvation by penalty; charts against Netdata; the ticker's end; locks against the kernel; the state file across saves, errors, kills and a restart | interval 2, penalty steps to the limit; 3 chart IDs (one too long), 4 charts; 8 intervals; 2 processes, 2 names; 2 configs with or without a status, 3 changes, 2 instances |
| `service_discovery` | has every file the pipeline of its newest valid content and no other, is a replaced one heard again, are targets mirrored and delivered? | 2 files, 2 valid contents and an invalid one, 4 file events; 2 discoverers, 2 sources, of which one has 4 different groups of 3 targets (one composes to nothing, two share a config), 3 groups found |
| `agent` | do instances overlap, does data go to its host, does the process end, whose payload does a call get? | 3 signals, 3 instances; 2 calls, payloads of 2 lines, 2 reloads |
| `collectors` | do charts follow the instances, is every client closed, does the collection recover? | the whole catalogue, 2 instances of which one name begins with the other, 3 disturbances |
| `collector_state` | is a part of the log skipped, read twice, or left behind? do charts follow the cluster, do the goroutines return? | 3 lines of two units, 2 rotations or truncations, 3 empty reads before a reopen (60 in the code); two pods of which one name begins with the other, or a pod and a node that is or is not to be ignored, 2 changes |

RecoverTries is 2 instead of 11, and the penalty's step and limit are 2 and 3:
these are the smallest values at which a first try, a later try and the end of
the tries (no, some, full penalty) are all different. Two task identities are
enough for a pending retry of each config. In runs with slow retries a third
goroutine could exist; a failing check is then not taken until one ends. Other
plugins compete for one of the names (`Contended`). Three disturbances let a
collector lose its session, lose an instance and fail a request in one
behaviour, in any order.

What the properties leave out, because the code really does otherwise:

- `TrackedExactly` is checked with prompt retries only: with `StaleRetry` a
  removed config can come back, and stay until it is provided and removed again.
- `OneCollector` leaves out jobs that run without a lock because the lock file
  could not be used, and processes in `cleanup`, which unlocks before it stops
  the jobs.
- A collection that panics after `MarkNotCreated`, followed by a stop, leaves a
  chart in Netdata; `NetdataMatchesList` speaks of the time between collections.
- `Converges` leaves out a file whose present version could not be read or parsed
  when its modification time was stored: it is not read again until it changes. It
  also leaves out a watcher that could not be created: nobody starts it again.
- `Delivers` leaves out the accumulator's one last try after all discoverers have
  returned. It promises the newest group of a source only if no other goroutine held
  an older one when it was received (`crossed`): `accumulator.go:88` receives before
  `accumulator.go:89` locks, so the older group may be stored last and stays until
  the source has news. What was stored last is delivered in any case.
- `ProcessEnds` leaves out a terminating signal that the full channel dropped.
- `HostsRight` leaves out reloads that disagree on whether there are virtual
  nodes: `vnodes.Disabled`, once set, is never reset.
- `OwedIsAhead` speaks of what is written while the reader is positioned in the
  file. What is written between the read that makes it reopen and the seek to the
  end of what it then opens is not read: neither what goes to a new log, nor what
  is added to the same one in that moment.
- `ChartsFollow`, `NoClientStrays` and `Recovers` leave out the collectors that
  `Collectors` names (values of `Deviating`, `Straying`, `NeverReconnecting`, `GivingUp`),
  and `ChartsFollow` and `ChartsFollowCluster` the instances whose name begins
  with that of another, where charts are matched by a prefix. `Recovers` leaves
  out a job whose Init failed: the job manager does not try it again.

### Where the code and its documentation disagree

Three runs end in a counterexample, each against a line of the repository.

- `job_manager_duplicates`: a config with status `stopped_duplicate_local` keeps
  it when the job it duplicates is removed; `manager.go:41` says such a job is
  running.
- `job_charts_same_id`: with a removed chart still listed, `Charts.Add` accepts a
  second live chart of the same ID, which `charts_test.go:157` expects it to refuse.
- `vsphere_charts`: when a host or VM vanishes, the charts of another one whose ID
  begins with its ID go too and never come back; `vsphere_test.go:378` expects the
  charts of those that are left to stay.

More were met while modelling and are plain from the code: a tick may follow
`Ticker.Stop`, which `ticker.go:51` denies (the goroutine's `select` may pick the
send when the consumer is ready); `ticker.go:52` says that Stop does not close
the channel, and the goroutine closes it (`Finish`); `how-to-write-a-module.md:144`
says that Collect is called every `update_every` seconds, and failing jobs are
called less often (`MyTurn`); `charts.go:264` offers `MarkRemove` for removing
charts, and without `MarkNotCreated` Netdata never hears of the removal (modules
call both, and so does the model).

### Fairness

Goroutines that can run do run (weak fairness); a `select` with several ready
cases picks at random, so a case that is ready again and again is taken in the
end (strong fairness of the sends, receives and returns that compete in one).
`Collect` is assumed to return, except in `Agent`, where one may hang. In
`Collector` the application comes back some day, the job collects at every tick,
a failed detection is tried again without limit (`autodetection_retry`;
`JobManager` counts the tries), and the vSphere discovery gets the mutex between
two Collects in the end (strong fairness of `Rediscovers`). In `LogReader` a
rotation that has begun is finished; in `K8sState` the informers deliver and
resync, and weak fairness is enough because the queues are first come, first
served. Nothing makes a discoverer publish, a module succeed, another plugin
release a lock, a signal arrive or the context end.

## What is proved

The proofs hold for every value of the constants that meets the assumptions
named here; TLC evaluates each assumption on the instances it checks.

**ConfGroupProofs** (no assumption). Lemmas on `Cache.Add`, used by
`DiscoveryProofs` and `JobManagerProofs`. A counter is the number of sources that
provide the config, also when there are infinitely many sources that might:
`Counts` says it of the finite set of those that do. The argument is how its
cardinality changes when one source joins or leaves. So a count of zero before, or
after, an Add is an empty set of providers.

**DiscoveryProofs** (`FileDiscoveryAssumption`: watched and read files are different
sources, and no set of configs is the mark for "no group"; `ManagerAssumption`:
every source of the discovery manager has an owner).
For the cache alone: types, counts, and that Add reports exact differences. For file
discovery: no step on the way from the watcher to the cache changes what the
receiver will have in the end (`Final`); the watcher publishes a file only when it
is cached, and drops it from its cache only with an empty group
(`PublishedIsCached`). `ReportsExactDifference` carries over.
For the discovery manager: types, `NothingStranded`, `NewestSurvives` and
`VersionsOrdered`, and that every step is a step of `ConflatingFeed` or leaves its
variables alone. The refinement needs `VersionsOrdered`: a delivery is an increase
only because what is cached or in hand is newer than what was seen.

**ServiceDiscoveryProofs** (`ServiceDiscoveryAssumption`: a content is valid or not;
`NoGroupAssumption`, `NoHandAssumption`: the marks for "no group" and for an empty
hand are no groups; `GroupsAssumption`: groups are sets of targets).
`PipelineMatchesFile` and `NoStaleGroups` rest on `Numbered`: a pipeline that still runs is the registered one of its source,
because an entry is replaced only when its pipeline has returned. `Meant` says
what the pipeline of a source was made from between the steps of one file.
`MirrorsTargets` of `Pipeline` rests on `Remembers`: the cache of a source is the
part of its last group that has configs, so that an unchanged cache means
unchanged configs. `RestsDelivered`, the safety behind the liveness property
`Delivers`, says that when the discoverers and the accumulator rest with the flag
down and the pipeline waits, the receiver has the configs of what was stored last
for each source, and that this is the newest group unless the source is in
`crossed`. It needs `Accumulated`: groups in the accumulator have a raised flag or a
caller about to raise it; and `Uncrossed`: the newest group of a source that is not
in `crossed` is either the one stored last, with no other in any hand, or in the
only hand that holds one of that source.

**JobManagerProofs** (assumption: every config has a full name, the tries granted
are positive). `QueueMatchesRunning`, `NoLockLeaked`, `RetryTracked` and
`TriesConserved`, with slow retry goroutines and shared full names. They are
inductive with the types of the state they speak of and `Staged`: `cleanup`
begins only when `runConfigsHandling` has returned, so that no config is added
behind it. The work is in the retry tasks. `Unshared` says what holds after
`addConfig` or `removeConfig` has cancelled the old task of a config, also when
the sender is itself a cancelled task: every other config still has its own task,
and this one has none. Then the new task, if any, is added.
`TrackedExactly` is proved for prompt retries (`~StaleRetry`; with slow ones it is
false). It needs `Sent`: what the groups handler is going to add is provided and
has no status, what it is going to remove is not provided. The exact differences
of `ConfGroupProofs` give that for a new group. `RunningExactly` needs besides that
no two configs share a full name (`OwnName`).

**JobProofs** (assumption: a state file that cannot be decoded is no store). What a
job is made of and what surrounds it.
`ModuleProtocol` needs the stages of a job tied together (`JobInv`): the loop
exists once the job was started, after a check, and Cleanup has run when it was
torn down.
`NetdataMatchesList`, for modules that add no chart twice (`~AddsTwice`), needs
the list to be understood inside `processMetrics`, where it is in two parts, and
after a panic, when an ID may be on it twice, the first one removed and the second
one new (`ChartsInv`).
`ExitKeepsStatuses` needs that what the last flush is about to write agrees with
the store (`StatusInv`).
`OneCollector` of the locks needs that the kernel grants a lock to one process
(`OneHolder`), that the maps agree with the kernel (`MapMatchesKernel`), that a lock
belongs to a job that runs or is being stopped (`LocksHaveJobs`), and that a process
that is down has no jobs (`DownIsIdle`). `LocksHaveJobs` is what a reload relies on:
after cleanup no lock is left for the new, empty map to forget.

**AgentProofs** (`AgentAssumption`: at least one instance; `FunctionAssumption`:
payloads have a length).
`OneInstance` needs that every run but the newest has returned (`Returned`):
`serve` goes on only when the managers have, and a timeout ends the process.
`HostsRight` needs what follows from the instances so far having found the same
(`OneKind`). `OwnPayload` rests on the input being one stream (`Stream`): the lines
in the buffer, in the input and still to be sent follow each other, also when a
reload hands the input to the next instance within a line or a payload. What has
been read of a payload is then what comes before the next line (`Reading`), and
the executed calls are behind it, or have lost the beginning of their own line to it
(`Behind`).

**CollectorProofs** (assumptions on the catalogue, which TLC evaluates on all of
its records). `NoClientStrays` needs that a module that is new or cleaned up holds
no client, and assumes that the collectors that are not in `Straying` close their
client in Cleanup and after a failed opening (`CollectorAssumption`).
`ChartsFollow` assumes what the order of the steps of a collector that is not in
`Deviating` owes (`FollowsAssumption`): the instances are marked by one listing,
the marks are reset once, at the same times, before the listing or as the last
thing; charts are removed only behind the listing, in a Collect in which it was
answered, behind an adding of charts. The invariant `Levels` says that the tracking
of an instance counts exactly the rounds that the history counts. `Phases` is what
it needs at each place of the steps: when charts are added or removed, the marks
are the instances reported in this Collect.

**LogReaderProofs** (no assumption). `OwedIsAhead` needs that the reader has no file
while it looks for one, and that nothing is owed outside the buffer from the empty
read that makes it reopen to the seek (`Opening`). `InOrderOnce` says that every unit
that leaves the buffer is later than the one taken before it; it needs the order of
all that the reader deals with: taken, in the buffer, ahead in the open file, still
to be written.

Only model-checked:

- liveness, with the fairness part of the feed (out of the prover's reach);
- the properties of `K8sState`, both liveness;
- that `Pipeline` and `DiscoveryManager` deliver, of which `RestsDelivered` and
  `NothingStranded` are the safety part;
- that the catalogue meets the two assumptions: it is a finite check, which TLC
  makes.

## Not modelled

- The text protocol to Netdata, logging, the command line, host information, YAML
  and the plugin's own configuration: input and output without later state.
- Metric values, their names and conversions, and the static tables of charts and
  dimensions, which are most of the lines under `src/modules`: no property here
  tells two values apart. For the same reason the limits and filters some
  collectors put on instances, and the fields of log lines, are left out.
- How Kubernetes objects and open sockets become targets of a pipeline, and the
  rules that classify targets and compose configs: pure functions.
- Dynamic configuration (`discovery/dyncfg`): commented out of the agent, so that
  nothing calls it.
- The dummy discoverer: it sends once and returns, which `DiscoveryManager` allows
  any discoverer to do.
- Undefined behaviour of the external libraries (database drivers, `fsnotify`,
  the Kubernetes client): they appear as what their callers rely on.

## Plan

1. Proofs: a safety property of `K8sState` (records against queues and store).
2. Dynamic configuration, once the agent uses it.
