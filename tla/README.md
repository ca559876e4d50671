# TLA+ models of the RedGuard operator

RedGuard is a Kubernetes operator for Redis with Sentinel. It owns four custom
resources (RedisSentinel, RedisBackup, RedisRestore, RedisUser), each with a
reconciler, and a watcher that turns Sentinel events into reconciles. The
project models the parts in which several actors write to one cluster: a pass
of a reconciler is a long sequence of API writes and Redis commands, and pods,
Sentinels, the user and the other reconcilers move between any two of them.

Paths below are relative to the repository root; `SC` stands for
`internal/controller/redissentinel_controller.go`, `RC` for
`redisrestore_controller.go`, `UC` for `redisuser_controller.go` and `BC` for
`redisbackup_controller.go` beside it.

## Inventory

| Component | State | Operations | Hard part |
|---|---|---|---|
| Credential rotation (SC 635-945) | user Secret, applied-auth Secret, stamps on the templates, passwords accepted and presented by every node | read the Secret, push in three phases, record, stamp, roll | per-node commands interleaved with restarts; a push cut short and resumed, perhaps towards another password |
| RedisRestore (RC) | status phase, breadcrumb, `datasetReplaced`; payload and marker on a volume; `down-after-milliseconds` of every Sentinel | gate, stage, quiesce, shutdown, verify, re-enable AOF, fail, sweep, delete | the load is observed only by the absence of a file; deadline against boot; failover under way |
| Monitor drift repair (SC 1342-1453) | parameters of every Sentinel | compare and set, suspended by a breadcrumb | check-then-act against the restore |
| Failover handling (SC 1090-1149, 1483-1565, 1752-1864) | `status.masterNode`, `lastFailoverTime`, replication source of every pod | detect, confirm, demote, repoint | stale Sentinel answers, pods that boot on a dead address |
| Role label (SC 1280-1330) | label on each pod, the write Service's selector | patch pod by pod | partial labelling, replaced pods |
| Scale-down guard (SC 418-535) | StatefulSet size, forced failover | hold, force, resize | master on an ordinal to be removed, elections in between |
| Init scripts (`internal/builder/configmap.go`) | redis.conf, volume | choose password, payload, role at boot | a decision at boot against state that moves on |
| Sentinel pruning (SC 548-604) | peers each Sentinel knows | SENTINEL RESET | quorum of a shrunk set |
| RedisUser and ACL pruning (UC, SC 1582-1745) | accounts in memory and in the aclfile of every pod, ownership record, finalizer, status | validate, render, own, SETUSER, ACL SAVE, DELUSER, disown, prune | two reconcilers over one record; memory against aclfile; pods that are away; volumes that outlive the cluster |
| RedisBackup (BC) | schedule, status, background save of a pod, multipart upload, objects | gate, choose a pod, BGSAVE, wait, stream, retain, report | which dump is streamed; object, retention and status are three writes; retries that fork Redis |
| Event watcher (`internal/sentinelwatch`, `internal/sentinel/events.go`) | subscriptions per cluster, goroutines, event channel | sync, dial, subscribe, enqueue, stop | goroutines of an old and a new set side by side; lost events, bounded channel, shutdown |
| Services, policies, PDBs, metrics, clients, types, `cmd/main.go` | none of their own | render manifests, wrap commands | - |

Components interact through API objects (a Secret written by one pass and read
by another reconciler), through the Redis and Sentinel servers (SLAVEOF, SENTINEL
SET, CONFIG SET), and through the volume that a container's init script reads.

What makes each correct: rotation - links never break, the old password is
revoked, pods roll only onto a pushed password, and a rotation ends; restore -
Completed means loaded and durable, the master is not failed over while it is
down on purpose, runs and quiesces end; routing - one write endpoint, the
serving master is never demoted or deleted by the operator, and label and
replication follow the Sentinels; users - ACLs equal the declared set on every
node, what the operator made stays recorded while it exists, nothing else is
touched, and an account can do what its spec says and never leaves its key
patterns; backups - what is uploaded is the snapshot asked for, the newest
object survives, status names one that was stored, and a due backup is taken;
watcher - every Sentinel of every cluster is subscribed once, no promotion is
slept through, and nothing outlives the manager.

## Modules

| Module | Models |
|---|---|
| `CredentialRotation` | `reconcileAuthCredentials`, `pushCredentials`, `writeAppliedAuth`, the stamps, the life of containers and what they capture |
| `CredentialRotationProofs` | theorems about it |
| `RestoreOutcome` | the abstract specification of what a RedisRestore reports and of what that means |
| `RestoreFlow` | the RedisRestore reconciler, the init script's payload swap, `syncSentinelMonitorConfig` for `down-after-milliseconds`; implements `RestoreOutcome` |
| `RestoreFlowProofs` | theorems about it, the refinement included |
| `MasterRouting` | `updateStatus`'s failover branch, `handleFailover`, `repointStrayReplicas`, `reconcileMasterLabel`, `holdScaleDownUntilMasterMoves`, the role chosen at boot |
| `MasterRoutingProofs` | theorems about it |
| `ACLUsers` | the RedisUser reconciler and `pruneOrphanedACLUsers`, the ownership record, aclfiles and pods |
| `ACLUsersProofs` | theorems about it |
| `ACLRules` | `validateRedisUserSpec`, `buildACLRules`, and what Redis makes of the rules |
| `ACLRulesProofs` | theorems about it |
| `BackupCatalog` | the abstract specification of the bucket and of what status reports |
| `BackupCatalogProofs` | a theorem about whatever implements it |
| `BackupRun` | the RedisBackup reconciler, Redis's background saves, S3; implements `BackupCatalog` |
| `BackupRunProofs` | theorems about it, the refinement included |
| `SentinelWatch` | the watcher's `Start`, `sync`, `run`, `attempt`, `SubscribeSwitchMaster`, and the reconciler they wake |
| `SentinelWatchProofs` | theorems about it |
| `MC...` | model values for TLC |

Conventions. One action per API write, command or exec; `pc` says where a pass
stands. Actions of Kubernetes, Redis and Sentinel are external and marked so in
the map. `Fault` counts injected failures; failures that the state forces (an
address nobody has, a Sentinel that is down) are not counted. Definitions headed
"Mutant" are broken variants of the definition that follows them; nothing else
uses them.

### CredentialRotation

`secretPw/secretVer` is the user's Secret, `appliedPw/appliedVer` the
`<name>-auth-state` Secret, `tmpl` the stamp on each StatefulSet; `accepts`,
`toRedis` and `toSentinel` are the default user's passwords, masterauth or
auth-pass, and sentinel-pass of a node. A pass is `Read...`, `ListPods`, then the
stages `dial, widen, switch, narrow` (Redis before Sentinels in each), `record`,
`stampRedis`, `stampSentinel`. `Widen` is `ACL SETUSER >new`, which also clears
nopass; `Switch` changes what a node presents, on a Sentinel in two commands
(`SwitchAuthPass` first); `Narrow` is `resetpass >new`.
`dialWithEither` is `Dial`: the new password first, then the recorded one. A
container captures REDIS_PASSWORD at `Start` and serves at `Boot`; `Roll` replaces
a pod whose template is old, `LivenessKill` restarts a container whose probe's
password is refused. `settled` is a history variable: nodes that booted onto the
password the cluster agrees on with no push begun. The code's promise cannot
extend to a container that restarted onto a newer Secret (see Deviations).
`Stranded` says that a serving node refuses both passwords a push tries, the desired
and the recorded one; it may stay so for good (`rotation_stranded`), and
`RotationConverges` says that nothing else keeps a rotation from ending.

### RestoreFlow and RestoreOutcome

`phase`, `crumb`, `replaced`, `age`, `observed` are a RedisRestore's status; `payload`
the staged file with its marker (whose it is, the generation, the time left);
`data`, `aof`, `aofDir` a Redis container's memory, AOF switch and directory.
A pass reads the object (`BeginPass`), runs the handler of its phase up to a
status write, and may fail at any step; the way out of a failing run is shared
(`exit`): sweep, AOF, unquiesce, write `Failed`. `refusal` is what refuses every pass
before its handler: a destination off the allowlist, or a RedisSentinel that was
deleted (`UserDeletesCluster`; its pods, which go later, are left as they were).
`Forced` is the set of generations whose spec says `force`. `Boot` is the init script: a
payload within its deadline is loaded with appendonly off, a late one is
removed. The repair pass is `SyncRead` (looks for a breadcrumb once, in a cache that may
not show it yet) and `SyncSet` (one Sentinel at a time). `served`, `shut` and `raced` are history.
`Undisturbed` says of a state that so far nothing has failed over and at most one
RedisRestore was taken up (`finalizer` is not taken back in the model, since the
object is gone with it); the code ensures neither, and what a run promises holds
only as long as it does (see Proofs). `RestoreOutcome` keeps the request, the answer
and whether the data were loaded: a generation is answered once, nothing is reported
of a deleted object, and what is completed was loaded and is not loaded again while
the cluster is quiet. The mapping takes `gen`, `observed`, the phases as none,
running, completed and failed, `served` and `Undisturbed`.

### MasterRouting

`addr` is a pod's address, renewed with each pod, kept by a restarted container;
`follows` its replication source (`Itself`: a master; `Host`: the host name of
ordinal 0); `view` what each Sentinel reports, `elected` the newest election,
`known` the addresses Sentinels monitor. A pass is `BeginPass`, the scale-down
guard and `Resize`, `QueryMaster`, then either `CheckQuorum, Requery, DemoteOld,
EnsureFollows` (the master moved) or `InspectReplica, Repoint` (it did not), then
`ListPods, PatchLabel`, and `WriteStatus`, which is refused if the object changed.
A pass asks any running Sentinel: the code takes the first that answers, and any
may be that one. `quiet` is history: the Sentinel asked last named the newest
election and none followed. The operator cannot do better than that with one
answer, so the two action properties are stated under it. `AllowScale` has the three
ways past the guard: nothing to hold, a master that stays, and a StatefulSet that
could not be read, which the code takes for nothing to hold (SC 421-426).

### ACLUsers

`live` and `saved` are a node's accounts in memory and in its aclfile, `record` the
names in the `<cluster>-acl-owners` ConfigMap, `user` the RedisUser objects with
finalizer and status. An account is the version of the RedisUser it renders.
`pass` is the RedisUser reconciler: `Start` (validation, finalizer, ready pods),
`EnsureACLOwner`, then `SetUser` and `SaveUser` pod by pod, `Report`; or `Cleanup`,
`DelUser`, `SaveDeletion`, `Disown`, `RemoveFinalizer`. `prune` is the RedisSentinel
reconciler's pass: `ReadOwners`, `Enumerate` node by node, `ListUsers`, `PruneNode` and
`SavePruned`, `Complete`, `DropOwners`. Pods boot from their aclfile (`Reload`), lose
readiness, restart; the cluster may be removed and come back on its volumes. It is
removed between two prune passes only, since both are passes of its own reconciler. `Declare`
takes no username that another RedisUser of the cluster has: nothing in the code
enforces that, and with two of them each pass would overwrite the other's account,
so it is an assumption about the user. `ever`
and `slipped` are history: `slipped` collects the pairs of node and name that the
code itself loses track of (see Deviations), each added where it happens.

### ACLRules

A rule is a token with its argument. `account` is what the server keeps of an ACL
user (commands, passwords, key and channel patterns, the flags for all keys and all
channels, switches), changed by `SetUserRule` one rule at a time; `todo` is the rest of
a SETUSER under way, which nobody else sees half done, and `given` (history) all it was
given. The server refuses a SETUSER as
a whole when it adds a pattern to an account that has all of them (`Refused`), and the
account is then what it was; `~*` and `&*` are modelled as the keywords `allkeys` and
`allchannels`, which they are for Redis. `Valid` is the validation of each field,
`BuildACLRules` the header (`reset`, password, `on`), the fields and the confinement
floor in their order. `Confined` and `ExactlyAsDeclared` are about the account. The tables of commands and
categories are constants with the assumption their comments state
(`TableAssumption`): every command of a data category that a pattern does not
confine is administrative, dangerous or named by the floor.

### BackupRun and BackupCatalog

`cr` and `status` are the RedisBackup, `queued` and `timer` the workqueue, `redis` each
pod's dataset, dump and running save, `objects` and `uploads` the bucket. A pass is the
chain `check, choose, trigger, bgsave, lastsave, wait, compare, count, open, cat,
stream`, then `list, delete, report`, or `abort, failed`; every call may fail or lose its
answer. `BackupCatalog` keeps two variables, the objects and the reported one: a run
stores the newest, retention removes any but the newest, status names only the
newest. The mapping takes `objects` and `status.location`; `ImplementsCatalog` is
checked as a property. `seen` is history: `seen.reason` says that an edit, a timer or
a start of the operator has not been answered by a run yet, and `NoHotLoop` that a run
starts only then. A retry after an error keeps the reason, a finished or unneeded run
takes it away, so a failed run that returned its error, or a status write that woke
the controller, would start a run without one.

### SentinelWatch

A goroutine is a cluster, a Sentinel's ordinal and a context; `at` says whether it
waits, dials, holds a connection (`open`) or is in the callback with an announcement it
has read (`send`): the end of the context closes the connection and with it the read
(`Close`), but not a callback, so a send that blocked would keep `Start` from returning. `entry`, `context`, `cancelled` are the watcher's map
and the contexts it made, `wg` the wait group, `events` the channel, `queue` the
workqueue. Promotions are numbered: `adopted` is what each Sentinel knows, `view`
what the reconciler's last pass was told, by whichever Sentinel it asked. `owing` is
history: the last Sentinel to adopt, while its announcement is on its way.
`MaxPromotions` bounds the promotions of each cluster.

## Runs

| Run | Checks | Bounds |
|---|---|---|
| `rotation_converges` | `TypeOK`, `LinksUp`, `OldPasswordRevoked`, `NoStampAheadOfPush`; `RotationConverges` under fairness | 1+1 pods, created from nothing, 3 passwords, 3 versions, 1 fault |
| `rotation_stranded` | `PushResumed` under fairness, violated | the same, running at first |
| `restore_run` | `TypeOK`, `LoadedOnSameMaster`, `DurableOnSameMaster`, `QuiesceHeldUnlessRaced`, `ImplementsOutcome`; `RestartEnds`, `QuiesceLifted` under fairness | 2 Redis, 1 Sentinel, 1 restore, 2 generations of which the second is forced, 1 failover, 1 fault |
| `restore_failover` | `CompletedAfterLoad`, violated | 1 generation, 1 failover, no fault |
| `restore_race` | `QuiesceHeld`, violated | 1 generation, no failover, no fault |
| `routing` | `TypeOK`, `OneWriteEndpoint`, `MasterIsSpared`, `ScaleDownSparesMaster`; `RoutingConverges` under fairness | 2 pods, 2 Sentinels, 1 scaling edit, 3 addresses, 1 fault |
| `acl_accounts` | `TypeOK`, `OrphanIsRecorded`, `ReadyIsSaved`, `HandMadeSpared`; `AccountsSettle` under fairness | 2 nodes, 1 RedisUser, 2 versions, 1 fault, hand-made accounts |
| `acl_forgotten` | `ForgottenWhenPersisted`, violated | 1 node, 2 versions, 1 fault |
| `acl_rules` | `Confined`, `ExactlyAsDeclared` | 4 commands, 4 categories, 2 edits, 2 SETUSERs, three earlier lives of the account |
| `backup_run` | `TypeOK`, `SnapshotIsNew`, `NoAbandonedUpload`, `CountDescribesLocation`, `NoHotLoop`, `ImplementsCatalog`; `DueIsTaken` under fairness | 1 pod, 5 specs, 4 runs, 2 slots, 1 write, 1 edit or deletion and creation, 1 fault |
| `backup_location` | `ReportedExists`, violated | the same without edits |
| `sentinel_watch` | `TypeOK`, `NothingOutlivesStart`, `OneSubscriptionEach`, `PromotionIsFollowed`; `SubscriptionsFollow`, `ShutdownCompletes` under fairness | 1 cluster of 1 or 2 Sentinels, 1 promotion, 1 edit and recreation, 1 fault, channel of 1 |

Five runs are expected to end in a violation; each checks one sentence of the
repository (see Findings).

Why the bounds are enough: one fault stops a push in any phase, and three versions with
three passwords let it be turned back or turned to a third; the links between several
Redis nodes, which one node does not have, are covered by the theorems. Of the two
generations of a restore the first is refused by the data gate and the second goes
through, so a run that starts over after an answer is covered, and an edit during
the first; an edit in the middle of a forced run, and several Sentinels of which some
are raised, are covered by the theorems. Two pods are a master and a replica, the
third address is a replaced pod, and a fault takes a Sentinel, the master or a command
away. Two nodes are one that
answers and one that does not, or one that is away and comes back while the other
serves, in either reconciler; one fault separates any two
steps of a pass, and a second version is an edit or a rename. Retention of one is
the tightest, two slots make two runs of which the first is pruned, a write makes
an old dump tell from a new one, and two more runs are retries. A set of one
Sentinel stands for a set and two for a larger one: growing leaves an old context
beside a new, and with two a reconcile may ask the one that has not adopted; a
channel of one place is full after the first. `CHECK_DEADLOCK FALSE` is given where
everything may end (edits, slots and faults used up, the object deleted, Start
returned). The theorems lift these bounds for every safety property; those about a
restore's outcome hold as long as the state is `Undisturbed`.

Fairness. A reconcile always requeues (5 s, 30 s, or with back-off after an error),
so a pass that can step does; kubelet and the StatefulSet controller start, end
and replace pods; running Sentinels spread the configuration, vote and
reconfigure what they know. The kubelet kills a container whose liveness probe keeps
failing (`LivenessKill`). Nothing forces a fault, an edit or an eviction. In
`RestoreFlow` `Begin` is strongly fair: the workqueue hands out every queued
object although other objects keep the worker busy in between. In `ACLUsers` both
reconcilers are requeued by their resync and by pods becoming ready. In `BackupRun`
`Timeout` is strongly fair: the ten-minute timer of `waitForBGSave` runs on while polls
come and go, so a wait that is entered again and again into the same state does not
escape it; a save ends, slots of a schedule pass and a pod that is down comes back.
In `SentinelWatch` the ticker, the reads and the timers of goroutines and the
consumer of the channel go on, and a connection to a Sentinel that is gone is
noticed; no fault is ever forced.

## Findings

Each is a violation run: TLC's counterexample is the behaviour described.

- `rotation_stranded`: with A recorded and the Secret at C, a container that is replaced
  boots on C; the Secret moves on to B. The node refuses both B and A, its probe
  presents C and is content, and every push is refused by it for ever, although the
  comment of pushCredentials (SC 767-769) says "an aborted push is resumed by simply
  running it again". `RotationConverges`, which passes, says that this is the only
  way for a rotation not to end.
- `restore_failover`: a failover while the master is restarting makes the absence
  of the payload on the new master look like a load: Completed, old dataset.
  `LoadedOnSameMaster` and `DurableOnSameMaster` state what holds otherwise.
- `restore_race`: a repair pass that looked for the breadcrumb just before it was
  written, or before its cache showed it, lowers `down-after-milliseconds` while the
  master is down, although restoreHoldingQuiesce (SC 1431-1433) says the two
  controllers cannot be desynchronised. `QuiesceHeldUnlessRaced` says that a repair
  pass under way is the only one to do so.
- `backup_location`: with retention 1 a status write that is lost after pruning (failed,
  conflicting, or the operator dies before it) leaves `backupLocation` naming a deleted
  object; docs/operations.md:257-258 calls it "the exact `s3://` URL to feed a restore".
  A newer object is there (`BackupRunProofs!ReportCorrect`).
- `acl_forgotten`: the prune pass's DELUSER goes through and its ACL SAVE does not
  (failed call or crash). The next pass looks at memory only, finds nothing to
  remove, saves nothing and drops the record; the aclfile brings the account back
  at the next restart and nothing names it any more.

## Deviations seen while modelling, without a run

Each of the first four was found by TLC with the formula given, on the model as
it is.

- `pc = "stampRedis" /\ appliedPw # NoPass => \A n \in settled : LetsIn(n, AdminPassword)`
  fails in `CredentialRotation`: a push that stops while narrowing leaves nodes that
  refuse the recorded password, although docs/operations.md:165-167 and
  reportRotationFailure (SC 716-718) say the cluster "still agrees on the previously
  applied password".
- `phase[c] = "Failed" /\ ~replaced[c] => ~(up[master] /\ data[master] = c /\ ~aof[master])`
  fails in `RestoreFlow`: the deadline passes between the boot that loads the payload
  and the pass that would notice. failRestore (RC 562-564) calls that "the worst
  outcome".
- With two RedisRestore objects on one cluster `CompletedAfterLoad`, `QuiesceHeldUnlessRaced`
  and `CompletedIsDurable` fail without any fault: nothing keeps the second from staging
  over the payload of the first, whose run then completes on the dataset of the second,
  or from lowering the Sentinels and switching the AOF off under it.
- `<>[](replicas = want)` fails in `MasterRouting`, scaling from 3 to 1 without a fault:
  forced failovers may alternate between two ordinals that are to be removed. The
  comment at SC 414-417 says it "cannot loop forever against a healthy cluster".
- docs/operations.md:301-304 says the raised `down-after-milliseconds` "is converged back
  towards the spec by the `RedisSentinel` controller within one reconcile pass, so the
  protection is not reliable". The code does better: a repair pass that finds the
  breadcrumb leaves the setting alone (SC 1363-1382), which is what
  `QuiesceHeldUnlessRaced` checks and `QuiesceCorrect` proves; the README of the
  repository (201-203) agrees with the code. What is left of the docs' warning is the
  race of `restore_race`.
- A failed read of the StatefulSet passes the scale-down guard as nothing to hold. The
  comment (SC 423-424) says "Either way no pod is about to be deleted", but createOrUpdate
  reads again, and when that read succeeds the size is written with nobody having
  asked where the master is. `ScaleDownSparesMaster` speaks of an up-to-date answer and
  excepts it.
- Users, the cases `slipped` collects. An ACL SAVE that is lost after SETUSER or DELUSER
  (failed call, crash, restart before it) is made up for only by a pass that still
  has a reason to save. `handleDeletion` covers the pods that are ready when it lists
  them and then drops the record, so a pod that is away then keeps the account (one that
  the prune pass could not enumerate is cleaned when it returns, as docs/security.md:167-170
  promises, and `AccountsSettle` checks that); the
  comment at UC 324 says "Dropped only after every node took the removal". An account that is set
  on a node after the prune pass enumerated it, or whose user pass is between
  recording and saving while the prune pass drops the name, loses its record.
- Backups. A one-time backup whose last status write fails stays Running and is never retried: the error
  is logged and the result carries no requeue (`DueIsTaken` excepts it). A pod that
  restarts during the wait reports its start as LASTSAVE and status ok, so an older
  dump.rdb is streamed (BC 619; `SnapshotIsNew` excepts it). The comparison of LASTSAVE,
  in seconds, can miss a save on a busy pod and wait for the ten minutes. BackupCount
  is documented as the number of backups retained and is only ever incremented.
- Watcher. Events of other clusters can fill the channel; the wake-up that is dropped
  then is left to the periodic pass, as the comment says.
- A container that restarts while the Secret is ahead of the record boots on the
  new password and is cut off until the push reaches it; turning auth on for a
  running cluster breaks links between widen and switch (Redis clears nopass).
- After the narrow phase the probes of all running containers, which use the
  environment of their boot, fail until the roll reaches them.
- RedisBackup, RedisRestore and RedisUser read the user Secret and not the record,
  so they are refused while a rotation is pending.
- `sweepStagedPayload` removes the payload of any RedisRestore of the cluster; a
  spec edited during a run is marked observed by the run of the old generation;
  a run that fails after the load makes the loaded dataset durable; only Restoring
  and Verifying look at the deadline.
- A Sentinel that lags, asked twice, makes `handleFailover` demote the master of
  the newest election; so does a promotion between `repointStrayReplicas`' INFO
  and its SLAVEOF. If the old address is gone by then nobody repairs the pod: the
  operator leaves the pod at the reported address alone and the Sentinels have no
  replica to promote. `MasterIsSpared` and `RoutingConverges` state what holds
  otherwise.
- When no pod has the address the Sentinels report (one replica, or all pods
  replaced) every pod boots as a replica of it, for good.
- `status.masterNode` is written although handling was given up; a second master
  with an address the Sentinels do not know then stays one.

## Proofs

All constants are free: any number of pods, Sentinels, clusters, users, passwords,
addresses, versions and faults. The proofs use the named assumptions on the
constants (`ConstantsAssumption`, `RoutingAssumption`, `UsersAssumption`,
`WatchAssumption`, `RestoreAssumption`; for backups `SpecsAssumption`,
`BoundsAssumption`, `PodsAssumption`; for the rules `TableAssumption`, `BoundAssumption`,
`PriorAssumption`), which TLC evaluates on every run, and nothing else unless the
table says so. Each inductive invariant `IndInv` was first checked by TLC as an
invariant of the component's safety run, `RestoreFlow`'s `RunInv` likewise.

| Theorem | States |
|---|---|
| `CredentialRotationProofs!TypeCorrect` | `Spec => []TypeOK` |
| `CredentialRotationProofs!LinksStayUp` | `Spec => []LinksUp`, if `InitialPw # NoPass` |
| `CredentialRotationProofs!OldPasswordIsRevoked` | `Spec => []OldPasswordRevoked`, if `InitialPw # NoPass` |
| `CredentialRotationProofs!StampFollowsPush` | `Spec => []NoStampAheadOfPush` |
| `MasterRoutingProofs!TypeCorrect` | `Spec => []TypeOK` |
| `MasterRoutingProofs!WriteEndpointIsUnique` | `Spec => []OneWriteEndpoint` |
| `MasterRoutingProofs!MasterStaysMaster` | `Spec => MasterIsSpared` |
| `MasterRoutingProofs!ScaleDownIsSafe` | `Spec => ScaleDownSparesMaster` |
| `ACLRulesProofs!AccountsAreConfined` | `Spec => []Confined` |
| `ACLRulesProofs!AccountsAreAsDeclared` | `Spec => []ExactlyAsDeclared` |
| `BackupCatalogProofs!ReportIsCovered` | `CatalogSpec => []Covered` |
| `BackupRunProofs!TypeCorrect` | `Spec => []TypeOK` |
| `BackupRunProofs!SnapshotCorrect` | `Spec => []SnapshotIsNew` |
| `BackupRunProofs!UploadsCorrect` | `Spec => []NoAbandonedUpload` |
| `BackupRunProofs!CountCorrect` | `Spec => []CountDescribesLocation` |
| `BackupRunProofs!NoHotLoopCorrect` | `Spec => NoHotLoop` |
| `BackupRunProofs!Implementation` | `Spec => ImplementsCatalog` |
| `BackupRunProofs!ReportCorrect` | `Spec => []Catalog!Covered` |
| `SentinelWatchProofs!TypeCorrect` | `Spec => []TypeOK` |
| `SentinelWatchProofs!ShutdownCorrect` | `Spec => []NothingOutlivesStart` |
| `SentinelWatchProofs!SubscriptionsCorrect` | `Spec => []OneSubscriptionEach` |
| `SentinelWatchProofs!PromotionsCorrect` | `Spec => []PromotionIsFollowed` |
| `ACLUsersProofs!TypeCorrect` | `Spec => []TypeOK` |
| `ACLUsersProofs!OrphansCorrect` | `Spec => []OrphanIsRecorded` |
| `ACLUsersProofs!ReadyCorrect` | `Spec => []ReadyIsSaved` |
| `ACLUsersProofs!HandMadeCorrect` | `Spec => HandMadeSpared` |
| `RestoreFlowProofs!Invariance` | `Spec => []IndInv` |
| `RestoreFlowProofs!TypeCorrect` | `Spec => []TypeOK` |
| `RestoreFlowProofs!ShutdownIsQuiesced` | `Spec => [][Shutdown => raced \/ \A s \in Sentinels : quiesced[s]]_vars` |
| `RestoreFlowProofs!RunInvariance` | `Spec => []RunInv` |
| `RestoreFlowProofs!QuiesceCorrect` | `Spec => [](Undisturbed => QuiesceHeldUnlessRaced)` |
| `RestoreFlowProofs!LoadCorrect` | `Spec => []LoadedOnSameMaster` |
| `RestoreFlowProofs!DurableCorrect` | `Spec => []DurableOnSameMaster` |
| `RestoreFlowProofs!Implementation` | `Spec => ImplementsOutcome` |
| `RestoreFlowProofs!AnswerStands` | `Spec => [][\A c \in Restores : Terminal(c) /\ observed[c] = gen[c] => phase'[c] = phase[c]]_vars` |

Rotation. `LinksUp` alone is not inductive: `Narrow` removes passwords, and that no
peer still presents them follows only from what earlier phases did. `IndInv` adds
what each phase has established on the settled nodes it visited (`PhaseInv`), that
a settled node is one the push listed (`WriteInv`), that the target is a usable
password (`ReadInv`), that settled nodes serve (`SettledInv`), and that they are on
one password while no push has begun (`CleanInv`, which also gives
`OldPasswordRevoked`). A push that is cut short and repeated, even towards another
password, keeps `LinksUp` because every phase starts over and no node presents
the new target before all accept it. `InitialPw # NoPass` is needed: turning auth
on breaks links in the code too. `NoStampAheadOfPush` follows from `VersionInv`, the
order of the versions that the Secret, the pass, the record and the stamps hold.

Routing. `AddressInv` (addresses are unique and never reused, a live server has
one) carries the types and makes "the pod at this address" one pod. `LabelInv`
follows the labelling pod by pod: only pods still to be patched may be wrong.
`QuietInv` says that the addresses a pass is about to send SLAVEOF to never
include the one it takes for the master, and that this is the newest election
while `quiet` holds. `ResizeInv` carries the guard's answer over to the write of
the StatefulSet.

Rules. `IndInv` says that what an account was given, with what is still to be
applied, ends with the rendering of the spec applied last, which was valid then, and
that the account is what it was given means (`Meaning`, defined beside the proofs). The latter is an
induction over the steps of the server: of two rules that speak of a thing the later
one stands, so one more rule changes the meaning of a sequence exactly as
`ApplyRule` changes the account (`RuleEffect`, `OneMore`, `RuleKeepsMeaning`).
`GivenShape` cuts such a sequence at the `reset` of its last SETUSER: whatever came
before speaks of nothing any more, the header fixes password and switch, the fields
hold only rules their validation accepts (`MiddleShape`), and the floor is last
(`FloorShape`). `Confined` follows by looking at the last rule that speaks of a
command outside `Scoped`: a grant by name is on the allowlist, and a grant by
category is followed by the floor's denial, which is where `TableAssumption` is
used. Sequences of any length are covered because what a sequence means is defined
by its last rule and not by recursion, and `Meaning` carries it over to the account.
A SETUSER the server refuses is never under way, so the invariant does not see it.

Catalog. `Covered` is inductive with the types: `Expire` keeps the newest object, which
is no older than the one that covered the report.

Backups. What is streamed is the dump after the wait, and whether that is the one
asked for depends on saves that the pod starts by itself: `SaveInv` says that from
BGSAVE on the save asked for or a later one is running, has failed, or is the dump,
and that the wait ends only on the third. `BucketInv` (the object of the run is the
newest and retention does not list it) is what makes each step of the bucket one of
the catalog: `Store` for the end of an upload, `Expire` for a delete, `ReportNewest`
for the status write, a stutter for all else. `ReportCorrect` is then not proved
again: it is `ReportIsCovered` read through the refinement. `UploadInv` ties an
upload in progress to the run or to a leak that is known; `WakeInv` gives
`NoHotLoop`: what is queued, and a pass that has not decided yet, has a reason.

Watcher. `CountInv`, the wait group is the number of goroutines that have not
returned, makes `Start` wait for all of them; a cluster's goroutines are told apart
by their context, so an old set that is still winding down beside a new one does not
count twice. `PromotionIsFollowed` alone is not inductive: the unread announcement of
a Sentinel that adopted earlier would do for it, and may be lost with its connection.
`FollowInv` says that as long as every Sentinel is ahead of what the reconciler was
told, a wake-up is queued, in the channel, or with the goroutine of the very Sentinel
that is owing, unread on its connection or in its callback (`Carries`).

Users. Two reconcilers interleave over one record, and every part of the invariant
excepts exactly the pairs in `slipped`. `RecordInv`: an account in memory is recorded,
one in an aclfile is recorded or its deletion is about to be saved, a pass sets only
recorded names, and a deletion has emptied the pods it listed. `PruneInv`: what the
prune pass enumerated is still an upper bound of what a node holds, and nodes behind
it are clear of the orphans. `ReadyInv`: a user reported Ready is applied by no other
pass, and nothing that the prune pass is about to delete is of a present version.
`NameInv` gives `HandMadeSpared`: names nobody declared are as the volume had them.

Restore. `IndInv` needs no condition: a pass works on an object that its finalizer
keeps (`PassInv`), each stage belongs to a phase and each way out has its reason
(`StageInv`), an object that has a phase was taken up (`TouchedInv`), the breadcrumb
spans the run from the first SENTINEL SET and later repair passes see it
(`CrumbInv`), and what a pass has raised stays raised until SHUTDOWN (`RaiseInv`).
The outcome of a run needs `Undisturbed`, on the model and in the code: a second
RedisRestore overwrites the payload, sweeps it or lowers the Sentinels, and after a
failover the volume looked at is another one (`restore_failover`). No step makes a
disturbed cluster undisturbed again, so `RunInv` may say `Undisturbed => QuietInv`
and be inductive without a further assumption on the constants. `QuietInv` says that there
is one volume to look at (`MasterInv`), that the master is down for a run whose
breadcrumb is set (`ShutInv`), that a marker runs out with the run or after it, so a
payload that is gone was loaded or the run can only fail (`LoadInv`, the arithmetic
of age and time left), and that the AOF is on again before the run completes
(`VerifyInv`). The lemmas named `...Changes` say for each part of the state which
actions touch it, so that each later step looks at those alone. For `Implementation`
every write of a status is `Start`, `Progress`, `Complete` or `Fail`, an edit `Ask`,
a deletion `Withdraw`, the rename of a staged file `Prepare`, the boot that finds it
`Load`, and taking up a second object or a failover `Disturb`; all else stutters.
`Complete` and `Load` are where `QuietInv` is used. `AnswerStands` is the comment at
RC 150 ("Terminal phases are sticky per spec generation") for passes that began
before an edit too.

Only model-checked: the liveness properties (`RotationConverges`, `RestartEnds`,
`QuiesceLifted`, `RoutingConverges`, `AccountsSettle`, `DueIsTaken`, `SubscriptionsFollow`,
`ShutdownCompletes`), which need fairness and are out of the prover's reach.

## Not modelled

Sentinel scale-down and `pruneRemovedSentinels`, the Sentinel's own bootstrap and the
parameters of the monitor other than `down-after-milliseconds`: in the plan below.
Rendering of manifests and of redis.conf, TLS, metrics, events and conditions,
flags and leader election are left out: they are text, observability or library
code, and no modelled decision reads them. The bytes of an RDB, its checksum and
its transfer are one atomic outcome (staged, or failed) because the code makes the
payload visible by a rename. The pacing of reconnects by the watcher and of the
workqueue is time, and only its fairness is modelled.

## Plan

1. `SentinelPeers`: bootstrap, `pruneRemovedSentinels` and the rest of
   `syncSentinelMonitorConfig`; a reset never takes the quorum away.
2. Further abstract specifications, with the refinement proved as for backups and
   restores: an atomic change of password for `CredentialRotation`, a single writer for
   `MasterRouting`.
3. Theorems about a restore under a weaker condition than `Undisturbed`: several
   RedisRestore objects of which one is active at a time.
