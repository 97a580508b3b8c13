# A TLA+ development of opctl

opctl runs *ops*: trees of calls (containers, other ops, serial and parallel groups and loops of
calls) that a *node* executes. The node is a daemon; CLIs talk to it over HTTP. What happens in a
node is told by events on a bus, and the parts of the node hear of each other through that bus
rather than by return values. That is where its hard behaviours come from, and what this project is
about: `*.tla` are the models, `*.cfg` the model checker's instances, `*Proofs.tla` the theorems.
`PROJECT.json` says which lines of the code each definition stands for.

## Inventory

Paths are relative to `src/sdks/go/node/` unless they begin with `cli/` or `sdks/`.

| part | state | operations | talks to |
|---|---|---|---|
| event bus (`pubsub/`) | the subscription map, the event store (badger, one event per timestamp) | `Publish`, `Subscribe`; a goroutine per subscription and one per delivery | everything |
| call tree (`caller.go`, `serialCaller.go`, `serialLoopCaller.go`, `parallelCaller.go`, `parallelLoopCaller.go`, `opCaller.go`, `containerCaller.go`) | one goroutine per running call, contexts, need counts, `isKilled` | `Call` of each caller | bus (CallStarted, CallEnded, CallKillRequested), container runtime |
| kill loop (`core.go`, `callKiller.go`, `killOp.go`) | none of its own | `KillOp`, `Kill` | bus, state store (children of a call), container runtime |
| state store (`stateStore.go`) | auths and the last applied second (badger), calls (memory) | applying each event, `TryGetAuth`, `ListWithParentID` | bus |
| auth requests (`addAuth.go`, `removeAuth.go`) | none | publish, then poll the state store | bus, state store |
| container calls (`containerCaller.go`) | two pipes and their readers | `Call` | container runtime, bus |
| container runtimes (`containerruntime/`) | containers, networks, images of an engine | `RunContainer`, `DeleteContainerIfExists`, `Delete`, `Kill` | docker, kubernetes or an embedded VM |
| DNS (`dns/`) | names and addresses of running containers | register, unregister | container runtime, the host's resolver |
| data providers (`sdks/go/data/`) | git clones in a cache | `TryResolve` | file system, git, another node |
| interpreter (`sdks/go/opspec/interpreter/`) | none: pure functions | from specs and scopes to calls, inputs, outputs | callers |
| API (`api/`) | none | one handler per method of the node | node |
| node provider, pid file (`cli/internal/`) | the pid file, the daemon process | create, kill, find a node | operating system |
| CLI run (`cli/cmd/run.go`, `cli/internal/opgraph/`, `clioutput/`) | the call graph on display | follow events, kill on interrupt | API |
| CLI params (`cli/internal/cliparamsatisfier/`) | what was read of its sources | `Satisfy` | CLI run, terminal, environment |
| container commands (`cli/cmd/node/container_*.go`) | none | list, stop, delete, prune containers | docker |

What is hard in each, and what makes it correct:

* **Event bus.** Publishing runs beside a subscription's registration, replay and live loop; a
  consumer may stop reading without cancelling; a cancelled subscription must free what is blocked on
  it. *Correct*: whoever subscribes gets every event it asked for that the store kept, whatever the
  interleaving, until it cancels, and nothing else; replay follows the timestamps; nothing stays
  blocked on a cancelled subscription.
* **Call tree.** A call learns of its children's ends from events that come late, reordered and
  twice, while errors, `if`s, needs and kills cut calls short. *Correct*: a call reports success only
  if its children ended without failing; it fails only for a reason; serial calls come one at a time;
  a call that is still needed is not killed; every call that is made ends.
* **State store.** The node may die between applying an event and recording that it did. *Correct*:
  a restart skips nothing; every request is applied in the end; the latest request for a resource wins.
* **Docker runtime.** Each request to the engine may fail, or time out and be carried out all the same,
  while up to three parties delete the container. *Correct*: no container is left behind unnoticed;
  the exit code reported is the container's; a cancelled call returns.
* **The tunnel to docker's VM, commands.** On macOS each start of a container sets up a tunnel, one at a time;
  commands stop and delete containers that were listed a while ago. *Correct*: the tunnel heals; a command that
  reports success has done what it says, and to no container that it should have left alone.
* **Kubernetes and embedded runtimes.** Calls share a namespace, which each sweeps, or the start of a virtual
  machine; the watch that tells a pod's end lags behind it and may end first. *Correct*: success is the
  container's own; a call fails for a reason; it returns, and what was written while it watched is in the log.
* **DNS.** Containers of one name register and unregister at once, in a table without a lock.
  *Correct*: a name resolves to the containers that run, and to no other.
* **Data providers.** Calls resolve one git reference at once, with other credentials each, while the tag
  moves; the node may die halfway through replacing a copy. *Correct*: a copy is never trusted half done,
  nor an old one when the remote could be asked; who has the right credentials is let in.
* **Node provider, CLI run.** Nodes are started and told to stop at once, and die without removing their pid
  file; a run waits for an op that may be over before it listens, on a node that may go. *Correct*: one
  node; the run notices the end; a run that is forced to end leaves no op behind.
* **CLI params, call graph.** An arg is from one of five sources, most of which are read once; events of calls
  come twice and out of order. *Correct*: each arg is the first valid one; the graph says what happened.
* **Interpreter.** Scopes are maps that calls share and write to while others run; values are coerced, defaulted
  and taken from each other; ops in the cache are shared by all that use them. *Correct*: a call sees what the op's
  author gave it, in whatever order parallel calls run; variables stay within their op; params are of their
  types; nobody writes to the cache but where an op has its logs.

`PROJECT.json` lists all components, the ones left aside too, and every hazard at its line.

## The modules

| module | models | extends / instances |
|---|---|---|
| `EventDelivery` | what the bus promises | |
| `PubSub` | the bus: `pubSub.go`, `eventStore.go`, `utils.go` | refines `EventDelivery` |
| `PubSubProofs` | theorems about `PubSub` | `PubSub`, `TLAPS` |
| `CallTree` | the callers and the kill loop | |
| `CallTreeProofs` | theorems about `CallTree` | `CallTree`, `TLAPS` |
| `StateStore` | the state store, `AddAuth`, `RemoveAuth`, crashes of the node | |
| `StateStoreProofs` | theorems about `StateStore` | `StateStore`, `TLAPS` |
| `ContainerCall` | `containerCaller.go`, `k8s/k8s.go`, `embedded/embedded.go` | |
| `DockerCalls` | container calls with docker beside the container commands and the tunnel: `docker/*.go`, `cli/cmd/node/container*.go` | extends `ContainerCall` |
| `ContainerCallProofs` | theorems about both | `DockerCalls`, `TLAPS` |
| `RunContainer` | one request after the other of `docker/runContainer.go`, `deleteContainer*.go`, and the names of `dns/` | |
| `RunContainerProofs` | theorems about `RunContainer` | `RunContainer`, `TLAPS` |
| `GitCache` | the git provider: `sdks/go/data/git/` | |
| `DataResolution` | the ways to it: `sdks/go/data/`, `resolveData.go`, `cli/internal/dataresolver/`, the data and op requests of `api/` | extends `GitCache` |
| `DataResolutionProofs` | theorems about both | `DataResolution`, `TLAPS` |
| `NodeDaemon` | the node as a process: `cli/cmd/node/`, `cli/internal/pidfile/`, the server of `dns/` | |
| `OpRun` | `cli/cmd/run.go`, `cli/internal/nodeprovider/local/` | extends `NodeDaemon` |
| `CliParams` | `cli/internal/cliparamsatisfier/` | extends `OpRun` |
| `RunOutput` | `cli/internal/opgraph/`, `cli/internal/clioutput/`, the events `run.go` follows | extends `CliParams` |
| `OpRunProofs` | theorems about the four | `RunOutput`, `TLAPS` |
| `Scopes` | the variables of calls: the callers' share in them | extends `Values` |
| `ScopesMeaning` | what they mean, without shared maps | extends `Scopes` |
| `ScopesProofs` | theorems about both | `ScopesMeaning`, `FiniteSetTheorems`, `TLAPS` |
| `Values` | values and their types: `sdks/go/model/data.go` | |
| `Coercion` | `sdks/go/data/coerce/` | extends `Values` |
| `Interpreter` | expressions and references: `opspec/interpreter/{str,number,reference,...}` | extends `Coercion` |
| `CallInterpreter` | specs of calls: `opspec/interpreter/call/` | extends `Interpreter` |
| `OpCalls` | the constants of `Scopes` in the language of op files | extends `ScopesMeaning`, instantiates `CallInterpreter` |
| `MCPubSub`, `MCCallTree`, `MCContainerCall`, `MCStateStore`, `MCRunContainer`, `MCDataResolution`, `MCOpRun`, `MCScopes` | instances for TLC | the module of that name, but `MCContainerCall`: `DockerCalls`, `MCOpRun`: `RunOutput`, `MCScopes`: `OpCalls` |

### PubSub and EventDelivery

`stage` is how far `Publish` has got with an event: `Add` is `eventStore.Add`, `FanOut` the loop over
the subscriptions. Each subscription's goroutine has a program counter `pc`: *spawned* (Subscribe has
returned its channel), *registered* (in the map), *replaying* (inside `List`, over the snapshot
`toReplay`), *live*, *closing*, *done* (`Done` closed), *closed* (out of the map). A delivery goroutine
is a pair in `inflight`; `holding` is the event between the receive of `range publishEventChannel` and
the inner `select`. Channels are unbuffered, so sending and receiving are one step. `Abandon` is a
consumer that breaks out of its loop, as `serialLoopCaller` does.

Time is an integer. The store's key is the timestamp alone, so `store` maps times to events. `List`
seeks `Since` as text: `Zone` is the offset of the local time it is formatted in, zero for UTC.

`EventDelivery` says what that amounts to: attached subscribers are owed what is kept and of interest
when they attach, and all of interest that is published from then on; delivering is the only way to
stop owing short of detaching. The refinement mapping is at the end of `PubSub`: an event is published
when its write is over, a subscriber is attached from registration until its goroutine gives up, and
it is owed what is on its way to it or will be.

### CallTree

`op` is the op that is run, one of `Ops`: its tree of calls, loop iterations being children like others, and
which of them may be skipped, fail, panic or be killed. `pc` of a call follows
`caller.go` (*launched*, *entered*, *started*, *returning*, *ended*, or *noop* when its context was
done on entry) with *calling* and *awaiting* for the time inside a caller's handler. What a handler
returned is `ret`, what CallEnded says is `outcome`. A panic is a way to return: the calls it unwinds end one
by one, up to the one whose goroutine recovers it (`Unwound`). Contexts are not state: `CtxDone` derives them
from the calls above, which is what `context.WithCancel` does.

The bus is the one of `PubSub` cut down to what a call can tell apart: `stored` (since the
subscription's `Since`), `replay`, `live`, with registration and snapshot as steps of their own, so that
an event may come twice; and a subscription looks at its context only when it has an event to send.
`KillOp`, `Kill` and `HearKill` are the three steps of a kill, each of another goroutine. Which of its
children `Kill` finds depends on what the state store has applied: any subset of the started ones.

Data (scopes, inputs, outputs, the values of `if` and `until`) is abstract: a call in `Conditional` may
be skipped or stop its loop, one in `Fallible` may fail. A user asks for the kill of a call once (`asked`).

### ContainerCall

`at` follows a container call through `containerCaller.Call` and the runtime's `RunContainer`: *called*, then
with kubernetes *cleared*, *created*, *watching*, *copying* or *copyingLast* (the output of a failed pod), and
with the embedded runtime *starting* (the leader of the flight), *waiting* or *inVM*; then *ran*, while its
pipes are read to their end, and *over*. `pods` are the phases the cluster knows, `events` the ones a watch has
yet to give, which lag behind. `ran` is what RunContainer returned: *watchEnded*, *waitErred* and
*gaveUp* are the ways to return neither exit code nor error.
`exit` is the container's true exit code, `troubled` the calls to which others did something; no action reads
either. `logs` is *due* from when a pod runs under a watch, *part* if its removal cut the copying short.

Abstracted: two pipes that are read line by line are two that are read to their end; a pod's spec, and what is
in the virtual machine, are left out.

`DockerCalls` adds docker: `at` then goes through *attaching* and *replacing* (the network), *networked*, *boxed*,
*inBox*, *cleaning*. `box` is the call's container as the engine has it. What can go wrong with one request is
`RunContainer`'s; here one is carried out or refused, or its context is done (`ContextIsDone`). A removal is a
request in progress (*removing*), which others run into and take for done, and which may fail: `EngineRemoves`,
`EngineKeeps`. Without a command, which alone could run into it, it is one step. One command is given while calls run (`command`, `step`):
it lists (`listed`), has its deletions to do (`todo`), and succeeds or not; `cut` are the containers it stopped as
they ran. `Orphans` are calls of a node before this one, which left containers. The tunnel on macOS: `ups` are the
goroutines that wait for `wgUpMutex`, `holder` has it, `tun` and `peer` are its two ends, and docker's VM may restart
(`peer` *lost*, *reset*).

### StateStore

`auths` and `last` are in badger and outlive a `Crash`; the rest is memory. `Apply` and
`RecordTimestamp` are two transactions, hence two actions, with `current` in between. The bus delivers
stored events in order and live ones in any order, up to a `lag` chosen at the start of a behaviour.
`last` counts seconds, `SinceOf` is the `Since` a restarted node resumes from. Resources are abstract, but for
what begins with what (`Prefixes`) and how long they are (`Length`), which is what `TryGetAuth` goes by.

### RunContainer

The engine is a process of its own: `container` is its view of a call's container, `asked` the creates it
was sent and has not acted upon. The client may have given such a create up (`CreateFails` keeps `asked`
or not); `EngineCreates` may then complete it at any later point, and if the clean-up is over by then the
call goes to `late`. A removal is under way (*removing*) until `EngineRemoves`, or `EngineKeeps`, which
fails it.

`pc` of a call follows `RunContainer` statement by statement: *idle*, *imaging*, *checkingGpu*, *creating*,
*reconciling*, *starting*, *inspecting*, *looking*, *registering*, *waiting*, *draining*, *cleaning* (the
deferred clean-up), *returned*. `deleteContainer` is called from three places, in three goroutines;
`deletion[c][by]` is how far each has got: *stop*, *remove*, *await* (the engine removes), then *ok*,
*failed* or *timedOut*. `Kill` is `DeleteContainerIfExists` of the kill loop, `Cancel` the end of the call's
context. `MayFail` says which client calls may err: any during which the engine may fail (`Faulty`), and
those that are given a context that is done.

`table` is `ipsByHostname` for the one name all the calls have. `RegisterName` reads the entry (`LookUp`) and
then makes one if it found none (`Register`): two steps, as there is no lock.

Abstracted: the ping and the network are one step; an image that cannot be pulled is one that may be there,
hence `Image` cannot fail; the GPU check's own container is not counted among the containers; a list that
fails in `DeleteContainerIfExists` is the same as not being called; the engine's exit codes are *zero* or not.

### GitCache and DataResolution

A repo's version is one copy, with a marker file beside it that has the commit's hash. `at` of a caller
follows `TryResolve` and `Clone`: *listing* (the remote's refs), *listed*, *cloning*, *cloned*, *removing*,
*removed*, *renamed*, *marking*. One caller leads a flight (`singleflight`), the others are *waiting* and get
its result. `Torn` is a directory or file that is there in part. Commits are numbered as the tag moves. A
`Crash` leaves the files and loses the rest. `torn` remembers that a replacement was cut short.

`DataResolution` adds who calls: a run makes three requests (`stage` *list*, *get*, *start*), and the op is then
called; a nested op is called only. `given` are the credentials that come with a request, `stored` those the
node has (`AddAuth`), `PullCreds` which of them count. `Prompt` is the one question the CLI's data resolver
asks. `tries` counts the sendings of a request by the http library.

### NodeDaemon, OpRun, CliParams and RunOutput

`phase` of a node: *locking*, *looking* (at the process in the pid file), *writing*, *truncated*, *sweeping*
(resolver configs), *up*. From then on it has two servers, `api` and `dns`, in one error group: one that ends
ends the context (`ending`). `pidFile` holds a process, dead ones included; `seen` is what a node found when
it looked, so that `broken` can tell that the file had changed by the time it was overwritten. `events` is the
lock of the event store's directory. `cfgs` are whose resolver configs there are, `left` those that the last start's
sweep could not remove: any sweep may fail (`DeleteResolverCfgs`), of which a node only warns (`SweepOrWarn`) and for
which a command gives up. `KillNode` is `opctl node kill`, and the first half of `opctl node
delete`; `RemoveDataDir` the second.

`CliParams` has what each source offers for each param: nothing, something valid, or not (`offers`); `todo` are the
params still to do, `used` what was read. `RunOutput` has where each call of the op is (`call`, a coarse `CallTree`),
the events on their way to the run (`replay`, `live`) and the `graph` the run keeps: for each call the nodes it has
in it, by state, *open* for the empty one of a call that runs. `muddled` are calls of which events came twice or too
early, `told` what was printed on stderr. So that TLC can finish, a behaviour has one `world`: *nodes* (all of `OpRun`),
*params* or *output*. In the latter two there is no pid file yet, no trouble with nodes, and in *output* no
interrupt.

Abstracted: how the graph is drawn, the hint after a silence, errors reading the file of args, and whether a value
is valid (`CallInterpreter` has that).

A run is a name of a node: the one it starts, if it has to. `run` of it: *probing*, *waiting* (for the daemon to
serve or exit), *given* (a client), *started* (the op), *following* (its events). `op` is the op's life on its
node, `kill` whether a kill request reached it, *early* if that was before its call listened for them.

### Scopes, ScopesMeaning and the interpreter

A scope is a pointer to a map: `scope[c]` is the map a call was given, `outs[c]` the one it output; of maps there are
`in[c]`, made for a call, and `own[c]`, made by it. So a caller that hands on its own map, or writes to the one it was
given, does so here. `pc` of a call is *called*, *begun* (interpreted), *waiting* (for children), *ended*. `seen` and
`given` record what the call was interpreted against and what its CallEnded carried. A parent that hears of it live reads
the same map, which may have changed since; one that hears of it from the event store, what JSON made of the outputs
(`FromStore`): `Outputs` has both. Every subscriber has the map, too, and may write it as JSON at any later time
(`Published`). `fate` is what becomes of the run: *failed*, *panicked*, or *died* of a map
that was in use when it was written to.

What specs come to is a parameter of `Scopes` (`Interpretation`, `Leaves`, `Loop` and so on; but not what becomes of
the maps, as in `Merge`, `LeftByLoop` and `IterationScope`): its theorems hold whatever
op files say. `OpCalls` gives the parameters what the interpreter does: `Coercion`, `Interpreter` and `CallInterpreter`
have its functions under the names they have in the code, each value with its type and content, each error and panic.

`ScopesMeaning` says, without maps that are shared, what a call sees (`Sees`) and gives (`Gives`) by what its
parent saw and its siblings gave, and `CallsMeanWhatTheySay` holds the one against the other. It excepts the ops in
which calls run side by side with one map that one of them writes to (`Exposed`), and the runs in which the store has
altered an output (`Altered`). That no map is in use when it is written to but in the former, and in ops where a
call goes on writing to a map that an event was published with (`Overwritten`), is `DiesOnlyIfExposed`. These sets of
ops are computed from the op files alone, not from what happens.

Abstracted: text is made of words, paths and values written as JSON, so that data has no references in it; a file or
dir comes with its content, and what others write to it later is not seen; constraints are a set of allowed values;
a parallel loop has a range, `until` something in it, and volumes absolute paths;
no array or object is a null (parsed of `null`), which the store would give back as none. A subscriber's reading of a
published map is no step of its own: it may come at any time, so that whether one is possible is all there is to say. Nothing fails but the op as a whole,
since `CallTree` has failures and kills.

## What the runs show

| run | instance | shows |
|---|---|---|
| `PubSub` | 3 events of 2 ops, one subscription with any filter and `Since`, cancelled or abandoned at any point, a store that may fail | the bus implements `EventDelivery`; nothing kept is lost; only what was asked comes; replay is in order; delivery happens and deliveries end |
| `Calls` | 7 ops of up to 4 calls that between them have every kind of caller, a service with a need, empty parallel calls, failures, panics, conditions, kills | outcomes are right, serial order, needs; every call that is made ends |
| `ContainerCall` | 2 container calls with docker, kubernetes or the embedded runtime; one may be cancelled and killed, one may have a container of an earlier node; with docker a command is given, or there is the tunnel on macOS; anything may be refused, and a watch may close at any time | success and failure have their reasons, what a watched pod wrote is logged, commands keep their word though removals take time and fail, calls return, the tunnel heals |
| `StateStoreRestarts` | 4 auth requests, for a registry, a part of it and blank resources, and a call's start within 6 seconds, 2 crashes, lag 0 or 2 seconds | nothing is skipped, all is applied, a reference gets the latest creds of the longest resources it begins with, `AddAuth` finds what it added |
| `RunContainer` | 2 container calls of one name and 2 addresses, on linux; one call may be killed and cancelled, and may meet any failure | no container is left behind unnoticed, no name without a running call, no success that was not earned; a cancelled call returns |
| `DataResolution` | a run, which may find its op locally, and a nested op call, of one repo; 3 credentials of which one is right; a tag that moves once, one crash of the node, 2 sendings of a request | answers are whole and current, a marker stands for a whole copy, the right credentials suffice, every op is answered |
| `OpRun` | a run, the node it may start, another one, and a dead one's pid; one node killed, or one `node kill` or `node delete`; or 2 params with 36 choices of what their sources have; or an op of three nested calls | one process has the lock; leaked resolver configs are gone but for what a failed sweep left; stopped nodes exit; args are the first valid ones; the graph tells what happened; a run notices the end; a forced one leaves nothing |
| `Scopes` | 19 ops of up to 9 calls with every kind of call, value, predicate, param, reference and part of a container, loops with and without variables, inputs, outputs and defaults | calls see and give what they mean in every order; variables stay within their op; maps are written to alone; outputs survive the store; params are of their types; the cache stays as it was but for logs |
| `NotKilledWhileNeeded` | two tests that need one service | **violated**: see below |
| `ErrorEndsParent` | a failing container beside a serial call | **violated** |
| `NothingSkipped` | local time 5 seconds east of UTC, one crash | **violated** |
| `AllOfANameResolve` | 2 container calls of one name, nothing fails | **violated** |

Bounds. One subscription is enough for the bus, because subscriptions share nothing but the store and the
map; three events allow one before registration, one during replay and one live. In the call tree the
interesting cases are pairwise: a child beside a sibling, a call inside a call; three levels and two
children per level have them, and each op is explored with every interleaving. Two crashes allow a crash
during the replay after a crash. Container calls share the table of names and the pool of addresses and
nothing else, so one call that may meet everything beside one that succeeds has the interesting cases: an
address that is given back and used again, an entry made twice. Two container calls are one that sweeps and one that is swept, or a leader and one that waits; with
`MaxEvents` one, a pod's status changes while its output is copied; a command meets one container of this node and one
of an earlier one. `CancelledAlone` leaves out the behaviours in which one call is cancelled and something
is done to the other, and those in which a call is cancelled where the tunnel is set up, whose requests have a
context of their own (`wgUp`). Two callers of a git reference are a leader
and one that waits; a tag that moves once between any two steps is stale or current. One trouble per behaviour
of `OpRun` (a kill -9, a command, or a node's sweep that fails; a command's own may fail, too) meets two nodes and a run
at any step. Two params are one that uses up a source and one that wants it; three
nested calls have a parent that is not the root, whose events may come after its child's. The ops of `Scopes` are each explored in every order of
their parallel calls; ranges of two iterations have a first and a last. Integer bounds: `MaxCrashes`, `MaxLag`,
`MaxVersion`, `MaxTries`, `MaxTroubles`, `MaxEvents`; a loop of `Scopes` makes the calls that `CallSpec` has for it.
`CHECK_DEADLOCK FALSE` everywhere: all these systems may come to rest, an op when it has ended, the bus when
nobody publishes.

Fairness. `PubSub` and `StateStore` assume weak fairness of each goroutine, which Go's scheduler gives a
goroutine that stays runnable; publishing, subscribing, cancelling and reading are never forced.
`CallTree` assumes less: that *some* call, subscription or kill moves while any can. A container that is not a
service is taken to exit in the end. `DockerCalls` assumes likewise that *some* call, goroutine or container moves
while any can: a call's own requests are answered or refused, a container that runs exits, a watch closes once
its context is done. No pod has to start, no command to be given, no VM to restart.
`RunContainer` assumes what the code's timeouts give: a client call with a deadline ends, and so does one whose
context is done. Pulling an image and waiting for a container have no deadline, the GPU check has neither
(`Bounded`). The engine is fair to the calls it does not fail and to no other; no container need exit.
`DataResolution`: the CLI and the leader of a flight carry on, and what a leader asks of the remote is answered
or fails; nobody has to interrupt, move the tag or add credentials. `OpRun`: runs, nodes and commands carry on,
and an op that heard of a kill ends (which `CallTree` is about); no op ends of itself, and calls below it need not do
anything. `Scopes` has no liveness.

## Where the code does not do what it says

The `violation` runs show, with the shortest behaviour TLC finds:

* `NotKilledWhileNeeded`: `parallelCaller.go:158` counts a child's end once per CallEnded *seen*. An
  event published between a subscription's registration and its snapshot is seen twice, and with two
  calls that need one service the service is killed when the first ends.
* `ErrorEndsParent`: on a child's error a parallel call cancels the others; one that has not been
  entered yet returns without a CallEnded (`caller.go:105`), which the parallel call waits for.
* `NothingSkipped`: `time.Unix` is local time (`stateStore.go:109`), formatted with its offset and
  sought as text among UTC keys. East of UTC a restart resumes late. The same holds of any `Since` given
  in local time (`sdks/go/model/req.go:23`).
* `AllOfANameResolve`: two containers of one name register at once, both find no entry, and the second
  to make one drops the address of the first (`dns/registerName.go:15`), though "the ips of all containers
  will be resolved" (`website/docs/training/containers/container-networking.md:10`). The map has no lock,
  so that Go's runtime may also stop the node.

### Known gaps

Behaviours the models have, which no property above forbids:

* Events of the same instant overwrite each other in the store (`pubsub/eventStore.go:42`), so a later
  subscription misses one. `NoLostEvent` speaks of kept events for that reason.
* An event may be sent after its subscription's context is done (`pubsub/pubSub.go:94`).
* A container that the kill loop stops before its call has heard of the kill counts as failed
  (`caller.go:234`).
* A kill requested before a call took its `callStartTime` never reaches its listener (`caller.go:227`);
  a needed service that starts late runs on.
* Kill requests are published for calls that have ended (`parallelCaller.go:164`).
* A serial call killed while it makes a call waits for a CallEnded that does not come (`serialCaller.go:93`), and
  a parallel call without children for any (`parallelCaller.go:180`). `Stranded` names what calls may wait for in
  vain.
* A panic is recovered to "treat as errors" (`parallelCaller.go:95`, `startOp.go:70`), but sets none: the CallEnded
  of every call it unwinds says succeeded (`caller.go:137`), and a parallel call may succeed around it.
* The embedded runtime returns the error of the virtual machine's start, which may be another call's
  cancellation (`embedded.go:171`), without closing the pipes (`embedded.go:158`): the container call then waits for
  ever, cancelled or not.
* The API server ends a watch after half an hour or so. A container that runs longer is then copied to its end,
  and whatever its exit code the call succeeds (`k8s.go:205`).
* Each kubernetes call deletes the terminated pods of all (`k8s.go:116`). One that its own call has not yet watched
  to its end makes that call fail, lose output or wait for ever. A cancelled call leaves its pod running unless it
  was killed; a pod that is never seen running leaves no output, of which `LogsAreWhole` therefore says nothing; a
  failed one's is copied twice.
* The role in `k8s/resources.yaml` has no verb to delete, which the sweep needs; `constructPod` gives every command
  twice and takes an image without reference for granted (`constructPod.go`).
* Deliveries may overtake each other without bound, an AuthRemoved the AuthAdded before it;
  `LatestRequestWins` is about behaviours in which they do not.
* A create that times out, is not there when the reconciliation and the clean-up list, and is completed
  afterwards leaves a container (`late` in `RunContainer`), though "we never leak orphan
  `Created`-state containers" (`docker/runContainer.go:168`). `LeftoversAreKnown` names that exception.
* An error of `ContainerWait` is assigned to a variable of the `select`'s own (`docker/runContainer.go:310`): it
  is dropped, and the exit code stays zero. Both `SuccessIsEarned` name that exception.
* A removal that is "already in progress" counts as one that succeeded (`docker/deleteContainer.go:47`), for
  a call's clean-up as for `node kill`, though it may not be over and may still fail. `KillLeavesNothing` names it.
* When resolver configs cannot be removed a node warns, and serves with what is left (`cli/cmd/node/create.go:82`);
  `node kill` and `node delete` give up when the node is told to exit already (`kill.go:38`, `delete.go:45`).
* The GPU check has no deadline and ignores cancellation (`docker/isGpuSupported.go:45`), though
  `CHANGELOG.md:178` has timeouts on every call but two; a call cancelled there need not return.
* A container that stops gives its address back before it is unregistered, so that unregistering it may
  unregister another of the same name that got the address (`dns/unregisterName.go:12`).
* Auths for blank resources are stored and never found, so `AddAuth` for them times out (`stateStore.go:256`).
* `AddAuth` may answer before its entry is applied, if there was an older one (`addAuth.go:39`).
* Credentials entered at the CLI's prompt go with the first two requests only (`cli/cmd/run.go:173`). The op's
  call resolves it once more, without them; `RightCredsAreUsed` is about the requests that have them.
* A caller that shares a flight gets the leader's error: an auth error though its own credentials are
  right, or the end of the leader's context (`sdks/go/data/git/git.go:57` has the path for a key).
* A crash or a failed `RemoveAll` between `git.go:105` and `:106` leaves a marker without a whole copy, which a
  resolve that finds no network then takes for good (`torn` in `MarkedIsWhole`).
* A tag that moves and moves back while it is cloned leaves the marker of one commit beside the copy of
  another (`git.go:90`); tags move forward in the model.
* Two nodes that find one stale pid file both overwrite it and both run on, and the second clears the
  first's resolver configs (`pidfile/tryGetLock.go:24`); likewise when the data dir is removed under a
  node that `node delete` did not wait for. `broken` names both.
* A node that dies between making its pid file and writing it leaves an empty one, and every later create, kill
  and delete fails (`pidfile/tryGetLock.go:37`).
* When the pid of a dead node is used again, a node is "already running" though there is none, and `node kill`
  signals a process that is none of its own.
* A node whose DNS server is told to stop before it listens never exits and takes no SIGTERM any more (`deaf`).
* A run may be given a client of a node that is about to stop (`createNodeIfNotExists.go:154`), and `daemonErr`
  is read there without synchronisation with the goroutine that writes it.
* The error of `KillOp` is not looked at (`cli/cmd/run.go`): a first Control-C may stop nothing. A run that
  follows another node than its op's may wait for ever.
* The network is made anew while another call is about to start on it, which then fails
  (`docker/ensureNetworkAttached.go`). `Trouble` has that as a reason.
* A tunnel that is up keeps `wgUpMutex` as long as its device lives (`docker/ensureNetworkAttached.go:120`): later
  starts wait for it, and when docker's VM has restarted nothing sets the tunnel up again, though that "is intended to
  be run every time a container starts in order to self-heal" (`:53`). A set-up that fails halfway leaves its device,
  which is taken for a tunnel from then on; two nodes can each have one. `CannotHeal` names these.
* `container prune` deletes what was not running when it was listed (`cli/cmd/node/container_prune.go:102`), and so
  stops a container that was started since. `node delete` deletes containers before the node stops, which may start
  others; `node kill` does not wait for the node; and a hint to update after `node delete` makes the data dir anew.
* Containers of one op that have no name write to one log file.
* An arg that is not valid gives way to the next source, a default included, though "the CLI will (re)prompt until a
  valid arg is obtained" (`cli/cmd/run.go:71`). Defaults but for relative paths are not validated.
* The call graph loses a call whose start comes before its parent's, shows one twice whose start comes twice, and
  takes a skip that comes twice for a success (`opgraph/callgraph.go:243`); `muddled` names these. An event it means to
  "just ignore" (`:57`) prints an empty line. The end of a call that could not be interpreted has no ParentID, so that
  the graph leaves it out and complains. A run ends with its root call's end, whatever output is still on its way.
* `gt`, `gte`, `lt`, `lte` compare each item with the first one (`predicates/predicate/gt/interpret.go:26`), though
  with "the next" in the docs (`website/docs/reference/opspec/op-directory/op/call/predicate.md:31`). `ne` wants all items to differ,
  there "one or more" (`:55`).
* A loop's key is not set for arrays, though it is in `loop-vars.md:24`; a loop with a range leaves its key and value
  set (`loop/deScope.go:28`).
* Items of an array that is written in an op file are boxed, so that `$(arr[0])` fails; as outputs they come out of
  the event store as plain objects (`pubsub/eventStore.go:36`), so that what a parent gets depends on whether it was
  in time to hear of the call's end live. `Altered` names these. A key `0.0.0.0` of sockets is
  taken as it is written, blanks included. `$(./new)`, bound to a file or dir of a container, makes one in the op's
  dir in the cache.
* A container's dir for logs is not copied (`call/container/logs/interpret.go:36`): with `log: {dir: $(./sub)}` the node
  writes its logs into the cached op, for all that use it. `CachedFilesAreUntouched` excepts what is in such a dir.
* A loop variable given as a reference, `$(i)`, is bound as `i` and taken away as `$(i)`: it leaks, what it hid
  is not put back, and a null is put into the scope (`loop/deScope.go:25`). The test of `callSpecLoopRange` there
  is the wrong way round. A reference to a null panics (`interpreter/value/interpret.go:98`).
* A parallel loop writes its iterations' outputs into the scope it was given (`parallelLoopCaller.go:147`), and a
  loop without variables gives its iterations its own (`loop/iteration/scope.go:35`). Beside another call that
  has the same scope, that is a data race: what the other sees depends on the order, and Go may stop the
  node. `Exposed` names these ops. One iteration suffices, as the loop reads its scope for the next one meanwhile.
* CallEnded has the map itself as a call's outputs, for every subscriber (`pubsub/pubSub.go:136`); the API writes it as
  JSON (`events/stream/handler.go:92`) while a serial call or loop that a loop without variables gave it to goes on
  merging into it (`serialCaller.go:101`, `serialLoopCaller.go:122`), so that Go may stop the node without any parallel
  call. `Overwritten` names these ops.
* A serial call in a parallel one outputs its whole scope, so an unchanged variable of a later sibling overrides
  an earlier one's new value (`parallelCaller.go`). `Gives` has that as the meaning, and so do the tests.
* A serial loop asks whether its index equals the range's length (`isIterationComplete.go:20`): one whose body
  shrinks the range goes on for ever. `CallsMeanWhatTheySay` takes the same test for what the loop means, and so does
  not catch it. A parallel loop without a range launches iterations for ever.

## What is proved

Each module's theorems are for every value of its constants that its assumptions allow. TLC evaluates these on
every run; they are types, distinct timestamps in `StateStore`, and that calls form trees, with the equations of what
is defined along these (which calls are above one, or below; which write to the map they were given).

`PubSubProofs`, for any events, timestamps, subscriptions and filters:

* `TypeCorrect`, `NoEventIsLost`, `NothingUnasked`, `ReplayedInOrder`. The inductive invariant is `Inv` of
  `PubSub`. `NoLostEvent` needs to know that what is stored was added (`StoredWasAdded`: otherwise
  overwriting could bring back an event), that nothing is on its way to a subscription that has not
  begun (`NothingBefore`), that what is on its way was asked for (`OnlyAskedOnItsWay`); `ReplayInOrder`
  needs that what an iterator has left is younger than what it has sent (`IteratorSorted`).
* `BusImplementsDelivery`: `Spec => Delivery!Spec`, if timestamps are distinct and `Zone` is not
  positive. Both are needed: an event overwritten between registration and snapshot was owed and
  never comes, and so is one that a `Since` from east of UTC skips. One lemma per action shows which step
  of `EventDelivery` it is, or that it is none.

`CallTreeProofs`, for any trees of calls, failures, panics, kills and deliveries: `OneCallAtATime`,
`FailuresHaveReasons`, `SuccessesAreComplete`. The inductive invariant, `TreeInv`, has two parts. `CallsInv` says in
which order things happen: of a caller that is not parallel only the child whose turn it is runs, and the ones before it
are over (`OneRuns`, `InOrder`); an event that says a call has ended is true, whether it is stored, on its way or seen,
twice or late (`EventsAreTrue`). `ContextsInv` says why: a handler that returns, or goes past a child, does so because the
child ended without failing, because of a failure below it, or because its context is done, and that no later step
takes back, since a call's context stays done (`Cancelled`). The calls above a call are given with their equation,
so that no induction over the tree is needed.

`StateStoreProofs`:

* `TypeCorrect`, and `RestartSkipsNothing`: if `MaxLag + Zone <= 2 * Second`, a restart
  replays every event not applied. The invariant adds to `NothingSkipped` that the recorded second is
  that of a published event (so what is published later is not skipped) and that the event about to be
  recorded has overtaken nothing by more than the lag. The condition is the exact meaning of the two
  seconds `stateStore.go` goes back; the violated run is one that breaks it.
* `LatestRequestAlwaysWins`, `AddedIsAlwaysFound`, if `Zone <= 2 * Second`. The invariant, `OrderInv`, is that while
  deliveries are in order what is pending is closed upwards in time: of the requests for a resource, one that is not
  pending is the latest of those applied, and its effect is in `auths`. A crash makes pending again only what is
  applied again in order.

`RunContainerProofs`, for any calls, faults, cancellations and addresses:

* `TypeCorrect`, which needs that whoever is about to change the name's entry has seen or made one
  (`EntryCorrect`).
* `NamesAreCalls`: `NamesGoWithCalls` always holds, although the table has no lock. It is inductive with
  `EntryMade`: lost updates lose addresses and never keep one.
* `NoneLeftBehind`: `LeftoversAreKnown` always holds. The inductive invariant, `AllTidy`, is one of each call:
  the clean-up starts when RunContainer returns and is over when it has returned (`CleanUpInPlace`); the
  engine is asked once and before there is a container (`AskedOnce`), so a late create cannot revive one that
  was removed; a removal under way has a deleter that waits or one that reported giving up
  (`RemovalsAwaited`); and so a clean-up that went well leaves nothing (`CleanedUp`). Without
  `RemovalsAwaited`, "removal already in progress", which a deleter takes for success, could be the
  removal of nobody, and its failure nobody's to report.
* `SuccessesAreEarned`: `SuccessIsEarned`. Once a container has been started no create is under way, so that what
  exited stays the container that was waited for, and so does its exit code (`Earned`).

`ContainerCallProofs`, for any calls, runtimes, commands and orphans:

* `SuccessesAreEarned`, `CallsFailForAReason`, `LogsStayWhole`, `CommandsKeepTheirWordAlways`, `DockerTypes`. The
  inductive invariant, `DockerInv`, follows the exit code from the container to the call's result: through the pod's
  phase, the events of the watch that lag behind it, what RunContainer returned, what is still in the pipes; and what
  a pod wrote, from when it runs under a watch until it is copied (`Owed`: its watch will tell that it runs before it
  tells of its end, `Ahead`). An event
  that tells of an end is one of the pod's true end, since a pod that was swept has no later phase. For commands, what
  one has done to a container never comes undone, since a call that lost its container makes no second one; a removal that a command waits for is its own, so that its
  failure is the command's, and one that it took for done is marked so (*taken*), which is the property's exception.

`DataResolutionProofs`, for any callers, credentials and numbers of crashes and of moves of the tag:

* `CacheInvariant`, `RunsTypes`: the types of the cache alone and of its callers, with what a caller's step says of
  the flight (one leads, whoever waits waits for somebody).
* `CacheAnswersAreCurrent`, `CacheMarksWhatIsWhole`: `AnsweredIsCurrent` and `MarkedIsWhole` of the cache. What
  carries them is that a commit never decreases along tag, hash, clone, copy (`hash <= tmp <= tag`, and a
  marker at most its copy): a copy that a marker vouches for is as new as the hash that was compared with it.
* `RunsUseTheCache`: `DataResolution` implements `GitCache`; so `RunsAnswersAreCurrent` and `RunsFindWholeCopies`.
* `RightCredsSuffice`: `RightCredsAreUsed`. Whoever leads resolves with what it was given.

`OpRunProofs`, for any nodes, runs, params, sources, trees of calls and numbers of troubles:

* `LockHolds`, `SweptBeforeServing`: `LockIsExclusive` and `LeakedCfgsAreSwept`, unless `broken`. While the lock
  is not broken at most one node is past its look at the pid file, and the file holds it or is empty; a config
  can only be of a node that is up, so the sweep of the next one, which comes before it serves, clears it or
  leaves it in `left`; sweeps that fail later, of nodes or commands, remove less but add nothing.
* `RunsKeepToNodes`: `OpRun` implements `NodeDaemon`; `OutputKeepsToRuns`: `RunOutput` implements `OpRun`. So both
  properties hold of runs (`LockHoldsWithRuns`, `SweptBeforeServingRuns`) and of the specification that is run
  (`LockHoldsWithOutput`, `SweptBeforeServingOutput`).
* `RunTypes`, `OutputTypes`: the types of all four.
* `ArgsAreAlwaysFirstValid`: `ArgsAreFirstValid`. A source is skipped for a param if it was read for it, so the
  invariant (`ParamsInv`) has to say that what was read in vain for a param still to do was not valid; and that
  params are done one by one, each once.
* `GraphIsAlwaysTrue`: `GraphIsTrue`. The invariant (`OutputInv`) says that an event that is stored, on its way or read
  is of something that happened (`EventsTell`), that nothing is on its way before the run follows its op
  (`StreamsOnce`), that for a run which is not late the store has a call's start before its end and its parent's
  before its own (`StoredInOrder`), and that what is shown of a call that is not muddled goes with what was read,
  which for its parent it says, too (`ShownRight`).

`ScopesProofs`, for any op files, whatever their expressions come to, and any order of their calls:

* `VariablesStayWithinOps`: `OpsAreScoped`. It is inductive once it is said of calls that are not made yet, too.
* `MapsAreWrittenAlone`: `DiesOnlyIfExposed`. It takes three invariants. `SharingInv` says that a call that is over has
  no live ones below it, and which of its calls may be live at each step (`Nested`); that a map has come down from the
  call it was made for or by (`HandedDown`); that of two live calls with one map, either the one above hands it on, and
  is said to write if the one below does (`SharedBelow`), or neither writes, unless the op is `Exposed`
  (`SharedBeside`). A call that writes then finds that who else uses its map is above it, hands it on, and so would be
  `Exposes`. `ControlInv` (below) says how far each call is, and `PublishingInv` whose maps are published: a call outputs
  its own map, or is one that publishes what it was given (`OutputsOf`); the map of the latter was made by a call above
  that has a child that publishes (`PublishedFrom`, `PublishedBelow`), which is what `Overwrites` speaks of if it
  goes on writing; and no live call that writes has a map that one beside it published (`PublishedBeside`). What a step
  may do to the calls' places and outputs is said once (`Progress`).
* `CallsAlwaysMeanWhatTheySay`: `CallsMeanWhatTheySay`. Nothing is assumed of what expressions come to, nor that a loop
  ends. Besides `SharingInv` it takes two invariants, of which `MeaningInv` holds
  until the op is `Exposed` or `Altered`: then what a parent reads live and what it reads from the store are the same. `ControlInv` says how far a call has got with those that it makes:
  which are called, over and not called yet (`Made`), and that none below a call that is not called is (`Placed`).
  `MeaningInv` says what is in the maps that are still to be read, and no more, since the others may be written to: a
  child that was called has a map with what its parent means it to see, and one that was interpreted saw that
  (`SeesRight`); what a child has output is still so while the parent has to take it, and what the child left unset in
  it is, in the map it was given, as the child saw it (`Kept`: this is what lets outputs be merged into a map the child
  may have written to); a serial call's own map, a serial loop's last one, the length it remembers and the map of a call
  that writes to none (`Clean`) are what its calls so far make them (`GoesRight`); what was output is what is meant
  (`GaveRight`). The step of a call x then has two halves. `FrameStep` says which maps it may write to (`Rewrites`):
  those of children that do not run, its own and, if it writes and its own calls are over, the one it was given; the
  lemmas after it, that no other call has still to read one of those, by `SharingInv`, so what is said of the others
  stays (`OthersSee` and the lemmas before it). And for x itself there is a lemma for each action (`StepsRightly`),
  which for merging rest on `MergingOneMore`: outputs merged one by one are as if merged all at once. The assumptions
  are the two of the models: calls are of the kinds there are and stay in their file (`ScopesAssumption`), and make a
  tree (`TreeAssumption`, which every instance evaluates).

Proving changed the models where they were wrong or said too little: `Exposes` left out a parallel loop of one
iteration, which reads its scope for the next one while its call writes to it; `OutcomeOf`, `Truth` and `Copied` had
CASEs whose guards overlap; what leaving a loop comes to was a parameter of `Scopes`, of which nothing could be said,
and is `LeftByLoop` now, with only the names to take back left open; `Prefixes` had no bound on the lengths of what
begins with what; and `Params` might have had a name twice.

Model-checked only: all liveness, since fairness is out of the prover's reach; `NotKilledWhileNeeded`, which is no theorem
(another run violates it); and `ParamsAreOfTheirTypes` and `CachedFilesAreUntouched`, which are about values of any
depth, hence recursive operators. The types of the modules that have theorems are proved and not checked.

## Plan

In this order; all are done.

1. `EventDelivery`, `PubSub`, proofs. Everything else rests on the bus.
2. `CallTree`: the core of the program; proofs.
3. `StateStore`, proofs.
4. `RunContainer`, proofs.
5. `NodeDaemon` and `OpRun`, then `CliParams` and `RunOutput`, proofs.
6. `GitCache` and `DataResolution`, proofs.
7. `Scopes` and `ScopesMeaning`, then the interpreter in `OpCalls`; proofs of `Scopes`.
8. `ContainerCall` and `DockerCalls`, proofs.
9. `CallsMeanWhatTheySay` as a theorem of `Scopes`.

## Not modelled

* Of the container runtimes the construction of their requests, the pulling of images, the WireGuard protocol and the
  rotation of log files; of commands those that only show something.
* Text within words, the wording of errors, validation by schema beyond allowed values. Parsing and validation of op
  files.
* The web socket's acknowledgements, auth requests and local files in the API; logging.
* How the CLI draws the call graph, the other CLI commands, the doctor, the web app, the website. They read what
  others keep, or run one step after another.
