# germina-cli: models, checks and proofs

germina-cli is an interactive orchestrator. Nodes (germina clients and servers)
connect to it over QUIC; a user at its prompt lists them, asks them for
information and switches their development mode. This directory holds TLA+
models of the program, the TLC runs that check them on small instances, and
theorems about them that TLAPS checks. Paths below are relative to the
repository.

## Inventory

| Part | State | Operations | Interacts with | Status |
|---|---|---|---|---|
| Session transport (`src/src/node/session/{listener,handlers,protocol,events}.rs`) | one task per connection and per bidirectional stream; the bounded channel of `TransportEvent`s (1024) | accept a connection, accept a stream, read the hello, forward RPC lines, log lines and the end | peers; sends events to the node manager | modelled (`Session`, `StreamFeed`, `SessionFeed`) |
| Node service (`node/service.rs`) | the table of nodes, the RPC sequence number, the table of pending RPCs | mark connected / disconnected / failed, set sender, set dev mode, route an answer, send a request with a 3 s timeout, shut down | owned by the node manager | modelled (`NodeService`) |
| Node manager (`node/mod.rs`, `node/command.rs`) | the service, the receiving end of the channel | `list`, `set_dev_mode`, `info`, `refresh_events`, `shutdown` | takes events; writes requests to peers | modelled (`NodeManager`) |
| Launch configuration sync (`core/launch.rs`) | `.vscode/launch.json`, `.vscode/tasks.json` | rewrite the managed entries at every start | file system, the user's editor | modelled (`LaunchFiles`, `LaunchSync`; several starts at once: `Startup`) |
| Core command loop (`core/mod.rs`) | the request channel (100), one oneshot per command | `new`, `initialize`, `run` | everything above | modelled (`Console`; `new` and `initialize` in `Startup`; node commands in `NodeManager`) |
| Command line (`cli.rs`) | where the loop stands | read, parse, send, await, report, leave | the user; the core | modelled (`Console`, `Dialogue`) |
| Lifecycle (`main.rs`) | two tasks | start, join, end | all | modelled (`Startup` up to the first command, `Console` from there) |
| Console output (`ui.rs`) | an output lock, the prompt flag | `print_prompt`, `print_line`, `set_prompt_visible` | every task prints | modelled (`Ui`) |
| Check command (`core/check.rs`) | the issues collected | look at the folder and the components, probe tools, binaries and the registry with timeouts | child processes, file system | modelled (`CheckCommand`) |
| Configuration (`config.rs`) | host and ports | test the arguments, choose a host | network, three public services | modelled (`Startup`) |
| Web manager (`web/`) | a flag and an address | start, stop, status | nothing | not modelled |
| TLS identity (`node/session/config.rs`) | a certificate, made once | generate | the listener | partly: its failure ends a start |
| Assets, version, helpers | none | - | - | not modelled |

### What is hard here

* **The manager drains its channel only inside a command.** Tasks block when
  the channel is full; the answer to a request comes through the same channel
  that the manager does not read while it awaits that answer.
* **Events name a node, not a session.** A node can have several streams, and
  come back before its old ones are seen to end.
* **Failure is silent.** A stream task that meets a read error returns without
  an event; a write error leaves its pending entry behind; `set_rpc_sender` and
  `mark_disconnected` ignore an unknown node.
* **Timeouts and ids.** Late and repeated answers meet a table keyed by a
  sequence number that must not come round.
* **Two files, no transaction.** launch.json is written before tasks.json is
  read, `fs::write` is not atomic, nothing locks the files against another start
  or an editor, and they are written before the endpoint is bound.
* **One terminal, many printers.** Tasks print while the user is asked; the
  prompt flag is read under the output lock and cleared without it.
* **A world that moves.** The check command decides in one step what it uses in
  a later one; a probe that times out is taken for a missing tool in one place
  and ends the whole check in another.
* **Blocking start.** Without `--host` up to three services are asked over the
  network, with timeouts per read.

`PROJECT.json` lists each of these under "hazards", at its line, with the
properties aimed at it.

## Modules

```
Session --- NodeService --- NodeManager --- NodeClaims --- MCNodeClaims
   |                             `--- MCNodeManager
   `------- SessionFeed ==> StreamFeed
Filters ------'  `--- MCSession
   `------- LaunchFiles --- LaunchSync --- MCLaunchSync
Startup --- MCStartup
CheckCommand --- MCCheck
Ui --- Console ==> Dialogue
          `--- MCConsole

FilterProofs   (Filters)
SessionProofs  (SessionFeed, FilterProofs) --- NodeManagerProofs (NodeManager)
LaunchProofs   (LaunchSync, FilterProofs)
StartupProofs  (Startup)    CheckProofs (CheckCommand)    ConsoleProofs (Console)
```

A module extends those to its left; `==>` is a refinement. In the second part, a
module of proofs extends those in its parentheses.

A program's life is cut at two points. `Startup` ends where `Console` begins:
the program listens and asks its user for a command. What a command does, while
`Console` only knows that it prints and comes to a result, is `NodeManager`'s
(with `Session` under it) and `CheckCommand`'s.

**`Session`** models the listener and the stream tasks. `handler[s]` is the
program counter of the task of stream `s`; every `.await` of `handlers.rs` is a
value of it: waiting for a line ("hello", "rpc", "log") or for room in the
channel ("connected", "ready", "incoming", "eof"). `Send` is
`event_tx.send(..).await.ok()`: it waits for room and does nothing once the
receiver is gone. `TrySend` is the `try_send` of log records. `ReadEof` and
`ReadError` differ as in the code: only the end of an RPC stream is reported.
An event has one more field than in the code, the stream it came from; for
`Connected` and `RpcStreamReady` that is the handle the event carries, for the
others it is provenance that properties use and no action reads.

**`StreamFeed`** is the promise of the transport to its consumer, per stream:
announcement, send half, messages in order, end; each once, none lost, until
the consumer goes. There is no channel in it. **`SessionFeed`** gives the
refinement mapping: the phase of a stream is read off its program counter, its
inbox off the shared channel and the message its task holds. **`Filters`** has
`Retain`, the `Vec::retain` of `core/launch.rs`, as a recursive function: the
mapping and `LaunchFiles` both filter with it.

**`NodeService`** has one operator per method of `NodeService` that writes.
`pending_rpc` is the set of ids with a waiting oneshot. A oneshot is resolved in
the very step that removes its id, so "the answer has come" is "the id is not in
the table any more".

**`NodeManager`** composes the two with the commands. `pc` is where the command
being served stands, `after` where it goes when `refresh_events` is done. A
command is `Submit`, then `Refresh` per event and `RefreshDone`, then `Local`
(or `NotFound`), another refresh, then `NoStream`, `Overflow` or `Issue`, then
`WriteOk` or `WriteFail`, `AwaitFinish`, a last refresh and `Report`. Between
any two of these every task, connection and peer may move. `asked` records the
requests that reached a peer: a peer answers only what it was asked, as often
and in whatever order it likes, and makes calls of its own. `calls` is history:
the fate of each request id. `node list` does not refresh: a node that has
announced itself appears in the list only after the next `dev` or `info`; that
is the code's behaviour and no property says otherwise.

**`NodeClaims`** states what the program's texts tell its user; see Findings.

**`LaunchFiles`** has the entries of the two files and the functions that build
and remove them, under the names of the code. An entry keeps its name, the task
it needs, the endpoint and the kind of program it starts; paths, presets and
commands are left out. A name is its recognised prefix and what stands in the
parentheses. **`LaunchSync`** is the start of the program as a process:
`Start`, `WriteLaunch`, `WriteTasks`, each of which may end in an unreadable
file or a torn write (a crash, a full disk), and the user, who edits, deletes
and repairs the files between starts. A file is absent, empty, invalid (not
readable, not JSON, or not of the expected shape) or valid with its entries.

**`Ui`** is `ui.rs`: `printing[p]` is where the `print_line` of a printer
stands, the output lock is held by whoever is between its first and last write,
and `line` is what stands in the last line of the (external) terminal. stdout
may break at any time; every print then fails.

**`Console`** composes `Ui` with the two tasks of the program: `cli` is where
`run_loop` stands, `core` where `Core::run` does, `queue` and `completion` are
the request channel and the oneshot of the request in flight. `read_line` blocks
the main thread (`read`); the prompt flag is cleared in a later step (`clear`),
before which any other task may print. Every way out of `run_loop` is there:
`exit`, end of input, a read error, a failed print. `outcome` keeps which. The
sender is dropped with `run_loop`'s return; only then the core shuts down, and
`main` joins it. `stray` is history. **`Dialogue`** is what the two tasks promise
each other: a command is asked, answered, and the answer is taken before the
next. The mapping (`Turn`, `Serving` in `Console`) looks at the core's side only.

**`CheckCommand`** is one check: `pc` is the stage and its subject, and every
look into the runtime folder (one `exists`, `is_dir` or `is_file`), every child
process started and every answer awaited is a step, so that the `world` (folders,
binaries, tools, the registry) may change between any two. The modules folder
takes two looks (`exists`, `directory`), a component up to three (`exe` on Windows,
`file`, `folder`) and a folder found up to four more, one per entry that makes it
a source folder. Only the looks at the program's own path (`Locate`) are taken
together: nothing is decided by them but whether the check goes on. A binary is
started by its path again, on Windows the one with the suffix first (`Program`).
`errors` are the issues collected, `outcome` how the check
ended: `ok`, `issues`, or `aborted` by a `?`. Which failures are collected and
which abort differs from probe to probe, as in the code: a slow tool is reported
as missing, a slow binary or `reg` ends the check, and so does a tool that cannot
be run. `worlds` and `slow` are history. What an issue states of a world is in
`Facts` and `Holds`, written against the state of the world and not against the
order of the probes: the reference definition of the main properties. An issue
that took several looks has a fact for each of them, and `NothingMadeUp` asks of
each that it was so at some time, which need not be the same for all.

**`Startup`** has several programs that start on one root: the tests of the
arguments, the choice of a host (`network`, `ask`, `answer`), the root, then each
of the two files read, truncated and written in separate steps, then the bind. A
start can fail or be killed at every point (`Ends`, `ListenFails`). Two programs
that write one file at the same time may leave a mixture of both texts (`Mixed`),
at which every later start fails (`LoadFails`) until the user repairs it. The editor
opens a file and saves what it had opened, changed, at any later time. A file is
reduced to the user's entries, the program whose entries are in it and the
endpoint these name; what the entries are is `LaunchFiles`'. `found` is history:
the user's entries at the start of a program, forgotten as soon as anybody else
writes a file or mixes the text.

## Runs

| Run | Instance | Question | Properties |
|---|---|---|---|
| `session_feed` | 2 streams on 2 connections, 1 node, channel of 2 | does the shared bounded channel show? | `SessionTypeOK`, `FeedSpec` |
| `node_reconnect` | 2 nodes, 2 streams on one connection, channel of 2, no RPC | is the table of nodes right under every order of sessions and commands? | `TypeOK`, `KnownBeforeUse`, `NoDanglingSender`, `LiveStreamUsable`, `DisconnectedMeansClosed`, `DevModeByCommand` |
| `node_calls` | 1 node, 1 stream, request ids 1 and 2, channel of 2 | what becomes of requests, answers and ids, and does every command end? | `PendingMatchesCalls`, `NoCallAnswered`, `CallsEndOnce`, `CommandAdvances`, `CommandCompletes` |
| `node_backpressure` | 1 node, 2 streams, 1 request id of the peers, channel of 1 | is every blocked task let through? does the inductive invariant hold over a full channel? | `IInv`, `SendersProceed` |
| `launch_sync` | 2 components, every layout, 2 builds with an endpoint each, one own entry per file and one whose name looks managed | do the files stay coherent, and the user's entries in them? | `LaunchTypeOK`, `StartedCoherent`, `OwnEntriesKept`, `UnreadableKept`, `SettledStays` |
| `console` | 2 printing tasks, 2 commands, request channel of 2, 1 line typed ahead | where are prompts and requests, in every order, and is every input served to its end if commands come to theirs? | `ConsoleTypeOK`, `PromptShown`, `StrayPrompts`, `InFlight`, `DialogueSpec`, `InputServed` |
| `check_world` | not Windows; both components with every layout, three texts of a version, compilers that are there, broken, absent or slow; no change during a check | is exactly what is wrong reported, and does the check end? | `CheckTypeOK`, `NothingMadeUp`, `NothingMissed`, `CheckEnds` |
| `check_race` | Windows; two changes of the world during one check | what of that survives in a world that moves, what does success stand for, and can it send the check back? | `NothingMadeUp`, `NothingMissed`, `Vouched`, `CheckAdvances` |
| `startup` | 2 programs, with a given host or a detected one (one of the two hosts is not of this machine), the editor at launch.json | who serves, whose are the files then, and does a start come to its end? | `StartupTypeOK`, `ServesWhatItWrote`, `StartAdvances`, `StartEnds` |
| `claim_connected`, `claim_no_stream`, `claim_timeout` | 1 node, 1 or 2 streams | findings | one each, violated |

### Bounds, and why they are enough

* `ChanCap` is 1024 in the code. With one or two places the channel fills after
  one or two events, so every task meets a full channel in every one of its
  sending states. With two places an event can also be overtaken or lost behind
  another one.
* Two streams are what the interesting orders need: an old and a new session of
  one node, or an RPC and a log stream, or the streams of two nodes. The
  properties quantify over single streams or pairs of them.
* `MaxSeq` stands for `u64::MAX`: with 1 the first call overflows, with 2 the
  second, with 3 there are two calls before it, so that a late answer to the
  first can meet the second.
* `node_reconnect` leaves RPC messages out (`RequestIds = {}`): they do not
  touch the table of nodes. `node_backpressure` has reconnections and RPC messages
  together, over a channel of one place, with every call of the program an
  overflow; the part of `IInv` about calls is `node_calls`' subject.
* A peer message carries a request id or none, and a method or none; its other
  fields are not read by the program except for printing.
* `launch_sync` has the real components and all their layouts. Each of the two
  builds listens at an endpoint of its own, so that a stale endpoint can be told.
* `console`: two tasks beside the command line and the core can hold the lock,
  wait for it and have read the flag at the same time; one line ahead lets a
  command be typed while another is served. `QueueCap` is 100 in the code;
  `InFlight` shows that one place would do.
* `Doubtful` names the parts of the world that may be out of order in a run, the
  others are there and answer in time; `Folders` what may be in a source folder,
  and `Files` what a binary may do. In `check_race` a folder has one of two entries
  (`MCMoved`), one looked for before the other, so that one can take the place of
  the other between the looks; a binary is right, fails, or is not there. The
  modules folder, with its two looks, is out of order in `check_world` and changes
  during a check in the proofs only. The two check runs share the parts between
  them so that each kind of issue, of abort and of layout occurs in one.
  `MaxChanges = 2` lets the world change away and elsewhere between two looks; each
  change is to a world not seen before.
* `Edited` names the files that the editor opens. Two programs with one own entry
  give every lost update. One host is the machine's own and the last resort, the
  other is detected and not of this machine, so that its start fails at the bind,
  after it has written the files. A port 0 and two equal ports are among the
  arguments; they are refused.
* The theorems below hold for any number of nodes, connections and streams, any
  capacity and any last id; for any printing tasks, commands and capacities; for
  any worlds and changes; for any programs, hosts, arguments and entries.

`session_feed` sets `CHECK_DEADLOCK FALSE`: without a manager the transport
stops once every stream has ended. All other runs check for deadlock.

### Fairness

* `WF(ManagerStep)`: the manager is one task that the runtime schedules and that
  waits for nobody in these steps. The wait for an answer is among them because
  its timeout ends it. The write of a request is not: nothing bounds it
  (`write_json_line` has no timeout), and the user owes nobody a command.
* `SF(HandlerSend(s))` for each task: a task that waits for room is in the fair
  queue of tokio's semaphore, so it is served if room is made again and again,
  even though others may fill it in between.
* `Console`: weak fairness for each task and for each step of a print. Nothing is
  assumed of the end of a command or of the shutdown: a request may hang in its
  write, and the loop of `refresh_events` may be fed for ever. The Mutex is not
  fair, so a printer is only sure of the lock if others fall silent.
* `CheckCommand`: weak fairness for the check, whose timers run out, and for the
  answers of what is not doubtful.
* `Startup`: weak fairness for the steps of each program, the failure of a
  connection and the timeout of a read among them. Whether a service accepts,
  sends or closes is left to it. The name service is assumed to answer.
* Nothing is assumed of peers, connections, users and editors.

`CommandCompletes` has two premises that the code needs. The peers fall silent:
`refresh_events` loops as long as it finds an event, and a log stream can supply
it for ever. And no write hangs for ever.
`InputServed` has two premises as well. Every command that is begun, and the
shutdown, come to their ends (`CoreFinishes`): the code does not guarantee it, and
`CommandCompletes`, under its own premises, and `CheckEnds` are what is known of
it. A write that hangs keeps the user from the prompt, and the program from its
end after the end of input, for ever. And the other tasks fall silent
(`TasksFallSilent`), because of the output lock. What is left to show, and shown,
is that channel, oneshot, dropped sender and lock keep neither side waiting for
the other. `SendersProceed` needs a user who goes
on giving commands that refresh: nobody else drains the channel.

## Findings

* **No RPC is ever answered** (`claim_timeout`; `NoCallAnswered` is its positive
  form, checked and proved). `send_rpc_request` awaits a oneshot that only
  `route_incoming_rpc` resolves, in `refresh_events`, which the same task would
  have to run. The answer waits in the channel, the call reports "RPC timeout
  for method ..." (`src/src/node/service.rs:203`), and `set_dev_mode` marks a
  node Failed that has done what it was asked.
* **A reconnected node loses its stream** (`claim_no_stream`). `Disconnected`
  names the node only. Handled after the `RpcStreamReady` of a new stream, the
  end of the old one clears the new sender; `info` then says "no RPC stream"
  (`src/src/node/mod.rs:145`). `LiveStreamUsable` says exactly how far the good
  case goes: if no RPC stream of the node has ended, failed or lost its
  connection, the node can be called once the channel is drained. Each part of that
  premise is needed: a newer stream that fails with a read error leaves its dead
  send half as the sender of the node, and the live stream cannot be called.
* **A node whose RPC stream failed stays Connected** (`claim_connected`). When the
  connection of the stream is lost, the read fails and `?` returns before the
  `Disconnected` is sent (`src/src/node/session/handlers.rs:87`); the listener only
  prints (`listener.rs:51`). With the connection gone, no task left that serves the
  node and every event handled, the node is still Connected in what `node list`
  calls "known node sessions and their states" (`src/src/node/command.rs:6`).

Four more observations are in the models but have no run of their own:

* **A slow tool is reported as missing.** `probe_command_version` returns `None`
  for a command that is not found and for one that does not answer in time
  (`src/src/core/check.rs:369`), and `None` becomes "Missing required tool
  'cmake' in PATH" (`src/src/core/check.rs:229`). `NothingMadeUp` excepts just
  these tools (`slow`).
* **Another version passes for the expected one**: the text of a binary is
  searched for the expected version (`src/src/core/check.rs:398`), so that
  10.1.10 passes for 0.1.1. `Containing` is the set of such texts.
* **A manifest that moves is missed**: the looks at the entries of a folder are
  made one after the other (`src/src/core/check.rs:187-197`), so that a folder in
  which `modules` gives way to `Cargo.toml` between the first look and the last is
  reported as one without a build manifest, though it had one all the time. In the
  same way a modules folder removed between its two looks "exists but is not a
  directory" (`check.rs:95`, `:103`). No text promises more; `NothingMadeUp` says
  what the report rests on even then.
* **`web start` starts nothing** (`src/src/web/mod.rs:26`): it sets a flag that
  `web status` prints and `web stop` sets back.

## Proofs

`FilterProofs` has what the other proofs need to know of `Retain`: what it
leaves of an empty sequence, of `Append`, of `\o` and of `Tail`, when it keeps all
or nothing, that two filters are one, and the type of the result. These are
facts by induction over a sequence. They do not use the induction theorems of the
library, which take an operator as a parameter; `SetInduction` takes the set of
the numbers of which a claim holds, and `SeqInduction` the set of sequences.

`SessionProofs` proves `SessionTypeCorrect`: the channel never exceeds its
capacity and every task knows what its program counter says it knows. Then
`SessionFeedCorrect`, step by step: each action of `Session` moves one stream on
from one phase to the next and tells one item of it (`Tells`: it is appended to
the inbox of that stream and no other, for what the channel holds of another
stream is not touched), takes the first item of the stream whose event is at the
head of the channel, or is a stutter (a log record, a lost connection, a task
that only waits).

`NodeManagerProofs` first shows that every step of the composition is a step of
`Session` or leaves it alone (`ManagerKeepsSession`), which carries the type
invariant and the promise of the transport over (`ManagerIsFed`). It then proves the inductive invariant `IInv`
in layers, each using the ones before:

1. `TypeOK`, with where a command, a call and a sender exist: the manager is in
   "write" or "await" only with a call, and then the node has a sender.
2. `PendingMatchesCalls`, `NoCallAnswered` and `CallInv` (ids from `rpc_seq` on
   are unused). No answer: an id leaves the table only in `Refresh`, where there
   is no call, so the id of a call is still there when its wait ends.
3. `EventsOK`: every event in the channel is backed by the state of the task
   that sent it, and a send half of an ended stream is followed by its end. The
   channel is first in, first out, and a task sends in the order of its program.
   Needed because the properties of the table of nodes speak of what will be
   true once the channel is drained.
4. `KnownBeforeUse` and `ServedKnown`: an event about a node is behind the
   `Connected` of that node or the node is known; and a task that will send one
   serves a node that is, or will be, known. Without the second conjunct the
   first is not inductive: the next event of the task could be the first.
5. `SenderInv`, `NoDanglingSender`, `ShutInv`: a sender in the table is an opened
   RPC stream of that node, and if that stream has ended, its end is queued.
6. `KeepsSender`, `DisconnectedMeansClosed`: only a `Disconnected` takes a
   sender away or disconnects, and by 3 it stands for an RPC stream that closed.
   From `KeepsSender` the node of a live stream has some sender; by `SenderInv` it is
   an opened RPC stream of the node, which by the premise has not ended, failed or
   lost its connection: `LiveStreamUsable` (`KeptIsUsable`). The induction carries
   `KeepsSender`, which says nothing of whether the sender is alive.

`Invariance` puts the layers together; the theorems after it read the single
properties off. `DevModeCorrect` and `CallsEndOnceCorrect` prove action
properties from the same invariants. The proofs assume what the modules assume
of their constants: `SessionAssumptions`, `ServiceAssumptions`,
`ManagerAssumptions` (a stream has a connection, the capacity and the last id
are positive, `None` is none of the values it stands beside).

`ConsoleProofs` proves `ConsoleInv`. The type invariant and `InFlight` go
together, since where a request is decides which steps are possible. `PromptShown`
is not inductive: it needs that the flag is set exactly while the user is asked
(`VisibleInv`), that at most one printer holds the lock (`OneHolder`), and that
nobody who read the flag before the prompt came still has a line to write
(`PromptInv`): `print_prompt` takes the lock, so there is none then, and later
ones read the flag set. `StrayInv` does the same for `StrayPrompts`.
`DialogueCorrect` maps every step of `Console` to one of `Dialogue` or a stutter.

`CheckProofs` proves the type invariant, then `NothingMadeUp` from `PlaceInv`
(what the place of a check says of the worlds it has seen: who is at the third
compiler has found two absent or slow), then `NothingMissed` from `MissedInv`:
every issue has a rank, the place where it is looked for, and every issue whose
rank is behind the check and whose facts lasted is collected. That the issue is
then still reported rests on sets that only grow within a check. `Vouched` is the
converse: what a check without issues has passed it has met in one of its worlds.

`StartupProofs` proves the type invariant, `OneAtAnEndpoint` (a bind needs a free
endpoint) and `OnItsWay`: while nobody else has written, the files behind a start
are its result, those before it are as they were, and what it has in memory is
what the user had. Every step of another program or of the editor either leaves
the files alone or ends the promise; that is the case split of `WayStep`.

`LaunchProofs` proves all properties of `LaunchSync`, for all layouts, builds
and endpoints and for files of any length. The invariant `LaunchInv` has three
parts. `LaunchTypeOK` types the entries of the files. `Remembers` says that before
the first write both files are as the start found them, and after it that
launch.json is what the run makes of the one it found while tasks.json still is as
it was: without it nothing ties the step that completes a start to the file that
an earlier step has written. `SettledInv` says that after a start both files are
fixed points of the rewriting for its input, and for `SettledStays` the files that
a later start has found still are. What one rewriting does is in lemmas about the
operators of `LaunchFiles`: the entries of a run are well formed and have
different names, all of them are managed, so that a second rewriting removes just
them; none of the user's is, so that the order of those is kept; and what is left
of the two files fits together.

Three action properties are the half of liveness that needs no fairness, and that
can be proved: `CommandAdvances`, `CheckAdvances` and `StartAdvances` each give a
measure that every move of a command, a check or a start makes smaller, so that
nothing is tried again and no world, peer or file sends the program back.
What remains free to repeat is named in each: the taking of events, the parts of
a service's answer. The measures are bounded (at most 9 points for a command, 58
moves for a check, 15 for a start). That the moves are taken at all is fairness,
and is checked (`CommandCompletes`, `CheckEnds`, `StartEnds`).

These assume `ConsoleAssumptions`, `CheckAssumptions`, `StartupAssumptions` and
`LaunchAssumptions`: the kinds of values do not overlap, bounds are numbers.

Only model-checked: the liveness properties `CommandCompletes`, `SendersProceed`,
`InputServed`, `CheckEnds` and `StartEnds`, because fairness and `ENABLED` are out
of the prover's reach. Every invariant, every action property and both
refinements that the passing runs check are also theorems.

## Assumptions and limits

* What a peer sent can be read after its connection is gone; so reading does
  not depend on the connection, and writing does.
* In `NodeManager` printing always succeeds and takes no time: its errors are
  ignored in the node subsystem. `Ui` and `Console` have prints step by step.
* A stream tells of one node for its life, as in the code; several streams may
  tell of one node.
* Nobody writes the two files of `LaunchSync` while a start is under way;
  `Startup` does without this assumption, with simpler files. In `Startup` a save
  of the editor is one step, and a file cannot be read only after writes that
  overlapped; a file that is not JSON for another reason, and a torn write, are
  `LaunchSync`'s.
* What is lost is modelled, and not called wrong where no text of the repository
  promises otherwise: the user's entries in a file that a crash left torn, which
  `OwnEntriesKept` allows as a loss of the whole file (an empty one is then read as
  a fresh one), and what an editor or another start saved between a start's read
  and its write. `ServesWhatItWrote` speaks of files that nobody else wrote.
* A program of `Startup` that serves holds its endpoint until it is gone.
* In `Console` an Enter is one step; the echo of single keys is not modelled.
* Whether a name is managed is decided by its prefix alone: a configuration of
  the user's called "Germina Client (mine)" is removed. The model has such an
  entry; `OwnEntriesKept` speaks of the others.

## Not modelled

* The web manager: a flag that two commands set and a third prints. There is no
  server, and no property would say more than the two assignments.
* Assets, version and `util.rs`: constants and a parser of on/off; no state.
* The certificate of `node/session/config.rs`: made once under a mutex that is
  held throughout; what could go wrong in it is cryptography. QUIC and TLS are
  the transport's ground: a connection is there or is lost.
* Wording, formatting and paths. That the endpoint of an IPv6 host is written
  without brackets (`config.rs:79`) is listed as a hazard only: an endpoint is a
  pair here.
* The overwriting of a node's state by `mark_failed` after its last refresh
  (`node/mod.rs:122`): the model has it, but the code states no rule for which of
  the two should win.
* Child processes that outlive the probe that started them (`check.rs:344`):
  nothing in the program sees them.

## What could follow

1. `Startup` with the full entries of `LaunchFiles`, should a part of one entry
   come to depend on what another start wrote.
2. A single specification of `Startup` and `LaunchSync`: a start of the first,
   undisturbed, as a step of the second.
