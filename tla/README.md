# Specifications of the EFSM / EFM mocking stack

TLA+ models of the programs in this repository, the TLC configurations that
check them on small instances, and theorems about them that TLAPS checks for
every value of the constants. Paths below are relative to the repository;
`server.py`, `state.py`, `services/` and the other names without a directory
are under `src/sin_code_efsm/`, and `process.py`, `cli.py`, `db_mock.py`,
`http_mock.py` and `config.py`, in the section on `efm`, under `src/efm/`.

## 1. The system

The repository holds three programs that share little but their purpose.

| Component | State it keeps | Operations | Model |
|---|---|---|---|
| `EphemeralMockServer` (`server.py`) | `_server`, `_thread`, `_sock`, `_actual_port`, `_service_map` | `start`, `stop`, `reset`, signal handler | `EphemeralMockServer` |
| `StateManager` (`state.py`) | a record per service, one lock | `register`, `set_status`, `drop` | `EphemeralMockServer` |
| `BaseService` (`services/base.py`) | `_running`, `_port` | `bind_port`, `on_start`, `on_stop` | `EphemeralMockServer` |
| `HTTPService`, `StateStore` (`services/http.py`, `state.py`) | endpoints and a call log, a lock each | `add_endpoint`, `remove_endpoint`, the catch-all handler, `clear_calls`, `reset` | `ServiceStores` |
| `QueueService` (`services/queue.py`) | messages per topic | `publish`, `consume`, `reset` | `ServiceStores` |
| `StorageService` (`services/storage.py`) | objects per bucket | `put_object`, `delete_object`, `reset` | `ServiceStores` |
| `DatabaseService` (`services/database.py`) | a SQLite connection, the recorded schemas | `create_table`, `execute`, `executemany`, `reset`, `hard_reset` | `DatabaseService`, `TestDatabase` |
| `AuthService` (`services/auth.py`) | users, a log of issued tokens, a secret | `add_user`, `issue_jwt`, `validate_jwt`, `reset` | `AuthService` |
| `efm` (`cli.py`, `process.py`) | pid files, processes | `up`, `down`, `status` | `EfmProcesses` |
| efm mocks (`http_mock.py`, `db_mock.py`) | a listening server; a database file | start, stop, seed | `EfmProcesses` |
| efm config (`config.py`) | none | `validate_config` | the range of a constant |
| `MockServer`, `StatefulMock` (`mock_generator.py`) | mocks by prefix; per mock, a value per resource | `add_mock`, `dispatch`, `respond`, the catch-all route | `MockGateway` |
| `EphemeralOrchestrator` (`orchestrator.py`) | the environment and the report it makes | `configure_from_task`, `run_tests` | `SandboxRuns` |
| `DockerSandbox` (`sandbox.py`) | a container or a process | `docker_available`, `run_command` | `SandboxRuns` |
| `efsm` (`sin_code_efsm/cli.py`) | a thread with the mock server | `setup` | `SandboxRuns` |
| `docker.py`, `stack.py`, `mcp_server.py` | none that changes | | not modelled |

**How they interact.** A test program calls `EphemeralMockServer` from its main
thread. `start()` binds a socket, builds one FastAPI app out of all services,
and gives socket and app to a uvicorn thread; then it polls until the gateway is
up and tells each service so. Requests are handled on the event loop of that
thread, and go to the same service objects the test program calls directly, so
each service guards its data with a lock of its own. SIGINT and SIGTERM run
`stop()` on the main thread, on top of whatever it is doing. `efsm setup` is
older than that server and does without it: its orchestrator puts mocks into a
`MockServer`, which runs in a daemon thread on a fixed port, and has the sandbox
run a test command, in a container if docker answers and else in a shell. `efm`, on the other
hand, has no long-lived process at all: its commands, possibly several at a
time, meet only in the process table and in files under `/tmp`.

**What is hard about it.**
- A signal handler that is not a small one: it runs all of `stop()`, inside
  `start()`, `reset()` or another `stop()`, while they iterate over the very map
  it empties, and with a lock that is not reentrant.
- A thread that can only be asked to exit, joined with a timeout, and forgotten.
- A `start()` that can fail in the middle: unknown service, no thread, no
  startup within the polls.
- Two critical sections where one would be needed: in `HTTPService.reset()` and
  in its handler; the order of the halves decides what a test sees of the
  test before it.
- A connection whose transaction outlives the operation that opened it, when the
  operation raises; a `reset()` that rebuilds a database statement by statement.
- Mocks without a lock: a POST is three operations on a dictionary and a list,
  and the dictionary of mocks may grow while `dispatch()` iterates over it.
- Mocks found by prefix, the first that fits: what is registered first, and again,
  decides who answers.
- Docker, asked three times whether it is there, able to fail any call in between;
  a command that outlives its timeout, or leaves processes behind, with its output
  open or without.
- Pid files that are read, tested and acted upon in separate system calls,
  written in two, and never locked; commands killed between any two.
- Databases whose schema and seed are committed apart.
- Tokens whose times are cut down to whole seconds twice, on a clock that is not;
  signed outside the lock they are logged under.

**What makes it correct**, component by component:
- the server: a call that returns normally has done what it says; nothing of a
  run is left after `stop()`; the two records of what is up agree; nothing
  blocks for ever; no gateway thread and no listening socket is forgotten;
- the stores: `reset()` separates one test from the next; the call log can be
  relied on for assertions; message counts and pages of the queue stay valid;
- the database: what an operation that returned has written stays; `reset()` gives
  back the tables that were set up, empty, and looks like one step to everyone;
- tokens: each is valid for as long as it was issued for, to its issuer alone; the log
  has every one that was handed out, and `reset()` empties it;
- mocks: what a POST was told has been created is there, once, with an id that tells
  the order; a request is answered by the same prefix each time, and raises only
  for a reason one can name;
- the sandbox: a setup ends; its report is true; what it started is gone, unless
  something went wrong that explains what is left, or a process has let go of the
  output that would have been waited for; the URLs it hands to the tests are for
  the place the tests run in;
- `efm`: `down` stops what `up` started, all of it, and signals nothing else but
  what the system has given the pid of a dead server; a database is seeded once;
  what a crash costs is bounded.

## 2. The modules

| Module | What it is |
|---|---|
| `EphemeralMockServer` | the main thread with its signal handlers, the state manager, and one uvicorn thread per start |
| `EphemeralMockServerProofs` | its theorems on types, the lock and gateway threads |
| `EphemeralMockServerCallsProofs` | its theorems on what calls have done when they end |
| `MCEphemeralMockServer` | its instances for TLC |
| `ServiceStores` | HTTP endpoints and call log, queue, storage, under requests, direct calls and resets |
| `ServiceStoresProofs` | its theorems |
| `MCServiceStores` | its instance for TLC |
| `TestDatabase` | what the database service promises: tables, rows, and the tables `reset()` gives back |
| `DatabaseService` | the SQLite connection and its transaction, the recorded schemas, every kind of statement |
| `DatabaseServiceProofs` | its theorems, among them that it implements `TestDatabase` |
| `MCDatabaseService` | its instance for TLC |
| `AuthService` | users, tokens and the clock, under calls of several threads; the padding of token parts |
| `AuthServiceProofs` | its theorems |
| `MCAuthService` | its instance for TLC |
| `MockGateway` | mocks by prefix and their resources, under requests that run side by side |
| `MockGatewayProofs` | its theorems |
| `MCMockGateway` | its instance for TLC |
| `SandboxRuns` | `efsm setup` from the command line to its report, the docker daemon, the test command |
| `SandboxRunsProofs` | its theorems |
| `MCSandboxRuns` | its instance for TLC |
| `EfmProcesses` | the commands of `efm`, system call by system call, the mocks' processes and the databases |
| `EfmProcessesProofs` | its theorems |
| `MCEfmProcesses` | its instances for TLC |

`EphemeralMockServer` and `ServiceStores` look at two levels of one program: the
first has the order in which services come up, are reset and go away, and knows
of their data only whether there is any and of what age; the second has the
data, of services that are up. `DatabaseService` and `AuthService` stand beside
`ServiceStores`: what is hard about them is inside one connection, and between two
readings of the clock, not between the services.
`MockGateway` and `SandboxRuns` are the two halves of `efsm`: the mocks a setup
registers are started by the one and answer requests in the other, and meet
nothing else of it.

### 2.1 EphemeralMockServer

The main thread is a stack of frames. Each has a program counter, the keys its
loop still has to visit, and what it read into local variables before a signal
could come. An action is what the top frame does between two points where
CPython may run a signal handler: after a call returns, or at the back edge of a
loop. Thus `self._server = uvicorn.Server(cfg)` is one step after the call, and
`self._sock.close()` is two: the lookup of `_sock`, and the close. `Signal`
pushes a frame that runs `stop()`, whenever the handlers have been installed, on
top of anything, other handlers included. An exception unwinds to the
`except Exception` around the close (`server.py:171-175`) if a frame is there,
and otherwise out of the program's call, releasing a lock held by a `with` it
leaves.

| State | Code |
|---|---|
| `server`, `thread`, `sock`, `port` | `_server`, `_thread`, `_sock`, `_actual_port` (`server.py:75-81`); which start an object belongs to stands for the object |
| `mapped`, `running`, `bound`, `data` | the keys of `_service_map`, and `_running`, `_port` and the contents of the instance under each |
| `records`, `lock` | `StateManager._records` by status, and the frame that holds `_lock` |
| `uv`, `socks` | the life of the uvicorn server and thread of each start, and the port its socket holds |
| `config`, `handlers` | `_services_cfg`, and whether `signal.signal` has been called |
| `last` | how the last call of the test program ended; read by the properties only |

Left out: `_app` and the port and error fields of a record, written and never
read; `Thread.start()` waits for the new thread internally, here it is one step;
who holds the preferred port outside this program is the choice in `Bind`.

### 2.2 ServiceStores

An action is one critical section, or the end of an `await`. The handlers of all
requests share one event loop and give it up only while they await a body, so
the handler of `/http` keeps it (`busy`) between recording a call and answering
it; the threads of the test program can come in between all the same.
A body that is malformed, or whose client goes away, raises inside the await:
`http` and `queue` catch everything and go on (`http.py:143`, `queue.py:68`),
`storage` does not (`storage.py:98`). Requests and registrations have numbers,
which stand for their payloads: a store holds numbers, and a stale answer can be
told from a fresh one. `before`, `wiped` and `cleared` are history: they say
what was finished when a reset began, and what has been cleared since.

### 2.3 DatabaseService and TestDatabase

Every operation takes `_lock` and keeps it until it returns or raises, so it is
one action, an action for each thing that can happen to it. Only `reset()` is
stepwise, one step per statement it replays, and guarded by `LockFree` the other
operations wait. A table is the set of its primary keys, and is made by a CREATE
TABLE statement; two statements may make the same table in different shapes, and
some say IF NOT EXISTS.

| State | Code |
|---|---|
| `made`, `rows` | what the connection `_conn` shows |
| `saved`, `open` | what it would show after a rollback, and whether a transaction is open (`sqlite3.Connection.in_transaction`) |
| `schemas` | `_schemas` (`services/database.py:35`) |
| `replay` | where the loop of `reset()` is (`services/database.py:144`) |
| `outcome`, `kept`, `tidy` | history: how the last operation ended, what has been written by operations that returned, and whether `execute()` has made or dropped tables |

SQLite and the `sqlite3` module are external: a transaction is opened before INSERT,
UPDATE and DELETE, joined by DDL, and ended by `commit()` or by a ROLLBACK given
to `execute()`. Every operation ends with `commit()`, but one that raises does not
get there: a duplicate key leaves the transaction open (`InsertDuplicate`), so
does an `executemany` that fails half-way, with the rows before the failing one
in it (`InsertManyFails`), and a RETURNING clause (`Returning`, see 6).

`TestDatabase` has neither connection nor transaction. The mapping takes `registered`
to be, for each table, the first of its statements in `schemas`, and shows the
registered tables, tidy, as soon as `reset()` has begun: nobody else has the lock
until they are there. `TestDatabase` knows of `tidy`, too: without it a `reset()`
that forgets a table could pass for one after which somebody drops it.
Which rows a statement writes it leaves open; that rows of
operations that returned stay is `Durable`, a property of the detailed module.

Left out: SQL other than CREATE TABLE, DROP TABLE, INSERT, DELETE, SELECT and
ROLLBACK; a BEGIN is committed by the operation that gives it. A batch without
parameters and the number of rows returned are not looked at. `register_routes` adds
the conversion of errors to status 400.

### 2.4 AuthService

`time.time()` is a second and a fraction of it; the code only looks at the second.
`issue_jwt()` is two actions: `Sign` reads the clock and signs, `Log` appends to
`_issued` under `_lock` and returns. `reset()` holds that lock and is two actions
as well, since `add_user()` goes by the lock of the user store only and may come in
between. `validate_jwt()` is one, `Validate`, whoever calls it: userinfo and
introspect do nothing else that changes anything.

| State | Code |
|---|---|
| `sec`, `frac` | `time.time()`; external |
| `users` | `_users` (`services/auth.py:88`), a registration being its number |
| `tokens` | every token signed, with its issuer, the time, the `ttl` asked for, and `exp` |
| `issued` | `_issued` (`services/auth.py:89`), the places in `tokens` |
| `calls` | where each thread is in `issue_jwt()` and `reset()`; the gateway's event loop is one of them |
| `added`, `verdict`, `stale`, `cleared` | history: the registrations so far, the last answer of `validate_jwt()`, what was there when a reset began, what resets have removed |

An HMAC is right if the secrets are the same. Base64 is modelled by lengths only:
`Encoded` with padding, `Stripped` without, `Padding` what `_b64url_decode()` adds.
Two tokens issued for one subject in one second are equal strings; here they are two,
with the same times, so that what holds of each holds of the string.

Left out: tokens nobody has signed (all of them raise); an `extra` claim that
overrides `exp`; a clock that is set back.

### 2.5 EfmProcesses

A command is a record with a program counter and the locals that survive a
system call: the index of its loop, the pid it has read or spawned, and whether
the file it has open is still the one under its name. Every read, test, kill,
open, write and unlink of `process.py` is an action; so are the two commits of
`start_sqlite_mock` (`db_mock.py:28-35`). A process that exits is a zombie until
the command that spawned it, its parent, is gone, and `kill(pid, 0)` finds
zombies (`process.py:41-47`). `uvicorn` exits when its port is held, which is
only found out after the pid file is written. `Crash` kills a command anywhere. A pid
whose process is gone may be given out again (`Reusable`): by `Spawn` to another
mock, by `Reuse` to a program of somebody else's. `before`, in a process, is history: whose
servers had its pid and died.

Left out: the routes file, which each spawn rewrites with the same contents.

### 2.6 MockGateway

A step is one operation on a dictionary or list, after which CPython may switch
threads. There is no lock, so `dispatch()` is a step per mock it looks at, and a
POST three: `setdefault`, `append`, and `len(self.state[resource])`, which looks
at what is there by then (`mock_generator.py:56-59`). The event loop of `run()` gives up
nothing between the end of its await and the answer, hence it is one more thread.
Requests have numbers, and a number stands for everything the request brought: as an item of
a list for its body, as the value of a resource for the list its `setdefault`
made or the body its PUT stored. So two resources never hold one list, and `held`,
what `setdefault` returned, may be a list that is no longer in the state.

| State | Code |
|---|---|
| `mocks`, `base_path` | `MockServer.mocks` (`mock_generator.py:81`): the mocks in the order of the dictionary, and their keys |
| `state`, `lists` | `StatefulMock.state` (`mock_generator.py:32`), and the items of the lists in it |
| `requests` | per request, where it is in `dispatch()` and `respond()`, and its locals |
| `displaced`, `before` | history: whose resource was deleted or put, and what was answered when a request came in |

Paths are abstracted to what the code looks at: which prefixes they start with
(`Prefixes`), and the last segment (`Resource`), which different paths may share.
`add_mock` of a prefix that is there replaces the mock in its place; a request
that has found the old one goes on with it.

Left out: response bodies, among them that a GET hands out the live list; PATCH,
which is PUT; HEAD and the like, which change nothing; a scenario added while requests run.

### 2.7 SandboxRuns

A step is a call out of the program, to the docker daemon, the operating system or the
terminal. The three answers of `docker_available()` are `ChooseHost`, `Summarize` and
`Check` (`orchestrator.py:82`, `101`, `sandbox.py:158`). `containers.run(detach=True)` is
two calls to the daemon, `Create` and `Start`, both before the `try`. Every call of the daemon
may fail whether it is up or not; none succeeds while it is down. `Interrupt` is a KeyboardInterrupt: it
goes through the `finally` of `run_command`, and through nothing else. `Die` is a kill
that cannot be caught.

| State | Code |
|---|---|
| `run` | per setup, where it is, the `host` chosen (`orchestrator.py:82`), the `sandbox_backend` shown, and `exit_code` and `backend` of the report; `mishaps` is history |
| `command` | the test command and its code: running; exited, with a process left that holds its output open (`background`), or with processes left that have all let go of it (`detached`); or gone |
| `container` | the container, which is a command's only while it is on docker |
| `gateway` | the daemon thread with uvicorn (`sin_code_efsm/cli.py:60-64`); all setups use port 8787 |
| `docker` | whether the daemon answers |

A command on the host is killed alone: `subprocess.run(shell=True)` kills the shell,
and waits for the shell, not for the end of the output (`TimeOut`). Without a timeout it
waits for both (`Collect`): the output comes to its end when no process holds it open any more,
so it waits for a background process that kept the output and returns without one that
redirected it, `server >/dev/null 2>&1 &`, which is then left behind by a run that is reported
like any other. `Strict`
are setups whose sandbox was made with `allow_fallback=False`, which `efsm` itself
never does.

Left out: network mode, extra hosts, image and memory limit, passed on as they
are; output and its truncation; exit codes are 0 and 1 for any two, and a command
that exits with 124 or -1 of its own accord is not told apart by the program either.

## 3. The runs

| Run | States | Shows |
|---|---|---|
| `server_calls` | 290 thousand | what `start`, `stop` and `reset` have done when they return normally, that `stop` raises nothing unless a signal comes or it has a thread to join that could not be started, and, with fairness, that every call ends |
| `server_signals` | 880 thousand | the invariants no nesting of signals breaks |
| `server_stop_raises` | violation | see 6 |
| `stores` | 1.8 million | isolation of tests by `reset()`, and what the log and the queue can be relied on for |
| `database` | 80 thousand | what returned is committed, `reset()` changes no table, and `DatabaseService` implements `TestDatabase` |
| `database_returning` | violation | see 6 |
| `auth` | 1.9 million | how long and for whom a token is valid, what `reset()` forgets, and what the log has |
| `gateway` | 3.1 million | requests side by side, mocks added meanwhile: what is kept, which mock answers, what raises |
| `setup` | 580 thousand | two setups, docker coming and going, one setup killed, commands that leave processes behind: what is left, what is reported, and, with fairness, that each ends |
| `efm_single` | 330 thousand | one command at a time, one of them killed, pids reused: what commands achieve and crashes cost |
| `efm_concurrent` | 2.6 million | two shells at once, a pid given out again: whom `down` signals, how often a database is seeded |
| `efm_untracked` | violation | see 6 |

Each property is stated in a comment where it is defined. Beside the invariants
that follow from one component there are some that relate two:
`StatusAgreement` (StateManager and service objects), `UpIsServing` (service,
server and uvicorn), `SurvivorsAreFresh` (call log and endpoints),
`DownDelivers` (pid files, databases and processes), `RoutingIsStable` (the
dictionary of mocks, and answers earlier and later), `HostFits` (three answers of
the daemon, and where the tests were run).

**Bounds.**
- `MaxStarts = 2`: a second start is what leftovers of the first can hurt; a
  third would meet nothing that the second did not.
- `MaxSignals = 2` in `server_signals`: a signal in a call, and a signal in the
  handler of a signal. `server_calls` has one, with requests and failing
  configurations in exchange. In both `Thread.start()` may fail.
- Two services: a loop over them can be interrupted before, between and after
  them. In `server_signals` they are interchangeable, no action looks at a
  name: hence the symmetry.
- `PollCount = 1` where the code has 200: a poll may succeed, fail and run
  out; how often it fails before changes nothing else.
- `stores`: three requests or registrations and two resets, overlapping or one
  after the other. The properties relate two requests (a registration and a
  call, two publishers, a publisher and a consumer), which leaves one to come in
  between. The limits are -1, 0, 1 and the default of 10.
- `database`: two tables, one of them with two statements, so that statements on
  record can conflict, one of these with IF NOT EXISTS; two keys, interchangeable
  (hence the symmetry), and batches of one or two, so that a batch can fail on a row
  that is there, or on one of its own after another went in; three statements on
  record, so that a replay can fail and go on.
- `auth`: two instances with a secret each, two threads, both pairs interchangeable;
  two tokens and two registrations, one of each for before a reset and one for
  after; three seconds in halves: with a ttl of 1 or 0 that is before, in and after the
  second of `exp`, and a fraction to either side.
- `efm`: a database between two servers, so that a failure there has something
  to stop; both servers on the default port; two `up` commands, any number of
  `down` and `status`. `efm_concurrent` kills no command, as `efm_single` does
  so; the theorems hold with both at once. `MaxReuses` is 6 in `efm_single`, any of its pids
  as often as it likes; one pid is given out again in `efm_concurrent`, to a mock or to somebody
  else, which is all it takes for a pid to mean something else than the file says; none in
  `efm_untracked`, which does without. The view of `efm_concurrent` leaves out what no
  command can see, and no property of it is about: how far a server has come, as long
  as its process is there (`Boot` changes nothing else, and `Exit` may come in each of
  the phases), and how the last command of a shell ended.
- `gateway`: two prefixes, one a prefix of the other, and three mocks, so that one
  of them can be registered again after the other; three requests: one to post, one to post
  at the same time or later, one to delete or put in between. All that write are for one
  path; a GET and a canned POST are for the other.
- `setup`: two setups, as they meet at the port; one of them strict, the other
  falls back. The daemon comes or goes once, which is all it takes for two of
  the three answers to differ, and one setup is interrupted or killed.

**Fairness.** `FairSpec` of the server assumes `WF_vars(MainStep)`: the interpreter goes on
running the main thread inside a call. Nothing is assumed of uvicorn, which may
never come up and never exit, nor of callers, requests and signals. `CallsEnd`
holds without any of that because the poll is bounded and `join()` has a
timeout (`server.py:32-37`, `166-170`). `FairSpec` of `SandboxRuns` assumes
`WF_vars(SetupStep(s))` of each setup: the operating system runs it, and the
timeouts that `subprocess.run` and the docker client are given do come, as does an answer
or an error of the daemon. Nothing is assumed of the test command, which may run for ever
and have others hold its output open, of uvicorn, or of the daemon being there:
`SetupEnds` holds because every wait has a timeout, and none comes after the kill.
The other specifications are safety only.

The runs check for deadlock, as in these systems something can
always be called, but for two: `gateway` stops when the last of its three
requests has been answered and the last mock made, `setup` when its setups have
ended, which is what they are for.

## 4. The theorems

All for any services, any configuration, any number of polls, starts, signals,
shells, services in a config, crashes, requests, callers, resets, tables, keys,
statements, instances, ttls and fractions of a second, mocks, prefixes, paths,
setups and losses of the daemon.

`EphemeralMockServerProofs`
- `TypeCorrect` (`TypeOK`), by `TypeInvariant`. `TypeOK` is not inductive: a
  `start()` that binds numbers its socket `gen + 1`, which is in range only if
  no second frame is about to bind. `TypeInv` adds that only the bottom frame
  is a `start()`, and that one about to bind has a start left.
- `LockInvariant` (of `LockInv`) and from it `NeverSelfDeadlocked`
  (`NoSelfDeadlock`). `StateManager._lock` is held in `register()` and `drop()`
  only when `_server` is None (`NoServerThere`), so a handler that interrupts
  the holder returns from `stop()` at once: above the holder every frame is at
  the check (`LockHeld`).
- `StrayInvariant` (of `StrayInv`) and from it `NoThreadLeftServing`
  (`NoStrayThread`), relative to `LockInv`. `stop()` forgets `_server` only
  after setting its `should_exit`; a `start()` that a signal made lose its server
  still starts the thread, of a server that has been asked to exit (`ExitAsked`).

`EphemeralMockServerCallsProofs`: five invariants, each relative to those before it
- `ShapeInvariant` (of `ShapeInv`): which call a program counter belongs to, and that
  whoever interrupts a frame at which `_server` is None stays at the check.
- `GoneInvariant` (of `GoneInv`) and from it `NoListenerOrphaned` (`NoOrphanListener`).
  A frame that was interrupted goes on with what it read before: the keys of the
  map, the thread to join, the socket to close. `Relies` says for each of its steps that
  this is still so, or that a handler has run all of `stop()` in the meantime (`Gone`);
  there is nothing in between, as a handler returns only at the check, or after the
  records are dropped.
  So an exception reaches a frame at the close only after a completed `stop()`, which
  has closed that socket already: swallowing it there loses nothing.
- `AgreeInvariant` (of `AgreeInv`), `StatusesAgree` (`StatusAgreement`) and
  `UpMeansServing` (`UpIsServing`). `StatusAgreement` alone is far from inductive: it
  speaks of an idle main thread. In a call, record and instance differ only for the service
  a frame is about to report (`Reporting`), or while the records of an emptied map
  are about to go (`DropPending`); `Status` says what a frame may report, though a
  handler may have run between `on_start()` and `set_status()`.
- `EndInvariant` (of `EndInv`), `ResetClears` (`ResetDelivers`) and `StopLeavesNothing`
  (`StopCleans`, the half of `StopDelivers` that holds with any number of signals).
  `DownIsGone`: `_server` None means that nothing is left, or that `start()` has yet to
  create it. This needs a list of known services: else `start()` fails with
  its socket open (see 6).
- `AloneInvariant` (of `AloneInv`), `StartSetsUp` (`StartDelivers`) and `StopTakesDown`
  (`StopDelivers`). Before the first signal there is one frame at most, and `Alone` says
  what it has done so far; `Started` keeps the end of a `start()` true until the
  next call, whatever requests and gateway threads do. `StopTakesDown` names the one case in
  which a stop() raises without a signal (`Unjoinable`): if `Thread.start()` failed, `_thread` is
  left naming a thread that was never started, and joining it raises (see 6). The proof has it
  that a stop() can raise at the join only (`StopFailsAt`), and only there.

`ServiceStoresProofs`
- `TypeCorrect` (`TypeOK`), by `TypeInvariant`, which adds that a request
  addresses what its kind can address (`Targets`).
- `ResetIsForgetting` (`ResetForgets`), by `ResetInv`: the stores a `reset()` has
  passed hold nothing of what was finished when it began. This is inductive
  because what a step puts into a store was not finished before the step
  (`NothingOldEnters`), and what is finished stays so (`FinishedStays`).
- `LogOrder` (`LoggedInAnswerOrder`), by `LogInv`: only the handler that holds
  the event loop has a call recorded and not answered, and it is the last.
- `SurvivorsFresh` (`SurvivorsAreFresh`), by `FreshInv` relative to `ResetInv` and
  `LogInv`: an answer written to a logged call comes from the endpoints, which a
  reset that has passed the log has emptied of what was there before.
- `ObjectsAreWhole` (`OnlyWholeObjects`), by `WholeInv`: an upload is whole from the end
  of its await on, before anything is stored.
- `PlacesReliable` (`PlacesStay`), by `PlacesInv`: topics only grow at their end
  (`TopicsExtend`), so what a finished operation was told stays true (`ExtendKeeps`),
  except across the wiping of the topics, which clears all such operations.

`DatabaseServiceProofs`, from `DatabaseOK`: each statement makes a table, and a
batch is a sequence of keys
- `TypeCorrect` (`TypeOK`), inductive as it stands: without an open transaction there
  is nothing to roll back, and in the replay there is none.
- `DurableCorrect` (`Durable`), inductive with `TypeOK`: an operation that returns
  commits, and one that raises takes nothing away from `saved`.
- `ResetKeeps` (`ResetKeepsTables`), by `SchemaInv`: during the replay the tables there
  are those the statements passed so far make, each by the first of its
  statements (`Replayed`); for that every statement on record must have a first
  one for its table (`HaveFirst`), which is proved along with each append.
- `ImplementsPromise` (`KeepsPromise`), from `SchemaInv`: each action is mapped to one
  of `TestDatabase`, `Reopen` to its `Reset`; `Replay` and `ResetReturns` are stutters,
  the latter because the tables at the end of the replay are those registered
  (`ReplayedAll`).

`AuthServiceProofs`, from `AuthOK`: a ttl is an integer
- `TypeCorrect` (`TypeOK`), inductive as it stands; that no two calls have one token
  or one lock (`Apart`) is part of it, since `Log` would otherwise log a token twice.
- `TokensLive` (`LivesItsTtl`) and `TokensDie` (`DiesInTime`), by `LifetimeInv`: `exp` is
  the second of issue plus the ttl asked for (`ExpKept`); the rest is arithmetic with
  the fractions, done once for each direction.
- `ResetIsForgetting` (`ResetForgets`), by `ForgetInv`: between its halves a reset has
  removed the users that were there, and what enters later is newer (a registration)
  or had not been handed out (a token).
- `LogIsComplete` (`ReturnedAreIssued`), by `LogInv`: a token at hand in a call is in no
  log yet.
- `DecodesWhatEncodes`: the padding `_b64url_decode()` works out is what was stripped,
  for every length; by the remainder of the length by three. No run checks it, as no
  state is involved.

`MockGatewayProofs`, from `GatewayOK`. One invariant, `IInv`, carries all five; the
properties speak of answered requests, `IInv` of each on its way
- `TypeCorrect` (`TypeOK`): that no mock has another's state needs that a list is made
  for one place and held for no other (`Values`).
- `PostsAreKept` (`CreatedIsKept`): a POST that has appended is in the list it holds, in one
  place (`Once`, `Placed`), and that list is in the resource until it is displaced
  (`Holding`); lists only grow, so its place stays below the id.
- `IdsGrow` (`LaterIdsAreLarger`): whoever comes in after an answer appends behind the
  id that was answered (`Behind`), and his own id is no smaller than his place.
- `RaisesExplained` (`RaisesForAReason`), by `Raised`.
- `RoutesStay` (`RoutingIsStable`): the mock found is of the first base in the
  dictionary that fits the path, `Passed` all before it (`Routed`); the order
  of bases only grows at its end, so the first that fits stays the first.

`SandboxRunsProofs`, from `SetupsOK`, by `IInv`, a conjunction per setup
- `TypeCorrect` (`TypeOK`), with `Placed`: container and command per program counter.
- `LeftoversExplained` (`LeftForAReason`): what is left at the end was explained from the
  last step of the cleaning up on (`Left`); a process that has let go of the output needs no
  explanation, and none takes hold of it again.
- `ReportIsTrue` (`ReportTrue`): a command is killed only by its own setup, when
  that no longer looks at its code (`Reporting`). The shell has exited with the code reported,
  and what is left of the command, on the host only, cannot write to its output.
- `HostIsRight` (`HostFits`): without a change in between, the answers so far are
  the state of the daemon, and a report's backend is where `Check` went (`Hosting`).

`EfmProcessesProofs`
- `TypeCorrect` (`TypeOK`), by `TypeInvariant`, which adds that a command that
  has a pid at hand has one (`HasPid`) and that one at work on a pid file or a
  process has a name (`Named`).
- `PidsAreOwn` (of `OwnPids`) and from it `DownKillsOwn` (`KillsOwn`), without any
  assumption. A pid in the file of a name, and a pid a command holds, always stand for a
  process spawned for that name, or for one that has its pid after it (`Own`),
  however many commands rewrite and remove the files. It needs `Named`, and that who got the pid
  of a process keeps its name in `before`.
- `NeverSeededTwice` (`SeededOnce`). At most one command at a time is between
  schema and seed of one file that is still there, and its database is unseeded
  (`SeedInv`): CREATE TABLE lets only one by.
- `ShellInvariant` (of `ShellInv`), `DownLeavesNothing` (`DownDelivers`) and `UpSetsUp`
  (`UpDelivers`), from two assumptions: one command line at a time (`OneShell`), and
  `Names` are the services of the config (`AllListed`). The first is what `efm_single` has,
  and the code has no lock to do without it: `efm_untracked` shows two commands lose
  a server. `Known` is the heart: a command only overwrites or removes a pid file no live
  server depends on, since nothing changes between its test and its act but that processes
  die and pids are reused. From there a server is lost only where a killed `up` had it at hand
  (`Held`), which is the count of `Lost`; `Downed` and `Upped` are how far the
  loops over the config have come.

The steps follow one pattern: a lemma per action says what it does to the
typed state ("shape"), the invariant has one step per action, and PTL joins
initial condition, step and consequence.

Before their proofs `GoneInv`, `AgreeInv`, `EndInv`, `AloneInv` and `ShellInv` were checked
with TLC on the constants of `server_calls`, `server_signals` and `efm_single`, the
latter also with a config that repeats a name.

Only model-checked: liveness (`CallsEnd`, `SetupEnds`), which is beyond the prover.
Every invariant of a run that is expected to pass is a theorem, and so is the one refinement
(`KeepsPromise`).

## 5. Assumptions worth knowing

- Signals are delivered where CPython 3.11 to 3.13 delivers them, the versions
  of `.github/workflows/ci.yml`.
- uvicorn sets `started` at the end of startup, looks at `should_exit` while it
  serves, and closes the sockets it was given when it exits; startup fails on
  a closed socket. These three actions are the external part of the model.
- An older gateway thread that outlived its join serves instances nobody else
  can see; requests to it change nothing in the model.
- Pids have the same number of digits, so a pid file is overwritten whole.

## 6. Where code and documentation disagree

Three disagreements have a run that shows them.

- `server_stop_raises`: `stop()` "should not raise" (`tests/test_efsm.py:346`);
  a signal inside it runs a second one that empties the map the first iterates
  over.
- `database_returning`: `execute()` says it will "Run any SQL. Returns rows as dicts"
  (`services/database.py:87`); it commits before it fetches, which SQLite refuses
  while an INSERT ... RETURNING has rows to be fetched. The call raises, and its row
  is left in an open transaction.
- `efm_untracked`: pid files are there so that `efm down` "can reliably
  terminate previously-started processes" (`process.py:3-4`); `efm status` takes
  a pid file that is just being written for a stale one, and removes it. `Tracked` is also
  violated by two `efm up` that both start a service; this trace is the shorter one.

Two more are the exceptions two properties make, by name.

- `stop()` is "idempotent" (`server.py:155`) and "should not raise"
  (`tests/test_efsm.py:346`). If `Thread.start()` raised in a `start()`
  (`server.py:121`), `_server` and `_thread` are set: the next `stop()` raises a RuntimeError in `join()` (`server.py:170`), before it has closed
  or forgotten anything, so does each one after it, and each `start()` is refused as already
  running. `StopCompletes` says that without signals this is the only way (`Unjoinable`).
- pid files are for terminating "previously-started processes" (`process.py:3-4`).
  If a server has died and its pid has been given to another program, `efm down` sends
  SIGTERM to that (`process.py:53`); nothing compares anything but the pid. `KillsOwn` says that
  this is the only way to somebody else's process.

Others are part of the models, and forbidden by no property.

- A run that is reported normally may leave processes behind, on the subprocess path: those
  that have redirected their output (`Collect`, `sandbox.py:107-113`). `LeftForAReason`
  and `ReportTrue` are stated with them.
- `efm up` ends with a TypeError if another shell removes a pid file between its two
  reads of it (`ReadPidAgain`, `cli.py:40-41`).

- `port` is said to be None when stopped (`server.py:257`); after a `start()` that
  failed on an unknown service, port and socket stay, and `stop()` does not clear
  them (`RejectService`; `NoOrphanListener` says the next `start()` does find them).
- `efm up` skips what is already running (`cli.py:40`) and starts all services
  (`README.md:63`); sqlite services have no pid file, and the second CREATE TABLE
  ends the command, with the services behind it not started (`RunSchema`).
- A timeout is 124 "regardless of backend" (`sandbox.py:20-23`) only on the
  subprocess path (`TimeOut`); on docker `wait()` raises, and the report says -1 and
  "none" (`Wait`).
- -1 is the "not run" code (`orchestrator.py:22-24`), and is reported too for a command
  that ran, when `wait()`, `logs()` or decoding its output failed (`Failed`).
- The environment variables to "inject" (`orchestrator.py:39`) are printed by
  `setup` and given to no container and no process.
- `dispatch` "routes requests whose path starts with this prefix to this mock"
  (`mock_generator.py:22-23`) if no mock before it in the dictionary fits: `/git` takes what is meant for
  `/github` (`Match`).

## 7. Plan

Done: the server and its signals, the stores, the database, the tokens, the mocks, the
sandbox, `efm`, and a theorem for each invariant that is checked. Left is an abstract
lifecycle (stopped, starting, running, stopping) that `EphemeralMockServer`
without signals implements; `AloneInv` is what its proof would rest on.

Not planned: `docker.py` builds a compose dictionary from its arguments;
`stack.py` is constructed by the server and never called; `mcp_server.py`
imports names the package does not define, so it does not load; the FastAPI
routes of `http_mock.build_app` are a static mapping of the config.

## 8. Running it

    tlc -config server_signals.cfg MCEphemeralMockServer.tla
    tlc -config stores.cfg MCServiceStores.tla
    tlc -config database.cfg MCDatabaseService.tla
    tlc -config auth.cfg MCAuthService.tla
    tlc -config gateway.cfg MCMockGateway.tla
    tlc -config setup.cfg MCSandboxRuns.tla
    tlc -config efm_concurrent.cfg MCEfmProcesses.tla
    tlapm EphemeralMockServerProofs.tla
    tlapm EphemeralMockServerCallsProofs.tla
    tlapm ServiceStoresProofs.tla
    tlapm DatabaseServiceProofs.tla
    tlapm AuthServiceProofs.tla
    tlapm MockGatewayProofs.tla
    tlapm SandboxRunsProofs.tla
    tlapm EfmProcessesProofs.tla

`server_*.cfg` belong to `MCEphemeralMockServer`, `database*.cfg` to
`MCDatabaseService`, `efm_*.cfg` to `MCEfmProcesses`. `PROJECT.json` lists for each
run its properties, for each definition the lines it models, for each property a change of the code that
violates it, and the hazards the properties were written for.
