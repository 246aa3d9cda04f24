# A TLA+ verification project for flagctl

flagctl is a small feature-flag system: `flagd` keeps environment-scoped boolean
flags in a local SQLite file and serves them over HTTP; `flagctl` (a command
line) and a Terraform provider are its clients. This directory holds TLA+ models
of it, TLC configurations that check the models on small instances, and proofs,
checked by TLAPS, that the safety properties of the store, the request pipeline,
overlapping service processes, the command line, the Terraform provider, the data
and credential files and the access rules hold for every instance.

References such as `sqlite.go:145` are to files under `src/`.

## Inventory

| Component | State | Operations | Interacts with |
|---|---|---|---|
| Flag model (`internal/flags`) | none | validation of identities, inputs and descriptions; merge of a partial update (in `Store.Update`) | store, API, client, CLI and provider all validate with it |
| Store (`internal/store/sqlite.go`) | table `flags`, `user_version`, one pooled connection | `Open`/`initialize`, `Close`, `Create`, `Get`, `Update`, `Delete`, `List` | called concurrently by HTTP handlers under a request context; calls database/sql and the SQLite driver |
| Data files (`internal/store/files.go`) | data directory, `flags.db` and sidecars | `prepareDatabase` | called by `Open` |
| HTTP API (`internal/api`) | none of its own | host, origin, TLS and token checks, 5 s deadline, routing, body decoding, status mapping | calls the store; called by `net/http`, one goroutine per request |
| HTTP client (`internal/client`) | configuration | `Create`, `List`, `Get`, `Update`, `Delete`, one request each, never retried | API over a network that may fail |
| CLI (`internal/cli`) | none | `create`, `list`, `get`, `toggle`, `delete`, `version` | client |
| Terraform provider (`internal/provider`) | Terraform's state, kept by Terraform core | `Configure`, `Create`, `Read`, `Update`, `Delete`, `ImportState` | client; called by Terraform core |
| Service process (`cmd/flagd`) | listener, server, store | `run`: load security options, listen, open, serve, drain, close; `healthcheck` | store, API, signals |
| Credential files (`internal/security`) | none | `readFile`, `ReadTokenFile`, `Token.Matches`, `ParseOrigin`, TLS configurations | service, client, CLI |
| Release and test tooling (`scripts`, `internal/testutil`, `tests`) | none | | |

The behaviours that are hard here, and the properties that make each component
correct:

* **Store.** Handlers run concurrently; every call has a deadline that may pass
  between any two of its steps, and database/sql then rolls a transaction back
  from a goroutine of its own; a driver call may fail after it took effect; the
  process may die at any point. Correct means: calls are atomic and durable,
  an update neither loses fields nor resurrects a deleted flag, `created_at` and
  `updated_at` are what `docs/api-v1.md` says, the schema is created entirely or
  not at all, and no caller waits for ever.
* **Data files.** A crash between the creation of the file and of the schema;
  files that others can read; another process whose journal comes and goes while
  the files are looked at. Correct means: a later start succeeds, a good directory
  is never refused, a journal that is needed is never lost, and unsafe files are
  refused before SQLite sees them.
* **API.** The order of the checks; a body that is ambiguous JSON; a request
  whose client has gone. Correct means: nothing that fails a check reaches the
  store, and the answer says what the store did.
* **Client, CLI and provider.** An answer that is lost after the effect; a command
  that is repeated; another client's changes between two calls; Terraform's state
  out of step with the service; options, configuration and environment that
  disagree. Correct means: no silent adoption, resurrection or loss of a flag, a
  message that never denies an effect, repetition that converges, and no token in
  the clear.
* **Service process.** Startup that fails halfway, a shutdown that runs out of
  time with handlers still in the store, the next process starting meanwhile.
  Correct means: no request is accepted before the store is open, everything that
  was opened is closed, no answered write is lost, and no refused one happens later.
  The options that guard a network listener are judged in several places. Correct
  means: no other machine is served without TLS and token, and whoever has both is.
* **Credential files.** The file may be replaced between the check and the use, and
  certificate and key are two files. Correct means: what is used was, whole and
  private, in the file that was checked.

## Modules

| Module | Role |
|---|---|
| `FlagModel` | data model: flags, requests, validation, merge, answers |
| `FlagRegistry` | abstract specification: a durable table on which every call takes effect at one instant |
| `FlagStore` | the store in detail; implements `FlagRegistry` |
| `FlagClient` | the API as its clients see it: responses, those of other servers too, and when the HTTP client accepts one |
| `FlagAPI` | the request pipeline: checks, decoding, the call of the store, the status; composes `FlagRegistry` and `FlagClient`, and implements `FlagRegistry` once more, towards the clients |
| `FlagctlCommand` | `flagctl` in a script that repeats a command until it knows the outcome; composes `FlagRegistry` and `FlagClient` |
| `TerraformFlag` | one `flagctl_flag` resource against the service; composes `FlagRegistry` and `FlagClient` |
| `Flagd` | the service process: start, drain, shutdown, overlapping processes and SQLite's locks |
| `RequestLedger` | abstract specification: each request takes effect at most once, before anybody is told; implemented by `Flagd` |
| `DataFiles` | `prepareDatabase`, SQLite's journal, other processes and the operator in one data directory |
| `CredentialFiles` | token, certificate and key read while their owner changes them |
| `Access` | who may talk to whom: origins, tokens, listeners, configuration of the clients, health probe |
| `MCFlagStore`, `MCFlagAPI`, `MCFlagctlCommand`, `MCTerraformFlag`, `MCFlagd`, `MCDataFiles`, `MCCredentialFiles`, `MCAccess` | the instances that TLC checks |
| `FlagStoreProofs` | TLAPS: inductive invariant, safety and action properties of `FlagStore`; it implements `FlagRegistry` |
| `FlagAPIProofs` | TLAPS: what reaches the store, what a body means, what a status says; to its clients `FlagAPI` is a `FlagRegistry` |
| `FlagdProofs` | TLAPS: durability, isolation and clean exits over any number of processes; `Flagd` implements `RequestLedger` |
| `FlagctlCommandProofs` | TLAPS: output that was true, honest messages, repetition that converges by one change |
| `TerraformFlagProofs` | TLAPS: a state that does not lie, no orphan in silence, flags of others left alone |
| `DataFilesProofs` | TLAPS: checked files stay private, good ones are accepted, journals stay |
| `CredentialFilesProofs` | TLAPS: what was loaded was held; only changes are refused |
| `AccessProofs` | TLAPS: the access rules, for all options, settings and environments |

The registry is the joint between the modules, and appears twice. `FlagStore` is
shown to implement it, and `FlagAPI` uses it as its store (`Service == INSTANCE
FlagRegistry WITH ...`), so that it does not repeat connections and transactions.
`FlagAPI` as a whole is shown to implement it again (`Promise`), now as its
clients see it: that is why `FlagctlCommand` and `TerraformFlag` may use a registry
in the place of the service, without headers, bodies and statuses. `Flagd` is
about processes: there a request is a mark that gets into the file or does not,
and what it does to a flag is left to `FlagStore`.

Operators whose comment begins with *Faulty* are not part of any specification.
Each is a plausible mistake in the definition that follows it (a missing guard, a
leaked connection, a field that is reset); replacing the definition by it
makes TLC report the property it is paired with in `PROJECT.json`, which shows
that the property can fail and that the instance is large enough to see it.

### FlagStore and the code

| State | Code |
|---|---|
| `rows`, `table`, `version` | the SQLite file: rows of `flags`, whether the table exists, `PRAGMA user_version` |
| `conn`, `work` | the connection of the pool (`SetMaxOpenConns(1)`, `sqlite.go:46`) and the rows its open transaction sees |
| `pc`, `req`, `live`, `local`, `answer` | per goroutine: where its call is, the arguments, whether its context is alive, the variable `flag`/`current`/`updated`, the result |
| `phase` | where `Open`, `Close` and the process are |
| `clock` | `time.Now()` |

| Action | Code |
|---|---|
| `StartOpen`, `CreateSchema`, `CommitSchema`, `AcceptSchema`, `FailOpen` | `Open` and `initialize`, one transaction |
| `Close`, `EndProcess` | `Close`; a crash at any point or the end of `run` |
| `Reject`, `Invoke` | the start of each operation: validation, and the clock that `Create` reads before it has the connection (`sqlite.go:102`) |
| `Acquire`, `GiveUp` | waiting for the connection; database/sql hands it to any waiter |
| `InsertFlag`, `RemoveFlag`, `SelectFlag`, `SelectFlags` | the single statements of `Create`, `Delete`, `Get`, `List` |
| `BeginUpdate`, `MissRow`, `ReadRow`, `WriteRow`, `CommitRow` | the transaction of `Update` |
| `Expire`, `RollBackExpired`, `FindRolledBack` | the 5 s deadline or a client that disconnects (`handler.go:95`); the rollback of database/sql and its discovery by the owner |
| `Fail` | an error of the driver or of an expired context at any statement, with the deferred `Rollback` |

database/sql and modernc.org/sqlite are not in the repository. The model assumes
of them what the code relies on: a statement outside a transaction and a commit
are atomic and durable (`synchronous(FULL)`); a statement does not start under a
context that is done, and may report the context's error although it took
effect; `Commit` does not, because it looks at the context before and not during
the commit; a commit that returns an error has not committed; a rollback succeeds. The clock never goes back: the
code stores wall-clock time, so a clock that is set back would make timestamps
go back with it.

Only one process uses the file in `FlagStore`. Two processes that overlap during a
restart, and SQLite's locks between them, are the subject of `Flagd`.

### FlagAPI and the code

| State | Code |
|---|---|
| `secure` | whether `flagd` was given TLS and a token, in `handlerConfig` |
| `at`, `http`, `response` | per goroutine of net/http: where `ServeHTTP` is, its `*http.Request`, what went to the `ResponseWriter` |
| `rows`, `clock`, `stage`, `req`, `answer` | the registry and the call the handler made |
| `effect` | history: did this request change the flags? |

| Definition | Code |
|---|---|
| `Checks`, `Refusal` | the nesting in `handler.go`: host, cross-origin protection, TLS, token, route, identity, method, content type; the first that fails answers |
| `DecodeMember`, `Decode`, `Usable` | `json_request.go` and the decoders of `flags.go`: the members in the order they were sent, with `seen` as the duplicate check; `Decoding` is the recursive function of what the loop has after each of them |
| `Arrive`, `ReadBody`, `LoseBody` | a handler up to the call of the store, with the limit on the size and the read timeout |
| `Serve` | the store, which may also fail |
| `Report`, `Finish` | the status for the outcome (`FromService`), and the end of the request |
| `Meaning`, `Unambiguous`, `Understood` | not code but what it is measured against: what a request says to any reader, and which requests are in order |

What a header or the grammar of JSON decides is a Boolean of the request (`local`,
`foreign`, `tls`, `token`, `json`, `whole`, `large`). `HEAD` is `GET`, whose body
net/http drops. Crashes are left to `Flagd`.

`Promise` shows of each handler what its client knows: nothing while the request is
not in order, whatever the handler does with it; otherwise pending from the arrival
(`Phase`), for what the request means (`Asked`), until the response, of which only the
outcome counts (`Told`). A request that is in order may fail without an effect
because its body does not arrive in time; one whose body exceeds the limit is not in order.

### FlagctlCommand and the code

| State | Code |
|---|---|
| `script`, `step`, `shown`, `report` | the command a script repeats, where the process is, what it prints, and what its exit status and message tell |
| `rows`, `clock`, `stage`, `req`, `answer`, `from` | the service and whose request each of its goroutines serves |
| `did`, `seen`, `alone`, `changes` | history: what the command's request did, what the flag was meanwhile, whether others were about, how often the script changed the flags |

| Action | Code |
|---|---|
| `RunCreate`, `RunList`, `RunGet`, `RunToggle`, `RunDelete` | the `RunE` of each command up to its one request: validation, then `Client.do` |
| `Receive`, `Misreceive` with `Handle`, `Error` | the response, which may be lost, late or of another server; `parseAPIError` keeps a code only if it is one of the service's |
| `Write`, `WriteFails` with `Unwritten` | the output, and the messages that say a change was made although it could not be shown |
| `Begin`, `End`, `Kill` | the script, which repeats while the outcome is open; an interrupt |
| `OtherRequest`, `Serve`, `Drop` | other clients; the service |

`toggle` sends `enabled` only. A write of output fails or succeeds as a whole.

What a server may answer that is not flagd, or not the one that was meant, is defined
in `FlagClient` by `Another`: a flag of another environment or key, or one without the values sent. This
is said of the request, apart from the check of the client (`Shows`), so that a
client which compared less would print or save such a flag, against `OutputWasTrue`
and `SavedStateWasTrue`.

### TerraformFlag and the code

| State | Code |
|---|---|
| `config`, `state`, `step` | the resource block, the saved state and where the run of Terraform is (kept by Terraform core, modelled from how `flag_resource.go` is called) |
| `rows`, `clock`, `stage`, `req`, `answer`, `from` | the service and whose request each of its goroutines serves |
| `seen`, `ours`, `entitled`, `warned`, `killed` | history: what the flag was during the request, what the provider created or was told to import, what it reported, what it was creating when it was killed |
| `troubles` | bound on everything that goes wrong |

| Action | Code |
|---|---|
| `Refresh`, `ApplyCreate`, `ApplyUpdate`, `ApplyDelete`, `Import` | the start of `Read`, `Create`, `Update`, `Delete`, `ImportState` of `flag_resource.go` with the client's request; an identity that changed is a delete and a create (`RequiresReplace`) |
| `StartFresh`, `ApplyNothing`, `EditConfig` | runs of Terraform that have nothing to ask, and the operator's edits |
| `Receive` with `AfterRead`, `AfterCreate`, `AfterUpdate`, `AfterDelete`, `AfterImport` | what the provider makes of a response |
| `Misreceive` | the same, of a response that is lost or comes from another server; the request goes on without its caller and may take effect later |
| `Kill` | Terraform is killed; its state stays, and nobody is told of the request under way |
| `OtherRequest`, `Serve`, `Drop` | other clients; the service |

Of a 404 only one with the code `not_found` means that the flag is absent, as in
`client.go`; a bare 404 or a redirect is an error.

A provider that is killed while `Create` waits for its answer never comes to the
diagnostics of `flag_resource.go:109-112`. If the flag was stored, and the
configuration is edited before the next run, it is left behind without a word;
`OrphansAreReported` excepts exactly these identities (`killed`) and no others, such as
those of an update or a delete. If the configuration still asks for the flag, the next
run's create is refused with 409 and says so; `DriftIsReconciled` therefore leaves the
flag to an import only where an error was reported (`NeedsImport`), never because of
the kill itself. `ImportState` and the read after it are one step, as Terraform core
saves nothing of an import whose read fails.

### Flagd and the code

| State | Code |
|---|---|
| `phase`, `exit`, `signalled` | per process: where `run` is (`main.go`), what it is going to return, whether the signal context is cancelled |
| `holder` | which listener owns the address |
| `file`, `content` | `flags.db` and what was committed to it |
| `owner`, `tx`, `snap` | per process: who holds the one connection, the state of its transaction, what it has read |
| `status`, `at` | per request: what became of it, and the process that accepted it |

| Action | Code |
|---|---|
| `Configure`, `RefuseOptions`, `Listen`, `ListenFails`, `OpenStore`, `StartupFails`, `Serve`, `ServeFails` | `run` in its order, with its error returns and the deferred closes |
| `Drain`, `DrainDone`, `DrainTimeout`, `CloseStore`, `End` | `Shutdown` with 5 s, `Close` of the server and of the store |
| `Accept`, `Begin`, `Answer`, `Refuse` | a handler: accepted, on the connection, answered; refused by its deadline or an error at any point |
| `Read`, `Reserve`, `Pend`, `Commit`, `CommitNothing` | the rollback-journal locks under a transaction (external) |
| `Signal`, `Crash` | the environment |

A second `SHARED` lock holder that wants to write fails at once with SQLITE_BUSY
instead of waiting, as SQLite does to avoid a deadlock. A commit that fails is
taken to be rolled back. When the deadline passes during a commit the answer may
be 500 although the update is stored. A timer may fire at any time. The exits for
`--help`, `--version` and `healthcheck` come before the listener and are left out.

`RequestLedger` is what a sender may rely on without knowing of processes: a request
takes effect at most once, between its arrival and the moment anybody learns how it
ended, and success is told only of what took effect. `Flagd!Fate` maps the stages of
a handler to it; the schema is not a request.

### DataFiles and the code

| State | Code |
|---|---|
| `dir`, `node`, `outside` | the data directory, what the paths of `flags.db`, `-journal`, `-wal` and `-shm` are, the target of a link |
| `rows`, `torn` | whether `flags.db` holds committed rows, and whether it is half written |
| `stage` | per process: which call of `prepareDatabase` comes next, or what SQLite does |

| Action | Code |
|---|---|
| `Start`, `CheckDirectory`, `CreateFile`, `CheckFile` | `prepareDatabase` (`files.go:9-51`): `MkdirAll`, `Lstat` and the mode of the directory, `OpenFile` with `O_EXCL`, `Lstat` of each file in its order |
| `OpenDatabase` | `sql.Open` with `mode=rw` and the first statement (`sqlite.go:28-53`) |
| `BeginWrite`, `EndWrite` | a transaction of SQLite with `journal_mode(DELETE)`: the journal is created, and its deletion is the commit |
| `ChangeMode`, `Exchange`, `ChangeDirectory` | the operator |
| `EndProcess` | a kill at any point |

The operator does not take a file from a process that has opened it, nor part a half
written `flags.db` from its journal. Calls fail only for what is on the disk.

### CredentialFiles and the code

| State | Code |
|---|---|
| `node`, `name`, `writing` | inodes, what the three paths name, and the content that is being written in place |
| `file`, `stage`, `info`, `fd`, `data`, `loaded` | `accessOptions.load` and `readFile`: the file in turn, the result of `Lstat`, the descriptor, the bytes so far, what was accepted |
| `held`, `rewrites` | history: what the path named since its `Lstat`; rewrites in place since then |

| Action | Code |
|---|---|
| `Lstat`, `OpenFile`, `Fstat`, `Read` | the system calls of `readFile` (`security/files.go:9-35`, `open_unix.go`) |
| `Parse` | `ReadTokenFile`, `ServerTLS`: length of the token, a certificate that fits its key |
| `Replace`, `RemoveAndCreate`, `Remove`, `MakePrivate`, `Rewrite`, `WriteOn` | the owner: `rename`, reuse of an inode number, `chmod`, a rewrite in place half by half |

`os.SameFile` compares device and inode, so a file that was removed and created
again may pass for the one that was seen; that is why `Fstat` checks kind and
mode once more. A token has no inner structure: one that is rewritten in place
twice during a single load can be a mixture of both, which only writing to a new
file and renaming it avoids. `LoadedWasHeld` excepts the token in that case
(`rewrites < 2`). Certificates and keys have no exception: their halves have to
agree to be parsed, and what is parsed was the content of the file as a whole at some
moment, however often it is rewritten. That the key fits the certificate is a condition
of `Parse`, not a result.

### Access and the code

| State | Code |
|---|---|
| `service` | what `run` made of its options: TLS, token, accepted `Host` values |
| `client`, `given` | a `client.Client` with its origin, token and CA, and the settings it comes from; or some other program |
| `env`, `token` | the variables `FLAGCTL_*`; the content of the token file |
| `outcome` | how the last start, configuration, request or probe ended |

| Action | Code |
|---|---|
| `StartFlagd` with `ParseListenAddress`, `Load`, `NewSecureHandler`, `SecureHosts`, `PlainHosts` | `main.go:67-98`, `cmd/flagd/security.go`, `handler.go:28-51` |
| `ConfigureFlagctl`, `ConfigureProvider` with `NewWithConfig` | `cli/root.go:60`, `provider.go:74`, `client.go:46` |
| `Request` | the network, TLS, and the checks of `handler.go` for `Host` and token |
| `Probe` | `healthcheck.go` |
| `RotateToken`, `StartProgram` | the operator; programs that obey none of the client's rules |

## What the runs check

| Run | Instance | Shows |
|---|---|---|
| `store_safety` | 2 callers, the same key in 2 environments, every operation, 4 updates of one flag, an ill-formed key, an empty update, clock 0..1 | `ImplementsRegistry`; `HistoryIsKept`: `created_at` survives, `updated_at` is monotone and moves only with the data; `OmittedFieldsSurvive`: a commit changes exactly the fields that were sent in the flag stored at that instant; `FlagsComeAndGoByCall`: an update that races a delete does not bring the flag back; `SchemaIsWhole` and `NewerFileIsLeftAlone` over crashes during `initialize` and files of a later version |
| `store_liveness` | 3 callers, create and update | `EveryCallReturns`, `ConnectionComesBack` |
| `api_pipeline` | 2 handlers; six good requests and each with one thing wrong: host, origin, TLS, token, method, path, key, content type, and eleven bad bodies; secure or not | `OnlyAdmittedReachStore`; `BodiesMeanOneThing`: a duplicate, null or unknown member is refused, not resolved; `StatusTellsEffect`; `SuccessIsAccepted`: the client accepts the success of its own request although another changes the flag meanwhile |
| `api_service` | 2 handlers, 9 requests: 4 in order, 5 that would do something if they were taken for what they resemble | `ImplementsService`: what is in order is carried out at most once, as it was meant, between arrival and response; nothing else leaves a trace |
| `command_safety` | 1 flag, an ill-formed key, every command, 2 service goroutines, 3 troubles | `OutputWasTrue`: what is printed was so during the command and is what was asked for; `MessageTellsEffect`: no message denies an effect; `RetriesConverge`; `RepeatsChangeNothing` |
| `command_liveness` | the same, 2 troubles | `ScriptEnds` |
| `terraform` | 1 key in 2 environments, 2 service goroutines, 3 troubles | `SavedStateWasTrue`; `OrphansAreReported`: what the provider created is in the state, was reported, is still being created, or was being created when it was killed; `UnmanagedFlagsAreSafe`; `DriftIsReconciled` |
| `flagd_overlap` | 2 processes, 3 requests | `DataNeedsListener`; `CleanExit`; `ImplementsLedger`: no acknowledged update is lost, none takes effect twice or after its client was told otherwise |
| `flagd_liveness` | 2 processes, 2 requests | `SignalEndsProcess`; `RequestsResolve` |
| `data_files` | 2 processes, 4 files, 2 interventions | `CheckedIsPrivate`; `RefusedOnlyIfUnsafe`; `LinksAreNotFollowed` |
| `credentials` | 4 inodes, 2 generations, 2 interventions | `LoadedWasHeld`; `RefusedOnlyIfChanged`; `LoadEnds` |
| `access` | every listener, file set and origin of `MCAccess` with every setting and environment, 1 rotation | `ConfigurationFailsEarly`; `NetworkIsAuthenticated`; `TokenIsProtected`; `OwnOriginWorks`: the `Host` of the service's own origin is served with or without the default port (other spellings are not modelled); `SettingsDecide`; `ProbeSeesService`: the probe finds the service healthy (that nothing else can look so is not claimed) |

Bounds. Two callers suffice for races over one connection: a caller's transaction
can meet at most one other at a time, and the rollback goroutine and the process
are further actors. Two clock values let an update differ in time from
the create or update before it, or carry a time that has passed. Two descriptions and two values of `enabled` are the least
at which an update can lose either field or be a no-op. The proofs remove all of
these bounds.

In `api_pipeline` two handlers are enough for one request to change the flag that
another reports. Each request fails at most one check: the order in which two
checks fail is decided by `Refusal`, which the proofs cover for every request. `api_service`
offers fewer requests, one of each operation on a flag and one for each of the ways to
misread a request (no token, no key, a member twice, an unknown member, a probe):
each more multiplies the states, and the mapping is proved for all.
In `terraform` two environments make a replacement, an import and a flag of
somebody else's possible, and two goroutines an abandoned request that takes effect during
the next one. Three troubles suffice for a lost answer, its late effect and another
client's act or a kill in one behaviour; the proofs of the safety properties need no
bound. `MaxTroubles` bounds only what goes wrong;
the provider's own steps are not bounded. In `flagd_overlap` two processes suffice for
each conflict of locks, and three requests for two in one process and one in the
other. In `command_safety` three troubles allow a lost answer, an unwritten output and
the act of another client, and two goroutines a request that is served after its
repetition. In `data_files` one process looks while the other writes or has been
killed, and two interventions put something in the way and take it away. In
`credentials` four inodes let a file be replaced while two others exist;
two interventions let it be replaced under the same number or rewritten in two
halves. Inodes are interchangeable, so the run starts from one placement of them. `access` is a table of options rather
than a long behaviour: each constant holds the values that a condition of the code
tells apart. The runs of `Flagd` and `TerraformFlag` do not report deadlock: processes
end and are not started a second time, and Terraform or a script may have nothing to do and
the environment no troubles left; a load of credentials ends.

Fairness. `FairSpec` assumes weak fairness of `Progress(w)`, the steps a goroutine
takes by itself, and of `Expire(w)`, the timer of `context.WithTimeout`. Nothing is
assumed of `Acquire`: since the pool picks any waiter, a caller may be passed over
for ever, and `EveryCallReturns` holds because its deadline passes and `GiveUp`
ends it. A version of `GiveUp` that ignores the deadline violates it. Nothing is
assumed of the process either, which may crash and restart for ever.

`TerraformFlag!FairSpec`: the service answers (its deadline makes it, by
`EveryCallReturns`), and somebody keeps running `terraform apply`. Nothing is
assumed of losses, kills or other clients, which the bound ends.
`Flagd!FairRun`: weak fairness of the steps of `run`. Each step it may wait for has a
timer or a context: the 5 s of `Shutdown`, the 10 s of the startup, the busy timeout of SQLite, the
signal context. Nothing is assumed of handlers, and a drain that waits for them without a limit
violates `SignalEndsProcess`.
`Flagd!FairHandler(r)` is the premise of `RequestsResolve`: the handler of `r` answers
when it has its result, and its 5 s pass. Nothing is assumed of the other handlers,
of locks or of the connection, which another process may take again and again.

`FlagctlCommand!FairSpec`: the service answers, the output is written or fails, and
a script that does not know the outcome repeats its command. Nothing is assumed of
losses and kills, which the bound ends. A client without a timeout violates
`ScriptEnds`.
`CredentialFiles!FairSpec`: the loader takes its next system call. Nothing is
assumed of the owner; an open that blocks on a FIFO violates `LoadEnds`.

## What is proved

For every set of workers, environments, keys and descriptions, every set of
offered requests and every bound on the clock, from the assumptions named in
`FlagModel` and `FlagStore` (valid keys are keys, `Omitted` is not a value,
offered requests are requests, `NoWorker` and `NoFlag` are distinct from workers
and flags):

* `FlagStoreProofs!Invariance`: `Spec => []IInv`. The safety properties are not
  inductive by themselves: that a commit keeps identities unique and history
  intact needs to know that the transaction's snapshot is current, which needs to
  know that nobody else holds the connection and that it went back to the pool
  clean, which needs to know where each call is and what it has read. `IInv` is
  the conjunction: types, `ConnectionIsOwned`, `CallIsConsistent`,
  `SnapshotIsCurrent`, `OneRowPerIdentity`, `TimestampsAreOrdered` and, separately
  inductive, `SchemaInv`. The proof has one lemma per action; what the actions
  have in common (`Finished`, `Released`, `OutsideStep`, `InsideStep`,
  `ReleaseStep`) is stated once.
* `SchemaSafe`, which a run checks too, and the parts of `IInv` that only the proofs
  establish: `TypeCorrect`, `IdentityIsUnique`, `TransactionsAreIsolated`,
  `TimestampsAreSane`.
* `HistorySafe`, `NoLostFields`, `OnlyCallsAddOrRemove`,
  `NewerFileIsSafe`: the action properties the runs check, all from
  `RowsEffect`, which says that a step leaves the rows alone or is a create, a
  delete or a commit of a very particular form.
* `StoreImplementsRegistry`: the store implements the
  registry. The refinement mapping hides the connection and maps every stage
  between invocation and answer to "pending"; a commit is the registry's update at
  the instant `local[w].updated`.

For the pipeline, any set of requests and of handlers:

* `FlagAPIProofs!Invariance`: `Spec => []IInv`. `ChecksPassed` and `RefusalStatus`
  say what the chain of checks yields. That a status tells the effect needs to
  know which operation the handler called for which method, that the call in
  progress has had no effect yet, and that a call which ends "exists" or "absent"
  had none; `CallIsConsistent` says so per stage. The proof has one lemma per
  action, with `CallStarts`, `RefusedEarly` and `OthersConsistent` for what they
  share.
* `AdmittedOnly`, `StatusIsHonest`, from that invariant alone.
* `DecodesTheUnambiguous`: decoding succeeds exactly for the bodies that every reader
  understands alike, for any number of members in any order. `Decoding` is recursive,
  and the theorems on induction are out of the prover's reach because they take the
  predicate as a parameter; `StepByStep` gets by with the set of the
  positions at which it holds, whose complement has no smallest element
  (`SmallestMember`, from `WFMin`). With it `Decoding` is shown to be defined
  (`DecodingDefined`) and to have read exactly what stands before each position
  (`NextReads`, `WholeBodyReads`). The duplicate check by `seen` agrees with a count of
  the names (`CountNames`).
* `DecodedIsMeant`, `UsableIfMeant`: exactly the bodies that mean a valid request are taken, and
  for what they mean.
* `MeaningIsKept`: `Spec => []MeaningInv`, a second inductive invariant on top of the
  first. A success shows its client what it asked for only if the request
  kept its meaning all the way: in the call of the store, in the answer, whose one
  flag needs identities that are unique (`Unique`), and in the response. From it
  `TypeCorrect`, `BodiesAreUnambiguous`, `SuccessesAreAccepted`, the other properties of
  the run.
* `ServiceImplemented`: `Spec => ImplementsService`, one lemma per action. A request that
  is in order arrives by the registry's `Call`, `Serve` is a step of the registry, a body
  that is lost is its `Fail` and the end of the request its `Return`; reading the
  body, writing the response and all that happens to a request that is not in order
  cannot be seen (`Unseen`, `RefusedIsInvisible`). `OthersLookTheSame` says that a step of one handler is not seen at another.

These use the assumptions of `FlagModel` and `FlagAPI`: valid keys are keys, `Omitted`,
`Null` and `NoCall` are no values or requests, the empty description is one, `Calls` are
requests, the bound on the clock is a number.

For processes, any number of processes and requests:

* `FlagdProofs!Invariance`. That what was answered stays stored needs to know that a
  commit never overwrites what its transaction has not seen (`SnapshotIsCurrent`),
  which needs that one process at a time holds more than a read lock (`OneWriter`)
  and that a connection has one owner (`ConnectionIsOwned`); that an exit with
  status 0 cuts nobody off needs to know where each request may be
  (`RequestsArePlaced`).
* `ListenerFirst`, `ExitsClean`, which a run checks too, and `TypeCorrect`,
  `AnswersDurable`, `SnapshotCurrent`, parts of the invariant.
* `LedgerImplemented`: `Flagd` implements `RequestLedger`, step by step under the
  mapping `Fate`. That nobody is told before the effect is decided follows from
  `RequestsArePlaced`: an update is committed only while its handler waits for it.

For the provider, any environments, configurations, goroutines, clients and troubles:

* `TerraformFlagProofs!Invariance`. That the state does not lie needs to know what an
  answer on its way says of the past: `AnswersWereTrue` relates each answer that waits for
  the provider to the values its flag has had since the request was sent. That there
  is one such request, and that it is about what is in the state, is `OneRequest`; who
  is entitled to an update or delete that is still on its way, `Entitled`.
  `Outcome` and `Served` say once what all five operations do to the rows;
  `Handled` says in three cases (refused, forgotten, recorded) what the five
  handlers of the provider do with a response, and the responses of other servers
  are always the first.
* `TypeCorrect`, `OrphansReported`, `StateWasTrue`, `OthersAreSafe`. `OrphansReported`
  holds for any number of kills, with the exception stated above: a flag whose creation
  was cut off by one.

For the command line, any commands, flags, goroutines, clients and troubles:

* `FlagctlCommandProofs!Invariance`. That a message is honest needs to know what an
  answer on its way says of the effect (`Tells`), that it is the answer to the one
  request of the command (`OneRequest`) and that the output keeps what it said
  (`WritingTells`). That repetition changes the flags once needs `OnlyRepeats(r)`:
  while nobody else is about, every request under way is `r` itself, and once `r` has
  changed something the rows are `Settled`, which leaves a further `r` nothing to
  change.
* `TypeCorrect`, `OutputIsTrue`, `MessagesAreHonest`, `RepetitionConverges`,
  `RepetitionChangesOnce`: every safety property of the runs, and the types.

For the data directory, any number of processes and interventions:

* `DataFilesProofs!Invariance`: `Relies(p)` is what a process that nobody disturbed may rely on at
  each of its stages, whatever the others do; it grows by one file per check.
* `TypeCorrect`, `CheckedStaysPrivate`, `GoodFilesAreAccepted`, `JournalStays`,
  `LinksAreSafe`.

For credential files, any inodes, generations and number of interventions:

* `CredentialFilesProofs!Invariance`: what was read so far is a part of one content
  that the path has named since its `Lstat` (`Gathered`), as long as at most one
  rewrite in place goes on. Beyond that, data whose two halves agree is still such a
  content: every content is of one generation (`Uniform`), since a rewrite begins
  with an empty file, and its second half was read from one that was whole. Without interventions nothing differs from the start
  (`Untouched`).
* `TypeCorrect`, `OnlyChangesAreRefused`, `LoadedIsGenuine`.

For access, all origins, deployments, settings, environments, programs and probes:

* `AccessProofs`: `TypeCorrect`, `FailsEarly`, `NetworkAccess`, `TokenProtection`,
  `OwnOriginIsServed`, `SettingsAreDecisive`, `ProbeIsRight`. The invariant says of the
  service and of the client that each came from options which `Load` and
  `NewWithConfig` accept; the rest is reasoning about those two conditions.

Only model-checked: the liveness properties, since liveness under fairness is outside
the reach of the prover. Every safety property of the runs, and every refinement, is
a theorem. The inductive invariants, and the types they contain, were found with
TLC and are now established by the proofs alone; any of them can be added to the
configuration of its module.

## Not modelled

* Validation beyond "some inputs are refused"; the text of messages and logs, tables,
  help and JSON layout.
* The SQLite file format, what the driver does with a connection whose commit was
  refused, and errors of the disk.
* Hashing of tokens, PEM and X.509, TLS itself: each is the condition it decides.
* Terraform values that are unknown while planning, and several resources at once: the
  provider keeps no state between them, and the client is only read.
* An empty `--data-dir`, `--help`, `--version`; Windows, where `readFile` refuses
  every secret.
* The release script, the test helpers and the tests, which are not part of the
  running system.

One hazard is without a property: what becomes of the pooled connection when SQLite
refuses a commit (`sqlite.go:175`) is decided in the driver, which is not in the
repository. One behaviour is left open on purpose: a flag that is deleted and created again may carry
a `created_at` before the deletion (`sqlite.go:102`), because `Create` reads the
clock before it waits for the connection; nothing in `docs/` promises otherwise, and
the registry allows it.

## Plan

Every component that runs is modelled, and its safety is proved as far as the prover
reaches. What could still be added is a composition of `FlagctlCommand` with `Flagd`
in the place of the registry, in which a restart of the service is one more trouble.
