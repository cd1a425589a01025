# Verification of the distributed password manager

TLA+ models of the program in `src/`, checked with TLC, and theorems about
them checked with TLAPS.  `PROJECT.json` lists the runs, the code lines each
definition models, the hazards and the findings.

## 1. The system

A master gives out sequence numbers and keeps a log of writes; three chunk
servers store encrypted entries; clients write through one fixed primary chunk,
which replicates to the others, and read from any chunk held alive.

| Component | State | Operations |
|---|---|---|
| Master (`pkg/master/server.go`, `registry.go`, `metadata.go`) | `Metadata.seqNum`, `Registry.chunks` (address, last heartbeat, alive) | GetPrimary, GetChunk, ListKeys, Register, Heartbeat, WALNotify, the health monitor (every 3 s, dead after 6 s) |
| Master WAL (`pkg/master/wal.go`) | `entries`, one JSON file | Append, EntriesAfter, MaxSeqNum, load at start |
| Chunk server (`pkg/chunk/server.go`) | its store, its registration | Write, Delete, Replicate, Read, ListKeys; register with retry, then heartbeats every 2 s |
| Chunk store (`pkg/chunk/store.go`) | `entries`, `lastSeq`, one file per key | Put, Delete, Get, KeysWithPrefix, load at start; file names by `sanitize`/`unsanitize` |
| Vault client (`pkg/vault/vault.go`) | none that lasts | Save, Delete, Get, List: a query to the master, one to a chunk, and after a write a WALNotify |
| Accounts (`pkg/auth/auth.go`) | `users`, `users.json` | Register, Login, GetUser |
| HTTP gateway (`pkg/master/http.go`) | sessions (name, vault key, age) | register, login, logout, vault requests, sweep every 10 min; runs a vault client inside the master |
| Legacy web server (`cmd/web`) | `vaultKeys` per user, its own `UserStore` | the same with JWT |
| CLI (`cmd/client`), web UI (`web/src`) | cookie and shown user; site list, panel, entry shown | calls of the gateway, several at a time in the web UI |
| `pkg/crypto`, `pkg/protocol` | none | encryption, TLS set-up, message types |

Components interact by request/response connections, except for the
WALNotify, which has no answer, and heartbeats, which have none either.  Each
connection is served by a goroutine of its own, so that the handlers of one
process interleave; locks cover single calls of the store, the log, the
registry and the session table, never a whole request.

### What is hard

* A write takes two numbers and passes through the master, the primary, the
  replicas and the master again; other writes, registrations, crashes and lost
  connections come between any two of these steps.
* The log is written by the *client*, after it has its OK.
* The master keeps the counter and the registry in memory only.
* Files are overwritten in place, so a crash can tear them.
* `users.json` can have two writers with a lock each.
* The web UI's calls overlap, and each continues with what its closure saw when
  it began.
* The legacy web server's handlers share a map without a lock.

### What makes each component correct

* Write path: no acknowledged write is lost or undone; versions of a key only
  grow on every chunk; no chunk is ahead of the primary; a recovered chunk has
  all it missed; operations end, recoveries end.
* Coordination: dead chunks are found out, working ones are held alive.
* Log: an entry that was on the disk stays; no number is given out twice; what a
  failure leaves is a beginning of the log.
* Store: what is confirmed survives a restart; a restart is possible; `lastSeq`
  is the largest number held.
* File names: a key comes back from its file name, and no two keys share one.
* Accounts: an account stays, and all its logins get one vault key.
* Sessions: a request is served with the vault of the user shown, never after
  its logout, and not for ever.
* Web UI: the list and the entry shown are what the vault holds once all answers
  are in; nothing spins for ever.

## 2. Modules

| Module | Content |
|---|---|
| `Replication` | master, chunks and clients in one state machine: write path, registration, recovery, heartbeats, faults |
| `VersionedReplicas` | what it promises, abstractly: writes get growing versions, pass through the primary, and reach other chunks from there, each chunk's version of a key growing only |
| `ReplicationRefinement` | the mapping from `Replication` to `VersionedReplicas` |
| `ReplicationProofs`, `PathProofs` | theorems about them: invariant and refinement; recovery, acknowledgement and reads |
| `ChunkStore`, `ChunkStoreProofs` | one store: memory, files, I/O errors, crashes |
| `KeyCodec`, `KeyCodecProofs` | `sanitize` and `unsanitize` |
| `UserStore` | accounts of several processes on one file |
| `ReadPath` | `Get` and `List` beside all that `Replication` does |
| `Sessions`, `SessionsProofs` | the gateway's session table and the clients' cookies |
| `MasterWal`, `MasterWalProofs` | the master's log, its file, and the counter that starts from it |
| `PrefixLog` | what a log promises that is written back as a whole by writes that can fail |
| `VaultScreen`, `VaultScreenProofs` | the web UI's list, panels and calls |
| `WebGateway` | the legacy web server: `UserStore` with a process that has tokens and a key map |
| `UserStoreProofs` | theorems about `UserStore`, alone and beside the web server |
| `MC*` | instances for TLC; `MCChunkStore` has `KeyCodec` beside the store, `MCWebGateway` both users of `users.json` |

### Replication and the code

An operation `o` is one call of `Save` or `Delete`.  The two take the same steps
(a delete stores a tombstone), so one set of actions stands for both, and a
stored entry is represented by the operation that wrote it; `seq[o]` is its
SeqNum.  `cl[o]` is the progress of the client, `hd[o]` of the handler on the
primary, `targets[o]`/`todo[o]` the handler's replica list and its loop, `repl`
the ReplicateRequests under way, `notices` the WALNotify messages.

| Code | Action |
|---|---|
| `getPrimary` / `handleGetPrimary` | `HandleGetPrimary` (refused while the primary is held dead) |
| `Save`: dial and send, or dial fails | `SendWrite`, `DialFails` |
| `handleWrite`: `Store.Put` | `HandleWrite` |
| `getReplicaAddrs` | `GetReplicaAddrs` (a second GetPrimary, which takes a number too), `LookupFails` |
| the replication loop | `ReplicateTo`, `HandleReplicate`, `ReplicateFails` |
| the response, and the client reading it | `SendWriteResponse` |
| `notifyMasterWAL`, `handleWALNotify` | `NotifyMasterWAL`, `HandleWALNotify`, `NotifyLost` |
| `registerWithMaster` / `handleRegister` | `SendRegister`, `HandleRegister`, `SendRecovery`, `ApplyRecovery` (one entry a step, in log order), `FinishRecovery`, `RegisterFails` |
| `sendHeartbeat` / `Heartbeat`, `monitorHealth` | `SendHeartbeat`, `MonitorHealth`, `LoseHeartbeats` |
| process start and death | `ChunkStart`, `ChunkCrash`, `MasterStart`, `MasterCrash`, `ClientCrash`, `ClientLosesConn` |

`handleRegister` is two steps because the registry and the log have separate
locks.  `Embedded` operations are those of the HTTP gateway: they die with the
master.  Client crashes count as network faults (`MaxNetFaults`).  A
ReplicateRequest whose sender has given up waiting, or has died, stays under way
(`givenUp`) and may still be applied.

Abstractions: a put to the store is in memory and on disk at once (`ChunkStore`
has the difference); the WAL is on disk with each Append (`MasterWal` has the
difference); the value of an entry
is left out, its operation stands for it; time is left out, a chunk that sends
no heartbeats may be held dead at any moment.

### ChunkStore, KeyCodec, UserStore

`ChunkStore` follows `Store.Put` (and `Delete`, which differs in the tombstone
only): the check against the entry in memory, the change of memory, and
`os.WriteFile` as a truncation and a write between which the process can die.
The lock is held throughout (`writing`).  A file is an entry's SeqNum, `0` when
missing, or `Torn`.  File names come from the constants `FileOf` and `KeyOf`,
which the instances set to `Sanitize` and `Unsanitize` of `KeyCodec`.

`KeyCodec` works on numbers: the runes of a key, the bytes of a file name.

`UserStore` has, for each process, the stage of its one running `Register` call
(others wait for the mutex) and its copy of the accounts.  An account is the
call that made it, because its salt, and so the vault key, is drawn there.  An
empty file and no file both mean no users, as in the code.  `overlapped` records
that one process began a Register while another one's was running.

### MasterWal

An entry is the write it records.  `NextSeqNum` and `Lookup` are the two
GetPrimary queries of a write, of which the second makes no use of its number.

| Code | Action |
|---|---|
| `handleGetPrimary` with `Metadata.NextSeqNum` | `NextSeqNum`, `Lookup` |
| `WAL.Append` up to the truncation in `os.WriteFile`, or a file that cannot be opened | `AppendEntry` |
| the text of the file, whole or cut short by a full disk | `Persist`, `PersistFails` |
| the death of the process | `Crash` |
| `NewWAL` and `Server.Start` | `Start` |

`Start` takes a file that is not JSON, or cannot be read, for an empty log, as
`NewWAL` does; the counter is then 0 (`MaxSeqNum`).  The last entry need not have
the largest number, since the WALNotify messages come in any order.  `durable`,
`unlogged` and `misread` are for the properties: what was on the disk in full,
whether a master died before the newest number of a write was, and whether the
file holds a log that the running process could not read.  Such a log is still
there for the next process if the first Append cannot open the file either.

### ReadPath

`ReadPath` extends `Replication`; each step is a step of `Replication` or of a read.

| Code | Action |
|---|---|
| `getChunk` / `handleGetChunk`, `handleListKeys` of the master up to its dial | `Route`, `NoChunk`, `NoMaster` |
| `handleRead`, `handleListKeys` of the chunk, the answer on its way back | `HandleRead` |
| a dial or a connection that fails | `ReadFails` (for a `List` an error or an empty list) |
| a master that dies while it forwards a `List` | `ListsLost` |

The choice among the chunks held alive is free: the round robin counter and the
map's order are abstracted.  `known` and `before` remember, for the properties,
which writes were acknowledged and which reads done when a read was routed.

### Sessions

A client, a browser with one tab or the command line client, has the cookie and
the user it shows; `auth` is its login or logout under way, `request` its vault
request.  A browser can have one of each at the same time.  The cookie is
kept when the answer's header arrives (`KeepCookie`), the user shown changes
when its text has been read (`ShowLogin`).

| Code | Action |
|---|---|
| `login`, `register` of `useAuth`; the login command | `BrowserLogin`, `CliLogin`, `KeepCookie`, `ShowLogin`, `ShowRefusal` |
| `logout` of `useAuth`; the logout command, which sends nothing | `BrowserLogout`, `ShowLogout`; `CliLogout` |
| `handleLogin` with `sessionStore.create` | `HandleLogin`, `RefuseLogin` |
| `handleLogout` with `sessionStore.delete` | `HandleLogout` |
| `requireSession` and the vault handlers | `BrowserRequest`, `CliRequest`, `RequireSession`, `RefuseRequest`, `EndRequest` |
| the sweeper and time | `Sweep`, `Tick` |
| page load, `Max-Age` of the cookie, lost requests and answers, a new master | `Reload`, `ExpireCookie`, `LoseAuth`, `Restart` |

Abstractions: a session id is the number of the login that made it (the code
draws 128 random bits, taken as never drawn twice); whether a login has the
right password is `UserStore`'s matter, here it succeeds or not; several tabs,
which share a cookie but not the user they show, are left out; so are a second
click on logout while the first is under way, and a login or logout that is
handled after its page was loaded anew.

### VaultScreen

The variables are the component's: `sites`, `loading`, `panel`, `selected`, and
`saving` of the form.  Each call of `loadSites`, `openSite`, `deleteSite` and
`onSave` is a task; it is sent, carried out by the gateway in one step, and
answered, each at any time and in any order, or it fails.  A save is two
requests, the entry and then the list.

| Code | Action |
|---|---|
| `loadSites` | `Refresh`, `HandleList`, `ListAnswered` |
| `openSite` | `OpenSite`, `HandleGet`, `GetAnswered` |
| `deleteSite` | `DeleteSite`, `HandleChange`, `DeleteAnswered` |
| `onSave` of the form | `SaveEntry`, `HandleChange`, `SaveAnswered`, then as `loadSites` |
| the +, cancel and close buttons | `ToggleAdd`, `CancelAdd`, `CloseView` |
| a refused request or a broken connection | `Fails`; carried out all the same: `HandleLost` |

`forSelected` is the selection in `deleteSite`'s closure, from before the
confirmation and the request, so that a delete's answer can close the view of
another site, or leave that of a deleted one.  A form's answer closes the form
that is open then, which may be a newer one.  After + and cancel the panel can be
`view` with nothing selected, and is blank.  Abstractions: the vault behind the
gateway is one store (its replicas are `Replication`'s matter); filter, copying,
error texts and animations change none of these variables; a logout, which
takes the screen away, is in `Sessions`.

### WebGateway

`WebGateway` extends `UserStore`: one of its processes is the web server, whose
`loginHandler` and vault handlers run as goroutines of their own.  A write of
`vaultKeys` begins and ends (`StoreBegin`, `StoreEnd`), and so does a read
(`AuthMiddleware`, `Lookup`).  Go may notice that two overlap and end the process
(`FatalError`); when it does not, a read finds the old value, the new one or
none, and one of two overlapping writes may be lost.  Tokens are signed with a
constant of the program and are good in later processes, the keys are in memory
only: a request with an older process's token is refused until its user logs in
again (`RefuseRequest`).  The comment at `cmd/web/main.go:158` says the key is
derived on each request; the code reads it from the map.

## 3. Runs

Passing runs:

| Run | Question | Instance |
|---|---|---|
| `faults` | are acknowledged writes kept until the master restarts and on the replicas it listed, versions monotonic, recoveries complete, also when numbers are reused; does `Replication` implement `VersionedReplicas`? | 2 chunks, 2 concurrent writes of one key, and either 1 network fault or 1 chunk crash and 1 master crash; 3.2 M states |
| `serial` | does recovery catch a chunk up, and do all serving chunks hold the same versions, if operations do not overlap registrations? | 3 chunks, 3 writes on 2 keys, 2 crashes, replicas symmetric; 0.2 M |
| `live` | do operations, recoveries and failure detection come to an end, and is a chunk suspected by mistake held alive again? | 1 write, one chunk crash, one master crash, one network fault; 0.15 M |
| `store` | do confirmed writes survive crashes, in any order of puts? where do memory and files differ? is `lastSeq` right? which keys come back from their file names? | 2 keys, 5 writes, 2 crashes, 2 I/O errors; all sites up to 5 runes over `_ / a 2 x`, a tab and two non-ASCII runes, 37 k keys; 49 k in all |
| `users` | are accounts kept, with one vault key each, until a file write is cut short or two Registers overlap, and whose key can a login or a request of the web server get at all? | 2 processes, 4 calls for 2 names, 2 crashes or failed writes; 2 logins and a vault request at the web server; 2.7 M |
| `reads` | what can a read miss of the writes acknowledged before it, and can two reads of one chunk go back in time? | a save and a delete of one key in either order, then a Get and a List, while 2 chunks register and one other than the primary crashes; 4.0 M |
| `sessions` | is a request ever served with another vault than the one shown; does a session outlive its logout or its lifetime? | a browser and a command line client, 2 users, 2 logins, 1 lost message, 1 restart; 0.7 M |
| `log` | which entries does a new process find, in which order, and when can a number be given out twice? | 3 writes in any order of their WALNotify messages, 1 lookup, 2 crashes, 2 file errors; 0.15 M |
| `screen` | when is the list what the vault holds, when is the entry shown the current one, does a spinner or a form stay stuck? | 2 sites, 4 calls, 1 that fails or is lost; 3.6 M |

The bounds are chosen so that the interesting cases happen. Two writes of one key
are enough for any reordering of a pair, and every safety property speaks of a
pair of writes and one chunk besides the primary; a third chunk only matters for
the loop over replicas and for a chunk that takes a write another one misses
(`serial`). One crash or one lost message at every possible point, together with
everything the scheduler can do, reach all steps; the theorems have any number of
both.

`faults` leaves out the steps after which a client or a message only does nothing
any more (`NobodyStops`: a refused or failed dial, a client's death, a lost
WALNotify): no property of that run tells them from a client that takes no further
step, which is among its behaviours. A gateway operation that dies with the master
is such a client too, so that `Embedded` is empty there; `lostack` and the
theorems have it. The two writes are interchangeable, as are the replicas in
`serial`.

In `reads` the two writes do not overlap and the reads begin when both are on the
primary: what makes a chunk lag behind it is replication, registration, recovery
and one chunk crash, all at any moment; the primary does not crash, because what
it holds it still holds when it is back.

In `users` the fourth Register call and the second fault happen before the web
server is used (`LargeStore`); with three and one every interleaving with its
handlers is there. In `log` two crashes give a log that is lost and then begun
anew, three writes an order in which the largest number is neither first nor last.
In `screen` four calls are two changes and two reads in any order, or a change of
each of two sites that overtakes two lists.

Two logins are enough in `sessions` for a session that is replaced, left behind or
opened by the other client. Lifetime and sweep period are one unit each, as only
their order matters. The theorems below lift the bounds where they exist. Runs
with `CHECK_DEADLOCK FALSE` have a fixed number of operations and stop when these
are over; the clients of `sessions` and the user of `screen` never stop.

Runs that end in a violation show a disagreement between the code and a text
(the quotes are in `PROJECT.json`, `findings`):

| Run | What the code does |
|---|---|
| `caughtup` | a chunk that registers while a write is under way is "caught up" without that write: the replica list was too early for it and the WALNotify too late |
| `lostack` | after a master restart a number is given out twice, and `Put` answers OK to the second write without storing it |
| `deaf` | a chunk that keeps running over a master restart is never held alive again |

Those about replication bear on the passing runs: `AckedUntilRestart` is
`AckedOnPrimary` up to the master's first restart, and holds with chunk crashes
and lost messages (`faults`, and for every number of them as a theorem);
`CaughtUp` holds for the order of events `scripts/test_correctness.ps1` uses
(`serial`, and `CaughtUpCorrect` for every number of chunks, keys, operations and
chunk crashes), and fails with one overlapping write; `ReplicasAgree` adds that in
that order no chunk has a write the log and the others lack; `AliveAgain` is `AliveTracked`
up to the master's first restart, and holds (`live`).

Conditions under which a property is stated mark behaviour of the code that is
known and has no run of its own:

* `AckedOnTargets` needs no chunk crash and no lost message: `handleWrite` answers
  OK also when a replica does not.
* `AckedSurvives` needs files that can be written: `Put` keeps in memory a write
  whose file failed, and confirms it when it comes again.  It also needs keys
  that come back from their file names; `RestoredUnlessMangled` says which do, and
  a site such as `my_account` does not.
* A chunk killed between the truncation and the text of a file cannot be
  started again: `LoadFromDisk` is not enabled (`Loadable`).
* `RegisteredStays` and `OneVaultKey` end when a write of `users.json` is cut short,
  which loses all accounts, and when two processes register at the same time,
  each writing back the file without the other's account: the mutex is one
  process's own.
* `FreshRead` needs no chunk crash and no lost message, and a chunk the master
  listed for the write: a read can be routed to a chunk that has only just
  registered and does not have the write yet.
* `SessionsEnd` allows a session the time between two sweeps beyond its 24 hours,
  because `get` does not look at its age.
* `LoggedStays` ends with a write of `wal.json` that fails or is cut short, or a file
  that cannot be read: memory still has the entries after the first, and the next
  good write brings them back; after the others the log is lost.  `NumbersOnce` ends
  when a master dies before the newest number of a write is on the disk.
  `RefinesPrefixLog` allows the one step in which a log that nobody could read
  comes back.
* `ListRight` and `ViewRight` hold unless the answers crossed in the ways their
  comments name: the screen applies each answer when it comes, with no regard to
  what was asked for later.  A reload of the list makes it right again.
* `AccountsKey` ends as `OneVaultKey` does.  `TokenServes` needs that no two logins wrote
  the map at once.

### Fairness

`Fairness` of `Replication` assumes weak fairness of: each client's and each
handler's next step (goroutines that can run do), the handling of a WALNotify,
each chunk's registration steps (the loop retries every 2 s), heartbeats and
the health monitor (tickers), and the restart of a dead master
(`Restart=on-failure` in `scripts/deploy-gcp.sh`).  Faults are never fair, nor is
beginning an operation or restarting a chunk.  `ClientStep`, `HandlerStep` and
`RegisterStep` are single sequential processes, so that one weak fairness
condition for each is what the scheduler gives.

## 4. Theorems

All are proved for every value of the constants, so for any number of chunks,
keys, operations, clients and faults.  They assume what the modules assume of
their constants (`OpAssumption` and its like: that `None` and `Torn` are not
values, bounds are numbers, browsers are not command line clients).  For two
properties of `ChunkStore` file names have to round-trip, which the names of the
code do for every key that is not `Mangled`; that is a theorem too.

* `ReplicationProofs`.  The invariant `IInv` strengthens `TypeOK` and `LastSeqIsMax`
  with: the counter has a maximum to restart from (`MaxExists`), operations not
  started have no number (`NotStarted`), whatever a chunk stores, replicates or
  logs was handled by the primary (`StoredHandled`, `SentHandled`), and what was
  handled is on the primary in this or a newer version (`OnPrimary`).  `OnPrimary`
  is what makes `PrimaryFreshest` inductive: recovery reads the log and
  replication the handler, and both come after the primary's put.  All puts are
  one lemma (`StoreStep`), all other steps leave the stores alone.
  Results: `TypeCorrect`, `LastSeqCorrect`, `PrimaryFreshestCorrect`,
  `VersionsCorrect`.
  `ImplementsVersionedReplicas`: each step maps to a step of `VersionedReplicas` or to
  a stutter, from `IInv`.
* `PathProofs`, the writes.  `ReplayCorrect`: a recovering chunk misses no log entry newer than
  what it reported, also if it crashes and registers again.  `AckedCorrect`: until the
  master first restarts an acknowledged write is on the primary or superseded by a
  larger number; the strengthening is that numbers are given out once (`UniqueSeq`).
  `TargetsCorrect`, about the replicas of an answered write.  `CaughtUpCorrect`, for the
  order of `SerialSpec` while the master and the network work: `SerialInv` says that the
  operation under way is the only one and has the largest number (`OneAtATime`), so
  that the log is in the order of the numbers (`InOrder`) and no chunk, running or
  not, has a write and lacks an earlier finished one (`NoGaps`).  This is what makes
  the one number a chunk reports enough to tell what it has (`CatchingUp`); in any
  other order of events it is not, as the run `caughtup` shows.  `ReplicasAgreeCorrect`,
  from the same invariant: what a serving chunk stores is a finished write, so every
  other has it or a newer one (`HeldEverywhere`), both ways, and numbers are unique.
  The reads.  `ReadsChangeNothing`: `ReadPath` implements `Replication`, so the
  theorems above hold beside reads.  `MonotonicReadsCorrect`: what a read found was
  handled by the primary and stays on its chunk, in this or a newer version
  (`FoundStays`), whatever crashes and restarts.  `FreshReadCorrect`: what was
  acknowledged when the read was routed was answered by a handler that is done
  (`KnownDone`), and so is on all replicas of its list (`TargetsCorrect`).
* `ChunkStoreProofs`: `AckedSurvivesCorrect`, under the assumption that file names
  round-trip.  The invariant, which holds up to the first I/O error: only the
  file being written can be torn, and every other file equals memory.
  `MemoryOnDiskCorrect`, with errors too: only the keys whose last write failed differ.
  `TypeOKCorrect` and `LastSeqIsMaxCorrect` need nothing of file names: `lastSeq` is a number
  held and none held is larger (`LastFits`).  After a restart that asks for the largest
  element of a set of numbers, which exists because the numbers up to `MaxSeq` are
  bounded and `Nat` is well-founded (`LeastNumber` of `KeyCodecProofs`, `MaxOfBounded`).
  `UnmangledKeysKept` replaces the assumption on file names: for the names that
  `Sanitize` gives (`CodeNames`) and keys that are not `Mangled`, `AckedSurvives` and
  `MemoryOnDisk` hold without it.  `RestoredUnlessMangledCorrect` is what the run
  `store` checks, for every alphabet of runes below 2^16 and every length.
* `KeyCodecProofs`.  `RestoredCorrect`: a key comes back from its file name if and only if
  it is not `Mangled`, for keys of any length over runes below 2^16 (`Utf8Rune` covers
  no others).  The decoder, the digits of an escape and `FlattenSeq` are recursive
  functions; each is shown to exist, and inductions are by the least number that
  fails (`Induction`), since the library's rules take an operator.  A name is
  followed rune by rune: where the bytes of each rune end, what the decoder gives
  from there, and how much of the UTF-8 form that is (`EncodedBy`, `DecodedTo`,
  `Utf8By`).  Without a spoiled rune each step decodes to the rune's own byte.  With
  one, everything before the first is copied; from there the result is
  shorter than the UTF-8 form (`NoLonger`), or it has an ASCII digit or letter where
  UTF-8 has a byte above 127.
* `UserStoreProofs`: `RegisteredStaysCorrect` and `OneVaultKeyCorrect`: accounts stay,
  and have one vault key each, until a write is cut short or two calls overlap
  (which they never do with one process).  The invariant follows
  the accounts from the file to the running call's copy, which alone has them
  while the file is empty.  `NoGhostAccountsCorrect`, with overlapping calls too: file
  and copies have only accounts of calls that succeeded (`CopiesGenuine`).
  `WebKeepsAccounts`: all three hold beside the web server's handlers too, whose steps
  leave the file alone or end the process.  `AccountsKeyCorrect` and `TokenServesCorrect`:
  `WInv` says that every key a handler holds, is writing to the map or has read from it
  was given to a login of its user (`KeysGiven`), and that a login which makes its
  token has its key in the map unless two writes of it raced (`KeysStored`).
* `SessionsProofs`.  `SInv` says that the cookie's session belongs to the user shown,
  except between the header and the text of a login's answer, when a browser
  shows nobody and the command line client sends nothing (`CookieOfShown`); that the
  answer of a login has the session made for it (`LoginsOwn`); and that requests keep
  the session they were sent with (`RequestsOwn`).  Results: `RightVaultCorrect`;
  `LoggedOutIsGoneCorrect`, because ids are new and the session is deleted before
  the answer to its logout is under way (`AnsweredGone`); `SessionsEndCorrect`, because
  no session is older than its lifetime and the time since the last sweep (`Ages`).
* `MasterWalProofs`.  `WInv` says where the durable entries are while the file is
  being written and while no process runs (`Durability`), that the file is a
  beginning of the log in memory, and that the counter is ahead of all numbers, or
  a durable entry is when the master is down (`Counted`).  Results:
  `LoggedStaysCorrect`, `NumbersOnceCorrect`, and `RefinesPrefixLogCorrect`: each step
  adds an entry or keeps a beginning.

* `VaultScreenProofs`.  `VInv` accounts for every difference between the screen and the
  vault: unless answers crossed (`listOff`, `viewOff`), a site that is listed and not
  stored, or stored and not listed, has a call under way that will say so
  (`ListExplained`), and the entry shown is current or such a call is under way
  (`ViewExplained`).  `StagesFit` and
  its neighbours say what a call of each kind can hold at each stage.  Results:
  `ListRightCorrect`, `ViewRightCorrect`, `NeverStuckCorrect`, for any number of sites and of
  calls that overlap, fail or are lost.

Model-checked only: the liveness properties, since TLAPS has no ENABLED.  Every
invariant, action property and refinement that a passing run checks is a theorem.

## 5. Not modelled, and the plan

Modelled are the write path with its faults, the reads, the log, the store, the
file names, the accounts, the sessions, the web UI and the legacy web server.
What could be added, in this order:

1. The log's file and the store's files behind one `Replication`, so that a torn
   file meets a recovery; `live` with two operations; reads across a master
   restart.  Each multiplies the states of a run that is large already.
2. Several tabs of one browser, which share a cookie but not the user shown, and a
   logout while the screen's calls are under way.

Not planned: encryption and TLS (calls of libraries without state), gob
encoding, flag parsing, layout and styling of the UI, deployment and benchmark
scripts.
