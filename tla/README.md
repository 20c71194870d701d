# A TLA+ verification of secrets-manager

secrets-manager keeps named secrets encrypted in a SQLite database behind a
small HTTP API, with a command-line client that caches what it fetched. These
modules model the parts of it where order, failure and concurrency decide
whether it is correct: who may open the database, how the master key is
replaced, how requests and revocations interleave, what the audit log says, what
the client's offline cache may answer, and around them how the server starts, how
its files are opened, how its schema is migrated and how names travel through
URLs. TLC checks small instances of every module; TLAPS proves every safety property
that holds in these runs for all instances. Liveness is only model-checked.

## The system

| Part | State | Operations | Modelled in |
|---|---|---|---|
| Database lock (`lock.rs`) | an exclusive SQLite lock on `<db>.lock` | acquire without waiting; released when the process ends | `Vault` |
| Master key (`crypto_state.rs`, `commands.rs`) | table `meta`: salt, KDF costs, verifier; the key in a process's memory | first run, verification at start, `rekey` | `Vault` |
| Projects and secrets (`handlers.rs`, `repo.rs`, `db.rs`) | tables `projects`, `secrets`; the mutex around the connection | create, get, put, delete | `Vault`, promised by `SecretStore` |
| Cryptography (`secrets-crypto`) | none | derive, encrypt, decrypt, associated data | symbolically in `Vault`, encodings in `Encoding` |
| Tokens (`auth.rs`, `repo.rs`) | table `tokens` | issue, expire, revoke by name, authenticate, scope checks | `Access` |
| Audit log (`audit.rs`, `app.rs`) | `audit.jsonl` | one record around every request | `Access`, opening it in `PrivateFile` |
| The server as a whole | all of the above | | `Service` |
| Start-up (`config.rs`, `crypto_state.rs`) | the environment, KDF costs in `meta` | acquire a passphrase, check the costs, serve, rekey | `Startup` |
| Files with secrets (`config.rs`, `audit.rs`, `cache.rs`) | inodes and paths | open and vet, create and rename | `PrivateFile` |
| Schema (`db.rs`) | the tables, the column `expires_at` | create, migrate | `Migration` |
| Routing and names (`app.rs`, `handlers.rs`, client `api.rs`, `config.rs`) | the configured URL | build a URL, route it, validate, record | `Routes` |
| Command output (client `commands.rs`) | none | export, get, set | `Encoding` |
| Offline cache (`cache.rs`, `api.rs`) | the cache key, one file per server, token and project | open, store, load, remove | `OfflineCache` |
| Deployment scripts, tables of tokens, child processes | | | not modelled |

How the parts interact:

* `serve` and `rekey` are separate processes on one file. They meet only through
  the lock file. The token commands of `secrets-server` take no lock: they commit
  to the same database next to either of them.
* In the server, requests run concurrently on tokio's threads and share one
  connection behind a `std::sync::Mutex`. A request takes it three times (to
  resolve a name for the log, to authenticate, to handle) and anything may happen
  in between. A handler keeps it from its project lookup to its answer.
* The release profile aborts on panic, so a panic in one request ends them all.
* Client processes share a directory with no lock: files are replaced by rename,
  and the key file is created by whoever does not find one.

The behaviours that are hard to test are listed, each at its line, under
"hazards" in `PROJECT.json`.

## Modules

* `SecretStore` - the promise to HTTP clients: every request takes effect at one
  instant between being sent and answered; one answered 500 or lost took effect
  or did not. Encryption, processes and the database do not occur in it.
* `Vault` - the server's database, the processes on it and the handlers.
* `VaultProps` - its properties, its inductive invariant, and the refinement
  mapping to `SecretStore`.
* `Access` - tokens, scopes and the audit log, with their properties.
* `OfflineCache` - the client's cache, with its properties.
* `Service` - `Access` and `Vault` composed: one database, one mutex, one server
  process, requests that pass through both.
* `Startup`, `PrivateFile`, `Migration` - what happens around the server's start
  and its files.
* `Routes`, `Encoding` - names and values on their way between the command line,
  URLs, the database, the cache and the log.
* `VaultProofs`, `AccessProofs`, `ServiceProofs`, `CacheProofs`, `MigrationProofs`,
  `PrivateFileProofs`, `StartupProofs`, `TextProofs` - the proofs, each with the
  inductive invariant it needs (that of `Vault` is in `VaultProps`, where a run checks
  it). `TextProofs` is about `Routes` and `Encoding`.
* `MC*` modules and the `.cfg` files - the instances.

Definitions named `X_Y` next to a definition `X` are mutants: `X` with a bug that
someone could have written. Each property is known to fail under the mutant that
`PROJECT.json` pairs it with.

### Vault

A master key is the pair of passphrase and salt; a ciphertext records the key,
the associated data and the plaintext, and opens only under both. `meta`,
`projects` and `secrets` are the committed database. A transaction works on a
copy in `proc[p]` and changes them in the step that commits; a crash or an error
only forgets the copy. Initialization is one step because its writes are one
transaction. The rekey transaction is split where others can get in: `BEGIN` and
`SELECT` take a snapshot (`RekeySelect`), each row is decrypted and rewritten
(`RekeyRow`), and metadata and rows are committed together (`RekeyCommit`).
`unchecked_transaction` is deferred, so until its first write another connection
may commit; the write is then refused (`stale`, `RekeyAborts`). `CanWrite`,
`Invalidate` and `Exit` are SQLite's and the operating system's part.

`ServeLock` and `RekeyLock` only take the lock file: as in `commands.rs`, the
passphrases are asked for afterwards, with the lock held (`serve_asks`,
`rekey_asks`). `ServePassphrase` and `RekeyPassphrases` are the answers, and
`NoPassphrase` is every answer that ends the command (empty, not confirmed, the
current one, none to be had). No fairness makes any of them happen.

A request goes from `sent` to `looked` (mutex taken, project found) to `done`, with
`written` between the two statements of a PUT. `LookupFails` and `HandlerFails` are
errors from SQLite at these points. A `Crash` ends the requests in hand with no
answer. A process that finds the lock taken exits and changes nothing, so it has no
action of its own.

### Access

One step for each time a request holds the mutex, and the CLI and the clock in
between. `dead` and `withdrawn` are history variables: whether a request's token
was expired, or covered by a completed revocation, when it arrived. A flaw is
what is wrong with a request besides its token (malformed, too large, bad names);
`EarlyFlaws` and `LateFlaws` give each handler's order of checks around the scope
check. What the project handlers do to secrets is in `Vault`; here they succeed
or miss. `DatabaseFails` needs no token that the table knows: the query is what fails.
Unsupported methods on known routes are not told apart from unknown
routes.

### OfflineCache

A project's secrets are the number of writes made to it, so a later state is a
larger number. A cache file carries the key, id and time it was sealed with, and
separately the time its envelope shows. Commands are `get` (run, get, list and
export, which may disable the cache), `set` and `token`. The clock may be set to
any time, files may be copied over each other and their times rewritten. The cache's
own answers say why it has none: `unreadable` if the file or the clock could not
be read (`LoadFails`, which happens to intact files too), `unusable` if the entry
is out of time or does not decrypt.
`acked` and `unsure` are history variables: the last `set` reported as successful,
and the ids whose file a `set` failed to remove or something else rewrote.

### Service

Slot `c` is one request in both modules: `arq[c]` its way through the middleware,
`vrq[c]` its handler. `Enter` hands a request that passed every check to `Vault`;
`Respond` takes the handler's status back. What `Access` leaves open (its handlers
"succeed or miss") is here decided by the encrypted store, and `ImplementsAccess`
says that `Access` allows it. A commit to the token table waits for a rekey that is
writing and spoils the snapshot of one that is not (`TokenCommit`). `changed` is a
history variable: the requests that changed what clients can read.

### Startup, PrivateFile, Migration

`Startup` runs one command after the other, each in surroundings that the operator
prepares: four passphrase sources, the new passphrase, what else fails. A text is
a sequence of characters because newlines are stripped. `Words`, the passphrases, are
texts of any length that do not end in a newline and may have newlines inside; a file
holds one with no newline, one or two after it. A passphrase that itself ends in a
newline arises from the last of these. KDF parameters carry their
real bounds; `Tamper` writes values at and beyond them. Vault treats the costs as
part of the salt; here they are separate.

`PrivateFile` gives every system call its own step and lets other programs replace,
relink and chmod in between. One path stands for the three files that are only
read. Opening is shown for Unix; elsewhere the checks do not exist. An `open` that
blocks on a FIFO is not modelled, and neither is the loss of written data in a power
failure (the code does not sync).

`Migration` has one step per statement, because each is a commit of its own. `Busy`
is SQLite giving up on a lock that another process holds.

### Routes, Encoding

In `Routes` a name is a sequence of pieces (a byte, an encoded byte, a word that
routes use too). `Serve` builds the URL as the client's `format!` does, cuts it as
`http::Uri` does, matches it as the router does and decodes it as the extractor
does; the last three belong to libraries and are marked external. A configured URL
may have a path, as `validate_server_url` allows: `Start` is that path and the
slashes that `trim_end` left, and the routes come after it. The request is taken to
reach the server with the URL that the client wrote, so a reverse proxy that removes
such a path is not modelled. `Split` gives what
stands before, between and after the slashes, which are numbered from the left.
Requests carry an admin token. `last` is a history variable: what was asked for and
what came of it.

`Encoding` has no processes: its behaviours enumerate strings, byte by byte or (for
values) character by character, and its invariants compare the operators with what a
reader of their output sees: another encoding of other names, a reader of dotenv
files, a decoder of UTF-8. The dotenv reader is the one that the escapes are written
for: it undoes them and expands nothing, where some readers replace `$NAME`. A value
that ends in a CR is excepted from the way through a pipe, where it is stripped. The
export of a value is a sequence of steps, one for each turn of the loop in
`dotenv_value` (`Export`, `PushByte`, `PushEnd`), and what is pushed goes to the
reader at once. `PushByte` takes one byte where the loop takes one character; the
bytes of longer characters are never among the four that are escaped. `ends` is a
history variable: where the characters of the value end. Lengths are four bytes and
times eight, as in the code, and are computed as the code computes them, modulo 2^32
and 2^64; hashes are two bytes in the run and of any fixed length in the proofs. The
letters of the verifier's two reserved names are one character each.

## Runs

| Run | Instance | Shows |
|---|---|---|
| `vault_rekey` | 2 processes, 2 keys, 2 passphrases, 2 salts, 1 request, fairness | `AllRowsDecrypt`, `ServingKeyCurrent`, `SaltMatchesVerifier`, `OneOwner`, `TypeOK`, `ImplementsStore` through starts, prompts, rekeys, crashes and restarts; `MutexReleased`, `LockNotWedged` |
| `vault_requests` | 1 process, 2 concurrent requests, 2 keys, 2 values | `Inv` and `ImplementsStore` (linearizability) |
| `access` | every route, a flaw, failing database and log, 2 projects, 2 tokens of one name, a clock, 2 requests in sequence | `DeadOnArrival`, `Confinement`, `AnswersAudited`, `TypeOK` |
| `service_race` | 2 concurrent requests (create, put, revoke, two kinds of list, health), 2 projects, 2 passphrases, revocation, expiry, restarts, rekeys | `DeadOnArrival`, `WritesAuthorized` |
| `service_faults` | 2 requests in sequence (create, put, delete, token creation with overflow; a bad key), failing database and log, 2 tokens, 2 passphrases | `AuditTruthful`, `ImplementsAccess` |
| `cache` | 1 process at a time, 2 tokens, 2 writes, failing directory and reads, rewritten files | `CacheIsBound`, `ReadYourWrites`, `FreshEntryUsed` |
| `cache_key_race` | 2 processes | `FreshEntryUsed` fails (see the finding below) |
| `migration` | 3 processes, old, new or half-made database, fairness | `OpenedIsReady`, `OldTokensKeepWorking`, `ClashAtMostOnce`, `OpenEnds` |
| `private_file` | 2 foreign and 2 own inodes | `UsedIsVetted`, `NoLinkFollowed`, `KeyFilesWhole` |
| `startup` | a word of one character and one of three with a newline inside, all sources, files with up to two newlines at the end, damaged KDF costs | `SamePassphraseStarts`, `OnlyItsPassphrase`, `RekeyRenews`, `CostBounded` |
| `encoding` | pairs of names of up to 2 of the bytes 0, 1, 2; 3 hashes, 3 times; texts of about 4 bytes, exported and read | `AadUnique`, `CacheNamesUnique`, `ValuesSurvive`, `LogShowsText` |
| `routes` | 12 names, 7 URLs (3 with a path), 2 projects or tokens, 1 secret | `ValidNamesArrive`, `NamesUsable`, `ProjectsReadable`, `TokenStaysSafe` |

Bounds. `MaxVersion` stops PUTs before a version would pass it; 2 distinguishes a
first write from an overwrite. Two processes are enough for the races on the lock
file, since the lock has two sides. Two rows per rekey give a loop that can be
interrupted in the middle. Two tokens of one name make revocation cover more than
one row. `MaxRequests`, `MaxTime`, `MaxDate`, `MaxKeys` and `MaxWrites` bound
counters. In `access` a TTL of 1 with `MaxDate` 1 expires at time 1 when it is given
at time 0 and overflows when it is given at time 1; a TTL of 0 is refused. The flaw
`bad_key` comes before the scope check of a DELETE and after that of a PUT; the
other flaws take the same two paths. `access` has one request at a time, raced by
the CLI and the clock; two requests at a time are in `service_race`, on the composed
server. It does not check deadlock because it stops when the requests and the clock
are used up. The two `Service` runs divide what one run could not hold: races of two
requests with each other, a rekey, revocation and expiry; and failures. Both have
two passphrases and one salt, so that a rekey can take place between two requests.
What one request can do to an empty database and a second one to what is there then
is reached; the 204 of a DELETE needs three requests (create, put, delete) and is
left to the theorem `LogTruthful`, as is the 413, which is an early flaw like
`bad_key`. In `cache`, `MaxTime` exceeds the TTL and the skew so that both are
passed, and one key is all that a process alone can need. In `Routes` a project may
have 2 pieces and a key 3, so that there are names of exactly the longest length,
longer ones, and keys too long for a project; the paths are a plain one, one that is
itself the beginning of a route, and one that the HTTP stack refuses; URLs with a
query and other schemes, which are refused on the same line, are left to the
theorem; a stored secret more would add no case, since every property is about one
request or one name. In `Encoding` bytes 0, 1 and 2 are the ones that can be taken
for lengths and separators of strings of up to two bytes, the time 256 differs from
0 in its second byte only, and values are of every kind of character that
`dotenv_value` tells apart, with characters of two and three bytes that end at,
before and beyond the limit of 3 for the log. It does not check deadlock because it
stops when the strings are used up. `MaxClashes` is one more than `ClashAtMostOnce`
allows. Symmetry is used only in runs without liveness. `TypeOK` of the modules
where it is not listed describes their state; the properties of those runs do not
rest on it.

Fairness. In `Vault`, a process that has its passphrases takes its next step and a
handler that has the mutex takes its own (the runtime has free threads and SQLite
calls return); nothing is assumed about operators, clients, crashes, failures, or
who gets the mutex. In particular a prompt may never be answered, and the lock file
is then held for ever, which is what the code does: `LockNotWedged` begins at the
answer. In `Migration` a process that is opening the database goes on.

### Finding

Two first client commands can both create the cache key (`cache.rs:290`); an entry
sealed with the key that was overwritten is fresh and unusable, while `README.md:260`
says that a fresh entry is used. `cache_key_race` shows the race.

### Other differences between code and documentation

Met while the modules were written; the models follow the code, and no run is
devoted to them.

* After a DELETE the next PUT reports version 1 again (`repo.rs:89`); `docs/API.md:103`
  calls the version monotonic. `Vault` has rows that start again at 1.
* The audit middleware looks the token up before the extractor does. If the token
  is revoked or expires in between, a 401 is recorded with a name (`audit.rs:177`);
  `audit.rs:30` says it is absent then. `Access` has both lookups.
* A `ttl_days` beyond the last representable date panics (`handlers.rs:232`) and
  the release build aborts; `docs/API.md:165` promises 400. `TtlOverflow` in `Access`
  and `Service`.
* A write that fails, or a crash, in the middle of an audit record leaves a line
  without an end (`audit.rs:95`) to which the next record is joined; `README.md:219`
  promises JSON Lines. Not modelled: the log is a set of records.
* A `SECRETS_PASSPHRASE` that is not valid Unicode is passed over in silence
  (`config.rs:60`); `config.rs:56` gives it priority and says "never silently
  proceed". `Garbled` in `Startup`.
* Cache files are read with `fs::read` (`cache.rs:109`), which follows links;
  `docs/SECURITY.md:22` lists them among the files opened with `O_NOFOLLOW`. Their
  contents still have to decrypt. `LoadCache` in `PrivateFile`; `NoLinkFollowed` leaves
  this task out.
* An empty name, or one with a slash, matches no route and is answered 404
  (`app.rs:33`); `docs/API.md:53` says "always `400`, never `404`". `Routes`.
* The client writes names into URLs without encoding them (`api.rs:150`), so that
  `set` with the key `K?x` sets `K` and reports `K?x`; `docs/API.md:37` has 400 for it.
  `Routes`; of such names `ValidNamesArrive` says only that the record shows the project
  that they got to, or an escape.
* `validate_server_url` accepts a URL with a path (`config.rs:160` is a test of it), to
  which no route of the server answers (`app.rs:33`). `Routes`; `ValidNamesArrive` says
  that such a request reaches no handler.
* The audit record holds the project as it was encoded in the URL, not the name
  that the handler used (`audit.rs:168`, against `audit.rs:36`). `Routes`.
* A request of the largest accepted size can make a project that the client cannot
  read (`api.rs:131`); `app.rs:43` says that the limits match. Sizes are not modelled.

`ReadYourWrites` is checked for commands that run one at a time on a host. With
two at a time a `get` can store, after a `set` has removed the cache file, what it
fetched before. An error of the removal is ignored: until the file is next stored or
removed the replaced value can be served, and `ReadYourWrites` says that nothing else
in the program leads there. `CacheIsBound` ends it with the TTL.

## Proofs

Every theorem holds for every value of the constants that meets the assumptions of
its module. The assumptions are named, say that bounds are natural numbers, that
`None` and the other marks are not data, and that the given operations and flaws are
ones the code has; TLC evaluates each of them in the runs of its module.

| Module | Theorem | States |
|---|---|---|
| `VaultProofs` | `TypeCorrect`, `NoSecretLost`, `KeyCurrent`, `MetaNeverTorn`, `MutualExclusion` | `TypeOK`, `AllRowsDecrypt`, `ServingKeyCurrent`, `SaltMatchesVerifier`, `OneOwner` |
| | `Invariance` | `Inv` |
| | `Refinement` | `ImplementsStore` |
| `AccessProofs` | `TypeCorrect`, `DeadTokensRefused`, `EveryAnswerAudited`, `ScopesConfine` | `TypeOK`, `DeadOnArrival`, `AnswersAudited`, `Confinement` |
| `ServiceProofs` | `RefinesAccess`, `DeadTokensRefused`, `OnlyAuthorizedWrites`, `LogTruthful` | `ImplementsAccess`, `DeadOnArrival`, `WritesAuthorized`, `AuditTruthful` |
| `CacheProofs` | `CacheBound`, `OwnWritesRead`, `FreshEntriesServed` | `CacheIsBound`, `ReadYourWrites`, `FreshEntryUsed` |
| `MigrationProofs` | `OpenedDatabaseReady`, `OldTokensAccepted`, `OneClash` | `OpenedIsReady`, `OldTokensKeepWorking`, `ClashAtMostOnce` |
| `PrivateFileProofs` | `OnlyVettedFilesUsed`, `NoTornKeyFile`, `LinksNotFollowed` | `UsedIsVetted`, `KeyFilesWhole`, `NoLinkFollowed` |
| `StartupProofs` | `CostStaysBounded`, `RekeyAlwaysRenews`, `PassphraseRequired`, `PassphraseStarts` | `CostBounded`, `RekeyRenews`, `OnlyItsPassphrase`, `SamePassphraseStarts` |
| `TextProofs` | `TokenNotSentInClear`, `NamesArriveIntact`, `NamesStayUsable`, `EveryProjectReadable` | `TokenStaysSafe`, `ValidNamesArrive`, `NamesUsable`, `ProjectsReadable` |
| | `AadNeverCollides`, `CacheFilesKeptApart`, `ValuesComeBack`, `LogGetsText` | `AadUnique`, `CacheNamesUnique`, `ValuesSurvive`, `LogShowsText` |

**Vault.** `AllRowsDecrypt` is not inductive: a rekey commits what it has collected
over many steps, and a PUT seals with a key it was given long before. `Inv` adds what
each process and each request relies on. `ProcOK` says that every live process holds
the lock, that the salt and the key it has read are still the committed ones, and that
row by row the open transaction is the committed table, under the old key where
the loop has still to come and under the new one where it has been (`WorkRowOK`).
`RequestOK` says that a handler runs in a serving process and that its project
lookup and its write still stand; `MutexOK` that one handler per server is inside.
The lock gives `OwnerUnique` (one live process), which makes the steps of all other
processes and most conflicts impossible; the rest is one lemma per action, with
`LocalStep` for steps of one process that leave the database alone and
`RequestStep` for steps of one request.

**The store.** `Refinement` reduces a step to what it does to the view of one row and
of one request. Handlers map to the steps of `SecretStore` in which a request takes
effect and is answered, a crash to requests being abandoned, everything else to
stutters. The commit of a rekey is the hard case: it replaces every row, and stutters
because `WorkRowOK` says that each new row holds the same plaintext and version.

**Access.** What a request read of the token table may be out of date when it is
used. The invariant rests on rows never losing their name, scope or expiry and only
ever gaining a revocation, so that what was read is still true of the row apart from
that (`CarriesTruth`). `Progress` says that a request has told nothing before its
handler and has a status after it, `Barred` that one whose token was dead on arrival
has not passed the extractor, `Audited` that it has one record from `Record` on and
none before; `WithdrawnRevoked` and `Numbered` tie revocations and the log to the
requests.

**Service.** The theorems of the two halves are used, not repeated: every step of the
composition is a step of `Vault` or leaves its variables alone (`StoreStep`), and
likewise for `Access` (`AccessStep`, which is `RefinesAccess`), so both invariants
hold of it. `Link` joins them: a request in a handler passed every check of
`Access` and is the one that the handler was given, unless it was lost in a crash.
`WritesAuthorized` follows from it. For `AuditTruthful` the invariant adds `Settled`,
that a request has changed nothing before its handler's write and that the status it
is to be recorded with is true, and that every record so far is (`Truthful`).

**OfflineCache.** `FreshEntryUsed` says that a file in time and under the key is the
answer of a `get` whose server is out of reach, unless the file could not be read.
`CacheBound` holds for any number of processes; `Holds` says what
each has in memory at its place in the program. `OwnWritesRead` and
`FreshEntriesServed` have the hypothesis `OneAtATime`: `cache_key_race` refutes the
second for two processes, and the first fails for two as described above. For one,
`Sole` says that there is one key once there is any, that every file is under it, and
that a file which no `set` missed is no older than the last acknowledged `set`.

**Migration.** Tables and the column are never dropped, so what a process has passed
still exists (`Reached`); a process that met a concurrent `ALTER TABLE` finds the column
when it opens again (`Clashed`); the rows that were there keep a NULL expiry (`Rows`).

**PrivateFile.** `Descriptor` says, for each place in the code, what is known of the
file behind the descriptor in spite of what others do to the path; `NamesExist` that no
path leads to an inode that does not exist.

**Startup.** `MetaOK` and `EnvOK` describe the metadata and the surroundings. Passphrases
are of every length (`Words` is any set of texts without a newline at their end):
text that a word and a newline were joined to gives the word back, whatever source it
came from, and of two newlines one is left. `OnlyItsPassphrase` covers the first start,
where nothing is there yet to compare with: what initializes the database is what the
first source that is set holds, and no source is passed over for being empty or unusable.

**Routes.** The invariant says that a client that is running has a URL that `load`
validated, with no slash at its end, that every project and token has a valid name,
and every stored pair a valid key. The last follows from the end of the way alone:
only the route of one secret answers a PUT, and its handler answers 200 for valid keys
only, whatever the URL was cut and decoded to. The way as a whole is followed for
names that are valid. For all others only its parts matter: what the router saw is
made of pieces (`PathIsPath`, `SegmentsAre`), and a segment that was cut or decoded to
another name has an escape in it (`TruncatedTells`, `ServeTells`). `SplitLonger` is
the step: a path with a segment more, which has no slash in it, splits into the
segments of the path and the new one, because the slashes that were there keep their
numbers and places (`OneMoreSlash`, `CutsStay`). A URL is made of three to five such
steps, so no induction is needed (`UrlSegments`). No character of a valid name ends a
path or is encoded (`WholeIsPath`, `DecodeClean`), routes with equally many segments
differ in a word (`RouteOf`), and a valid project is recorded whole (`TruncateFits`).
That a project may be called `secrets` is part of it: places in the path decide, not
words. If the base URL has a path, the way has at least one segment more than its own
route, and for every route of that length a word in the wrong place (`NoRouteOf`,
`PathArrivesNowhere`).

**Encoding.** The names in `AadNeverCollides` and `CacheFilesKeptApart` are all
strings of bytes up to a length below 2^32; beyond it the code's `as u32` would
truncate, and names, URLs and keys are far shorter. A prefix of four bytes determines
a length of 32 bits (`U32Unique`), so a prefixed string can be told from what follows
it (`PrefixedUnique`); `CachePathUnique`, where nothing is prefixed, takes the first zero
byte for the end of the URL and needs that hashes have one length. That URLs have no
zero byte is a hypothesis of `CacheNamesUnique`: an environment variable cannot hold
one, and `http::Uri` sends no request, after which alone a file is stored, to a URL
that does. For values `ExportInv` says that, at any place in the export,
the reader has exactly the bytes that were pushed and is in quotes, in a bare value or
at its start according to the decision that was made before; `TextInv` that the
boundaries of the value are the ends of its characters, and that one of them is the last
within the limit. Each is preserved because it is about one more byte or character, so
the induction over strings is the one over steps.

Only model-checked: `MutexReleased`, `LockNotWedged` and `OpenEnds`. Liveness under
fairness, and `ENABLED`, are outside the prover's reach. That `FreshEntryUsed` fails for
two processes is shown by the counterexample of `cache_key_race`.

## Not modelled

Deployment scripts, systemd and nginx files. Tables printed for tokens, help texts
and warnings. The environment of the child that `run` starts (handed to the
operating system). The cryptographic primitives, nonces and random numbers, and the
wiping of memory. The sizes of bodies, and the bytes of an audit record that was cut
off. That requests end: a client may withhold the body it announced for ever, and
the rest of a request is a sequence of steps that do not wait for each other except
for the mutex, which `MutexReleased` is about. How the `url` crate parses a URL: a
URL is the record of its parts. Redirects and proxies of `ureq` (`api.rs:56`):
`TokenStaysSafe` is about the URL that a request is made with. Key stores of Windows
and macOS, which are used in the same two steps as the key file. Two names for one
database file (a symbolic link) would have two lock files; the model has one file.

## Plan

Done: `SecretStore`, `Vault`, `Access`, `OfflineCache`, the composition `Service`, the
modules around them, and proofs of all their safety properties.

Left:

1. Models of the bytes of the audit file over failed writes, and of the sizes of
   bodies (`api.rs:131` and `app.rs:43`).
2. Arguments for `MutexReleased`, `LockNotWedged` and `OpenEnds` for every instance.
