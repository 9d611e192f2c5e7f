# redis_exporter in TLA+

A model of the Prometheus exporter for redis in `src/`, model-checked with TLC; what it
keeps invariant is proved with TLAPS. `PROJECT.json` lists components, runs, mutants, the map from
definitions to source lines, findings, hazards and theorems; this file explains them.

## 1. The system

The program is one process. `main.go` reads flags, builds an `Exporter` and serves it
over HTTP; Prometheus asks for `/metrics` or `/scrape?target=...`, and the exporter
connects to redis, runs commands and turns their replies into metrics.

| component | source | state | operations | what can go wrong |
|---|---|---|---|---|
| HTTP handlers | `exporter/http.go`, `Collect` | options with the password map, a mutex | `/metrics`, `/scrape`, `/discover-cluster-nodes`, `/-/reload` | a goroutine per request; only some of the state is under the mutex |
| password file | `exporter/pwd_file.go`, `main.go` | the map, the file on disk | load at startup, reload | edits at any time, invalid contents, overlapping reloads |
| connections | `exporter/redis.go` | none of its own | connect (URL, then Dial; cluster) | which password wins; timeouts |
| scrape | `Collect`, `scrapeRedisHost` | open connections, database count, result | about fifteen sections in a fixed order | partial failure, early returns, leaks, meaning of `up` |
| checked keys | `exporter/keys.go` | replies pending on the connection | batches of commands, replies matched by order | rejected commands, other clients, lost connections |
| key groups | `exporter/key_groups.go` | SCAN cursor, merged groups | Lua script per batch, merge, fold | keys change between batches, limits |
| patterns | `exporter/keys.go` | SCAN cursor, selected database | expand patterns, count keys | refused databases, cursors, keys that come and go |
| streams | `exporter/streams.go` | none | XINFO STREAM, GROUPS, CONSUMERS | groups vanish in between |
| sentinel, search indexes | `exporter/sentinels.go`, `exporter/search_indexes.go` | none | a list, then questions about each name | names vanish in between |
| INFO, latency, clients, Tile38, modules | `exporter/info.go`, `latency.go`, `clients.go`, `tile38.go`, `modules.go` | what earlier lines said | line parsers | fields read by position, names matched by pattern, forms that differ by server |
| metric registration | `exporter/metrics.go` | the cache of metric descriptions | describe, register | a cached description with other labels |
| lifecycle, TLS | `main.go`, `exporter/tls.go` | the HTTP server, certificate files | checks, serve, handshakes, signal, shutdown with a timeout | the timeout is shorter than redis'; files are replaced while they are read |

Interactions: a handler takes the mutex around a whole scrape (`Collect`) and around the
installation of a reloaded map; `/scrape` makes an exporter of its own from a copy of the
options, taken without the mutex. Within a scrape all sections share one redis
connection, so what one leaves pending on it reaches the next; in cluster mode keys and
key groups have connections of their own.

Correctness, component by component: every exported value belongs to the labelled key
and database; no series twice; nothing pending left behind; one password map per scrape;
a reload takes effect; mutex always released and every request answered; every
connection closed; `up` means what it says; a failing section leaves the others alone;
no key lost or counted twice among groups; the heaviest groups kept; a name that
nobody touches is exported whatever happens to the others; what the server says of a
database, a command, a replica or a client is exported under its own labels, whichever
server was scraped before; a handshake never uses an old or a mixed pair; the way the
process ends tells whether a request was cut off.

## 2. Modules

| module | models | used by |
|---|---|---|
| `RedisConn` | a redigo connection, the redis server and its other clients (external) | `KeyPipeline` |
| `KeyPipeline` | `extractCheckKeyMetricsPipelined`, `getKeyInfoPipelined`; the direct path as a reference definition | `MCKeyPipeline`, `KeyPipelineProofs` |
| `Handlers` | the four handlers, mutex, password reload, credentials, shutdown | `MCHandlers`, `HandlersProofs` |
| `Scrape` | `Collect` and `scrapeRedisHost` | `MCScrape`, `ScrapeProofs` |
| `KeyGroups` | `key_groups.go`, its Lua script included | `MCKeyGroups`, `KeyGroupsProofs` |
| `KeyGather` | the abstract specification of the key check | implemented by `KeyPipeline` |
| `RedisDo` | the server and its other clients for sections that only use `Do` (external) | `KeyScan` |
| `KeyScan` | `getKeysFromPatterns`, `getKeysCount`, `scanKeys` | `StreamInfo` |
| `StreamInfo` | `streams.go` | `Directory` |
| `Directory` | `sentinels.go`, `search_indexes.go` | `Sections` |
| `Sections` | those sections, slow log, key groups' SELECTs and scripts on one connection | `MCSections`, `SectionsProofs` |
| `MetricDesc` | `metrics.go` | `RedisAnswers` |
| `RedisAnswers` | what servers of nine kinds answer (external) | `InfoMetrics` |
| `InfoMetrics` | `info.go` | `ServerMetrics` |
| `ServerMetrics` | CONFIG, INFO, LATENCY, CLIENT LIST, Tile38 and modules of successive scrapes | `MCServerMetrics`, `InfoTextProofs`, `ServerMetricsProofs` |
| `Server` | `main.go`, `tls.go` | `MCServer`, `ServerProofs` |

Definitions called "fault" in their comment are seeded bugs: each stands in for the
definition that follows it when the mutants are run, and shows that a property would
notice. They are not part of any specification.

**KeyPipeline.** The connection is two logs, commands sent and replies given, and the
number of replies received; a reply remembers the command it answers, which the exporter
cannot see but a property can. One action per Send of a key's commands, Flush and
Receive of a key's replies. Between any two of them the server executes a command,
another client changes a key, or the connection is lost. Values are shapes (text,
number, empty, HyperLogLog, the collections, a module's type): what the replies' kinds,
and nothing else, depend on. The module goes on to the next `Do` on the connection,
because redigo's `Do` reads all pending replies and returns an error among them. A write
that failed once fails for good (`broken`), as `bufio.Writer` keeps its error. Commands of
several words are spelt with an underscore (`MEMORY_USAGE`), in the other modules too.

**Handlers.** `pc[r]` is where the goroutine of request `r` is; a goroutine that was
answered is free for the next request. Passwords are versions: a content of the file is
its version and the addresses in it. `used[r]` holds the credentials request `r` has
connected with and the version of the map they came from. The password in an address
belongs to the exporter's own only: `/scrape` strips its target's. `since`, `promised` and
`overlap` are history variables, read by no action.

**Scrape.** One action per section, in the code's order. A server is what it denies,
says and is; options and servers are constants of the specification, chosen in `Init`.
A section is one step, since its commands do not interact with anything but the
connection, which may be lost between steps. `dirty` stands for an error that the
pipelined key check (see KeyPipeline) left pending. Each list option (counted keys,
streams) stands for one entry. The section names are the names of what is exported.

**KeyGroups.** One action per script run, so that other clients act between the batches.
SCAN is assumed to give what redis documents: a key there from beginning to end is
returned, possibly more than once, as long as it goes on from the cursor it gave. The
cursor is a number as in the sections below, and one that does not fit leads the
iteration astray (`wide`). The option is taken as non-empty and parsed: `Group`
is the function the regular expressions compute. Names are numbers because the sort
compares them.

**KeyGather.** An abstract specification: the server answers questions about keys from
what they hold at that moment, and a metric may only be exported under the key, database
and name of such an answer, no oftener than the key was asked for. `KeyPipeline`
implements it (`Implements`) with a refinement mapping that forgets the connection: the
answers at hand are the replies whose command was about a key, and what is wanted is
what is not yet exported.

**RedisDo, KeyScan, StreamInfo, Directory, Sections.** These extend one another and
follow one connection through the sections in `scrapeRedisHost`'s order. What passes
from one to the next is the connection's: the selected database, its loss, and the error
that a rejected key check left unread (`pending` names the section whose first command
reports it). Between any two commands another client may add, remove or retype a key, or
remove a master or an index. SCAN returns a key that stays at least once and a key that
comes or goes perhaps. A cursor is a number of `CursorBits` unsigned bits, the
exporter's int one bit less: one that does not fit becomes the largest integer, as
`redis.Int` with its error dropped returns it, and the next SCAN goes on from there. From
then on the server owes the iteration nothing. What a scenario may be is stated in
`ScenariosAssumption`: lists of well-formed entries, a store of the modelled contents,
finitely many masters and indexes.

**MetricDesc, RedisAnswers, InfoMetrics, ServerMetrics.** `RedisAnswers` turns facts
about a server into the lines it prints, in the form its kind prints them (redis 2.4 to
7.4, KeyDB, Valkey 7 and 8, and a later server whose LATENCY reply has another shape). A
line is a key, an index and a sequence of named parts, because the code reads them by
name or by position. `InfoMetrics` parses the lines as `info.go` does, carrying state from
line to line; the properties compare what is exported with the facts. Each section asks
(`Fetch...`) and then reads the answer one line per step. The exporter lives
through `MaxScrapes` scrapes of servers that are replaced in between, since its
descriptions stay. What a server may be is stated in `ServerMetricsAssumption`: facts of
their types (`Facts`) in which no database, command, client or master is listed twice
(replicas may be), with at most 16 databases and masters, the numbers `Itoa` can write,
and a sentinel that holds no data (`Consistent`).

**Server.** `main` goes through its checks, each of which may find its input wrong,
starts the serving goroutine, then asks for signals: one that comes earlier kills the
process, even if the server already serves. The certificate and the key are two files
with versions; a load reads one and then the other. `net/http`'s Shutdown closes the
connections between requests, counts one without a request as such after five seconds,
and looks again until none is left or ten seconds have passed; time itself is a
nondeterministic choice. Handshakes are full ones (a resumed session reads no file).

## 3. Runs

Passing runs (TLC, 2 workers):

| run | instance | checks |
|---|---|---|
| `keys` | two databases, two keys, seven shapes of value, five sets of permissions, one write by another client, the connection lost anywhere | `TypeOK`, `AttributedUnlessRejected`, `DrainedUnlessRejected`, `NoDuplicates`, `NextDoUnlessRejected`, `AgreesWithDirect`, `Implements`, `Terminates` |
| `handlers` | two requests, one edit, with and without cluster mode or a password in the address | `TypeOK`, `LockOwner`, `OneMapPerScrape`, `ReloadInEffectUnlessOverlap`, `FreshUnlessOverlap`, `Answered` |
| `scrape` | 16 option settings, 136 servers, two scripts | `TypeOK`, `NoLeak`, `UpExact`, `SectionsIndependent`, `Terminates` |
| `groups` | two databases, four keys in three groups, limit 1, one key without MEMORY USAGE, two batches, two-bit cursors, one write | `TypeOK`, `KeysAccounted`, `MemoryAccounted`, `HeaviestKept`, `LastingCounted`, `CompleteOnly` |
| `sections` | three databases, three keys, 36 pairs of options and permissions, one change by another client, two batches | `TypeOK`, `CountBounds`, `Labelled`, `ExpansionExact`, `StreamExact`, `DirectoryExact`, `ScriptDb` |
| `server_metrics` | 41 servers, four option settings, two scrapes | `TypeOK`, `DatabasesExact`, `ReplicationExact`, `CommandsExact`, `LabelsExact`, `NoDuplicates` |
| `server` | two connections, 24 command lines, two replacements of the pair | `HandshakeExact`, `ExitTells` |

Bounds. *Keys*: the inputs hold two keys of one database, one key in two databases, a
key asked for twice and a database that does not exist; a shift of replies needs two
keys, a mix-up of databases two databases, a race one write between the two batches;
denied are nothing, all commands on one key, or those whose errors the two paths handle
apart.
*Handlers*: a race between reloads needs two of them, and a goroutine that was answered
takes the next request, which notices; an edit gives two versions to tell apart. For the
invariants the theorems remove both bounds.
*Scrape*: each server denies at most one command (or a pair that belongs together), as
independence of sections is about one failure at a time; connections are lost anywhere
on top of it. *Groups*: three groups and a limit of 1 give a fold of two groups; two
batches give a merge; usages 1 and 2 give ties and differences. *Sections*: one change separates what
is touched from what must be exported regardless; with two batches and two-bit cursors
an iteration has a middle, an end, and a cursor that does not fit. *Server metrics*: a
first server makes the descriptions, a second meets them; `DefaultDbs` is 2 in place of
16, so that a database past the default needs only three. *Server*: a load that spans a
replacement needs one, one that starts inside a replacement and ends in the next needs
two. `MaxChanges`, `MaxEdits`, `MaxBatches` and `MaxRotations` bound what the environment
does, never the exporter.

Runs that find a disagreement between code and documentation:

| run | property | what happens |
|---|---|---|
| `keys_denied` | `Attributed` | a key the ACL denies shifts the replies: values under other keys' names |
| `handlers_reload` | `ReloadInEffect` | of two overlapping reloads the older content may stay |
| `handlers_password` | `PasswordFileIgnored` | a reload puts the file into effect next to `redis.password` |
| `groups_overflow` | `SingleOverflow` | a real group called overflow gives the same series twice |
| `server_min_version` | `MinVersionKept` | with a CA file a TLS 1.2 client gets through under `tls-server-min-version=TLS1.3` |

Properties ending in `Unless...` are the strongest form that does hold; the form without
the exception is what the documents say. The exceptions the other properties state are
behaviour of the code:

- `DatabasesExact` says nothing of `db_keys_cached` on redis 7.4 and Valkey 8 and nothing
  of databases whose line has five fields (see below);
- `CommandsExact`: the time in a command's histogram includes that of every command whose
  name begins with it, and is 0 for names with `_`, `.` or `-`;
- `LabelsExact`: the labels of `instance_info` and `connected_client_info` are those of the
  first server met; a client whose name has a `=` is left out;
- `NoDuplicates` of `ServerMetrics`: replicas listed alike give the same series twice;
- `StreamExact`: the error left by a rejected key check costs the first stream, or all
  patterns; `DirectoryExact`: a removed index costs the indexes after it;
- `CountBounds` (its lower bound), `ExpansionExact`, `LastingCounted` and `CompleteOnly`: an
  iteration that met a cursor too wide for an int goes on elsewhere and may miss keys;
- `HandshakeExact`: with a CA file the least protocol version is the library's (1.2), not
  `tls-server-min-version`, since the configuration made for each client does not set it;
  `server_min_version` shows it.

Smaller differences met while modelling, for which there is no run:

- a checked key that does not exist is exported with size 0 (`keys.go:347`, and a test
  expects it); the key analysis specification says it is skipped;
- an error left pending by a rejected key makes `SLOWLOG LEN` fail and `slowlog_length`
  disappear (`Scrape`'s `dirty`, `Poisoned`);
- the first Lua script that fails ends the scrape, in the random order of a map; the
  scripting specification says that all are executed;
- a cluster connection does not use the password in the address (`redis.go:102` keeps the
  host only), which the authentication specification ranks first;
- `db_keys_cached` is the fourth field of a keyspace line (`info.go:276`). Its help text,
  "Total number of cached keys by DB" (`exporter.go:511`), and the comment at `info.go:241`
  fit KeyDB only: on redis 7.4 and Valkey 8 the field is the number of keys with expiring
  fields;
- a keyspace line with five fields, which a later server prints, is given up on: with empty
  databases included its database is exported with 0 keys, without them not at all, where
  the metrics specification has the number of its keys;
- key groups are gathered on masters even with `skip-checkkeys-for-role-master`;
- a key whose MEMORY USAGE is denied adds its predecessor's usage to its group.

**Fairness.** Each goroutine runs when it can (weak fairness of its steps): the Go
scheduler is fair, and every wait for redis ends because `ConnectionTimeouts` is set on
connect, read and write. In `KeyPipeline` a connected server answers; nothing there
relies on the timeout, so that `Terminates` shows that no Receive waits for a reply
nobody asked for. In `Handlers` acquiring the mutex is strongly fair: `sync.Mutex` hands
over to the longest waiter after a millisecond (its starvation mode). Requests, edits,
signals, other clients and losses have no fairness.

## 4. Proofs

The theorems hold for all values of the constants that satisfy the named assumptions of
the modules: only types (sets of well-formed options and servers, natural bounds, finite
sets of keys and names, `NoRequest` not a request, patterns that match keys), and for
`ServerMetrics` that a server's facts do not contradict each other (section 2). No theorem
limits how often other clients act, how many keys, databases, connections or names there
are, or what a server denies.

| module | theorems |
|---|---|
| `HandlersProofs` | `TypeCorrect`, `MutexOwned`, `OneMap`, `ReloadEffective`, `Fresh` |
| `ScrapeProofs` | `TypeCorrect`, `ConnectionsClosed`, `UpMeaning`, `SectionsDoNotDepend` |
| `ServerProofs` | `HandshakesExact`, `ExitsTell` |
| `KeyPipelineProofs` | `TypeCorrect`, `RepliesAttributed`, `Drained`, `NextDoClean`, `NoSeriesTwice`, `Refinement`, `BothPathsAgree` |
| `SectionsProofs` | `TypeCorrect`, `SeriesLabelled`, `ScriptsInDb`, `CountsBounded`, `ExpansionCorrect`, `StreamsExact`, `DirectoriesExact` |
| `KeyGroupsProofs` | `TypeCorrect`, `OnlyComplete`, `LastingAreCounted`, `HeaviestAreKept`, `KeysAreAccounted`, `MemoryIsAccounted`; the lemmas on sums over finite sets |
| `InfoTextProofs` | the lemmas on registration, INFO's text and the walk over it that the next one uses |
| `ServerMetricsProofs` | `TypeCorrect`, `DatabasesCorrect`, `ReplicationCorrect`, `CommandsCorrect`, `LabelsCorrect`, `NoDuplicatesCorrect` |

Each property is that of the run of the same component, unchanged. None but the type
invariants is inductive; what was added, and why, is the argument:

*Handlers.* `IInv` adds to `TypeOK` and `LockOwner`:
`UsedFrom` (what a request has connected with so far is of the version of the map it
connects from: the installed one under the mutex, its own copy in `/scrape`), which
needs `LockOwner` because an installation must exclude a scrape in progress; `Ages`
(a map in flight is at least as new as the file was when its reload came in, and nothing
is newer than the file); `Sequential` (until reloads overlap there is one at a time, and
it carries a content as new as everything promised). One lemma per conjunct, one step
per action under it; `FrameStep` says once that a step of one request leaves the others
alone. The overlap exception cannot be dropped: `handlers_reload` is the counterexample.

*Scrape.* `Covered` says that until the
deferred functions run they cover every open connection; `Progress` ties the place in
the code to whether INFO has been exported and to which scripts are left; `Returned`
and `Reported` carry that through the result to `up`. A failing script is neither left
nor run, which is why an error means that not all of them ran. For `SectionsIndependent`,
`Held` says which connections a scrape that lost none still has, `Clean` that an
old error is unread only where a key check was refused, and `Gathered` that each section
behind the current one was exported if it was due.

*Server.* A load in progress has read a certificate no older than the pair in place when
it began; if no replacement overlapped it, both files are of that version. What is proved of
the least version is for a server without a CA file, as with one it fails. No connection
is open before the checks have passed, and each way to end carries its cause with it.

*KeyPipeline.* Received replies are a prefix of given ones, given ones answer the
commands in order, and `Sound` says that as long as nothing was refused the exporter's
position among the keys is the position of the next reply; `InDb` that each command was
executed in the database the exporter believes to be selected. For `NoDuplicates` the
series exported so far are mapped one to one to the askings already answered (`Grouped`,
`Once`). The refinement is proved step by step: each action is a step of `KeyGather`
under the mapping, or leaves it alone. `BothPathsAgree` adds that on a store nobody writes
to each reply says what the path without a pipeline would be told (`Truthful`), that every
key of the list is grouped and visited (`Complete`), and that at any moment the metrics sent
about a key are the parts of the direct path's that have been read (`Told`). Looking for
`Sound` changed the model: the writer's error is sticky in `bufio` (`broken` in `RedisConn`), and without that a reply
of one batch could have been taken for one of the next once four databases are visited,
an instance larger than the runs'.

*Sections.* `InDb`: an entry is at hand only in its own database, since SELECT is the
first command about it and any failure drops it; `Sourced`: whatever is visited comes
from an option; `Visited`: only such databases, and those of the key groups, are ever
selected. `OutStep` says once which step registers which series. The proof of
`ScriptDb` brought out that the number of databases may be 0 (a cluster node that
answers neither CONFIG nor CLUSTER INFO), a case its statement now excepts.

*Sections, patterns.* From the first batch on a key that stays is found or still owed by the server,
so when the cursor comes back to 0 it is found, unless a cursor did not fit (`Iteration`); what is found was there. The
keys that stay only become fewer and those that were ever there only more (`Bounds`), so a
count that was right stays right, for any number of changes; `Expansion` says the same of
the entries of a pattern option: expanded, or still to come, unless an old error took the
reply.

*Sections, names.* The same argument for streams, masters and indexes: from the list on, a name
that stays is still to be asked about, at hand, or described (`StreamsTold`,
`MastersTold`, `IndexesTold`), what is known of the stream at hand is right as long as
nobody touches it (`Known`), and a command fails only for a name that does not stay. Any
command could also fail because of the error the key check left unread: `StreamsPending`
follows it to the first pattern or the first stream, and `Read` says that after the slow
log it is gone.

*KeyGroups.* What a script run returns, what is merged so far and what is stored for a
database are exact for each group against the answers the server gave: as many keys as were
returned in it and, if MEMORY USAGE was refused for none, as much memory (`AtHand`, `StoredExact`; `Ahead`
and `Loops` say which databases are still to come and that a cursor of zero means that the
lasting keys have been visited, unless an earlier one did not fit; that the conversion makes
0 of nothing but 0 is the lemma `ZeroFits`). `Folded` and `Exported` carry that through the sort and
the overflow group to the series. The sort gives each group a rank of its own below their
number, because its order is total and transitive, so that cutting the list at the limit
keeps the heaviest and puts exactly the others in the overflow group. For `KeysAccounted`
and `MemoryAccounted` the sums have to be followed: the fold they are defined by has a value
whatever the order the elements are taken in (`SumMeaning`, `SumRemove`), and a sum over the
groups of sums over their members is the sum over all (`SumByGroup`). These are inductions
over finite sets. The library's induction rules take a predicate as a parameter; the lemmas
take a *set* of sets instead and follow from the theorem that a finite family of sets has a
minimal member (`Smallest`, `SetInduction`). The only assumption added is that the keys are
finitely many.

*ServerMetrics.* What a server prints is data of any length, so the proof begins with the
text. `InfoText` is a nest of concatenations; it is shown to be a sequence of headings and
lines (`IsText`), each line marked with the number of the master, replica, command or
database it is about, every pair of a key and a mark on one line, and the six lines of a
master following one another. Concatenation, `FlattenSeq` and its partial results are
handled by lemmas on sequences (`FlattenMeaning`, `FlatUpTo`); where an induction is
needed it is one over a set of numbers, as with the sums above. Four invariants follow the
scrape. `Base` says which answer is being read, that what is left is a suffix of it, and
what the walk over INFO knows (`WalkOk`): the fields, command statistics, percentiles and
databases of exactly the lines behind it, and, within a master's block, that master's
address, which is why a link metric can carry only its own master's labels. `Exact` says
that the series of databases, commands, masters, replicas, instance and clients are
exactly the ones that the lines read so far make (`SecW`, a set of metrics computed from
the facts): a step that reads a line adds that line's metrics and no other.
`DatabasesExact`, `ReplicationExact` and `CommandsExact` are `Exact` at the end of a
scrape. `LabelsExact` also needs `Described`: the descriptions of `instance_info` and
`connected_client_info` have the labels of one of the servers met so far, and two servers
with as many labels have the same ones, so a series is right or it does not fit and is not
sent. `NoDuplicates` needs `Once`: the series outside `Exact`'s account come from a line
that has been read (`OldAt`, section by section), so the line at hand cannot repeat them;
two lines in the account give one series only if they are about replicas listed alike, and
the databases reported as empty are those no line was about. The proof of `TypeOK` shows
that no registration in these sections meets a name without a description, which would
panic.

Working on these proofs made the model stricter: the assumption on the servers' facts was
implicit in the instance before, and Tile38 and the modules read their answers line by
line like the other sections.

The strengthened invariants of the modules above but `ServerMetrics` were checked with TLC
on the instances of the runs before they were proved; those of `ServerMetrics` speak of
the marks of a text, which TLC cannot choose, and rest on their proofs.

Only model-checked: liveness (`Answered`, both `Terminates`), which the prover does not
do under fairness. Every invariant and every action property that a passing run checks
is proved, and so is the refinement.

## 5. Not modelled

The parser of CLUSTER NODES (one stateless expression per line); basic authentication and
the health and index pages; flags, environment variables and logging beyond what `Server`
takes from them; the counters `exporter_scrapes_total` and
`target_scrape_request_errors_total`; the table of metric names and help texts; the fields
of FT.INFO, CLUSTER INFO and of the many INFO lines that are copied one to one. Time:
timeouts are the possibility of failure. Panics on replies of an unexpected shape, or for a
negative `max-distinct-key-groups`, are not considered.

## 6. Plan

The modules of the plan are written, and what the runs check of them is proved but for
liveness. What is left out is listed in section 5.
