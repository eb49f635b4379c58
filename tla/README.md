# A TLA+ model of the M1SPRO honeypot platform

The repository runs four honeypots (SSH, HTTP, FTP, Telnet), a capture chain that
ships, enriches, classifies and stores what they log, and a small secured web
application with a vulnerable twin. This directory models the parts that change
state, checks them with TLC on small instances, and proves the main properties
with TLAPS for every value of the constants. Source paths below are relative to
the repository.

- [The system](#the-system)
- [The modules and the code](#the-modules-and-the-code)
- [What the runs check](#what-the-runs-check)
- [Disagreements between the code and its documentation](#disagreements-between-the-code-and-its-documentation)
- [Fairness](#fairness)
- [What is proved](#what-is-proved)
- [What is only model-checked, and what is left out](#what-is-only-model-checked-and-what-is-left-out)
- [Plan](#plan)
- [Running it](#running-it)

## The system

### Components

| Component | State it keeps | Operations | Hard behaviour |
|---|---|---|---|
| Honeypots (`honeypots/{ssh,telnet,ftp,http}/server.py`) | one handler per connection or channel, `FakeShell.cwd`, `_last_password` | connection, credentials, command lines, requests | concurrent SSH channels under one session id, clients that leave at any `await`, container stops |
| Log writers (`honeypots/common/events.py`) | `/logs/<service>.jsonl` | append one line | a line above 8 KiB needs two `write(2)`, a process may die between them, in the middle of a character too |
| Log shipper (`analyzer/shipper.py`) | `offsets` in memory, `.shipper_offsets.json`, `all-events.jsonl` | seed, tail, unify, POST, save | reads while a writer writes, dies anywhere, files rotate, the analyzer is away or slow |
| Ingestion (`analyzer/api.py`, `analyzer/db.py`) | table `events` | insert, read the session, label the session | handlers overlap in a thread pool; each statement is its own transaction |
| Classifier (`analyzer/classifier.py`, `schemas/profiles.json`) | none | features, four matchers, priority order | order and incompleteness of the events it sees |
| Enrichers (`analyzer/enrichers/`, `backfill_geoip.py`) | AbuseIPDB cache and last call; `latitude`, `country` of stored rows | lookup, backfill | two threads look up one address; a lock is held during a network call; rows change country after they are stored |
| Exports, attackers view (`analyzer/exports.py`, `db.attackers`) | `block_list.iptables`, `rules/`, `iocs.json` | read the table three times, write three files | the table changes in between; a file is truncated before it is written; stale rules stay |
| Rate limiter (`secure_app/ratelimit.py`) | deque of stamps per key | `check`, `reset` | the clock is read before the lock is taken |
| Sessions of the secured application (`security.py`, `routers/auth.py`, `static/common.js`) | tokens in `localStorage`, revoked `jti`, token expiry | login, refresh, logout, calls with refresh and retry | concurrent refreshes in one page and in several tabs, lost answers, restarts |
| Accounts, MFA, notes, secrets (`repository.py`, `seed.py`, other routers) | SQLite tables | register, login, enrol, CRUD, ping, seed | read-then-write races around Argon2, a seeding that dies half way, a restart with another key or cost |
| Telemetry (`app_telemetry.py`) | queue of an executor, one connection kept from row to row | record, connect, insert | the connection is found dead only when it is used; responses that bypass the middleware |
| Vulnerable twin, laboratories, dashboards, report generator | — | — | teaching material and documents; not modelled |

### How they interact

```
client ──> honeypot ──append──> <service>.jsonl ──tail──> shipper ──append──> all-events.jsonl
                                                           │
                                                           └──POST /events──> analyzer ──enrich──> table events ──> Grafana
                                                                                  │                    │
                                                                              AbuseIPDB     view attackers ──> exports (run by the shipper)
browser tabs ──api()──> secured application (rate limiter, JWT, revocation set, SQLite) ──executor──> app_requests
```

Honeypots and shipper share files only. The shipper and the analyzer share one HTTP
call, of which a client-side timeout does not stop the handler. Handlers of the
analyzer share the table, the AbuseIPDB cache and its throttle. The exports are written
by the shipper's process, from the analyzer's table, and by nobody else. Tabs of a
browser share `localStorage`; the handlers of the secured application share the
revocation set and the SQLite tables, each through a connection of its own, where every
statement commits by itself; their telemetry goes through one thread.

### What makes each part correct

- *Honeypots*: the log tells each session in order and to its end, invents no login,
  and holds what the client was answered.
- *Capture chain*: nothing is stored that was not emitted, a line is in the unified
  stream before it is in the table, offsets never get ahead of the work, every whole
  line is stored in the end, unless half a character blocks the shipper.
- *Labels*: a label that was answered stays, one undisturbed post that finds a class
  repairs a session, a brute force is not hidden by what follows it.
- *Enrichers*: one call of AbuseIPDB per second, and none for what is known.
- *Exports*: nobody is exported who was never critical; an export during which the table
  rests is complete; after any number of interruptions the three outputs catch up.
- *Rate limiter*: no more than `max_requests` in a window, and a truthful Retry-After.
- *Browser session*: refresh and retry never do work twice, rotation leaves one live
  refresh token, every call ends.
- *Accounts*: one account per name and address, and it stays as registered; MFA is on
  exactly when its user confirmed the secret.
- *Notes and secrets*: seen by their owner only, kept until deleted, deleted once, seeded
  once.
- *Telemetry*: rows in the order of the responses, and one row lost per outage beyond its
  duration.

## The modules and the code

`PROJECT.json` maps every definition to its lines. A name is kept where the source
has one.

| Module | Models | Correspondence |
|---|---|---|
| `EventPipeline` | what the chain promises | three sets: `emitted`, `unified`, `stored` |
| `Shipper` | `shipper.py`, `EventWriter`, the analyzer as seen from outside | a file is a sequence of half-line cells (`head`, `tail`); `pc` follows `run()`: `seed` and `stat`/`read`/`post` per service, then `save` (truncated) and `write`; `disk` is the offsets file: absent, empty, or whole |
| `Classifier` | `_features`, the matchers, `classify_session` | a session is a set of events; the mean interval is the duration over n − 1, as the sorted intervals add up to it |
| `Ingest` | `ingest`, `insert_event`, `session_events`, the UPDATE | one action per committed statement; an UPDATE fixes its rows when it starts (`target`) and writes them later; `label` is the column `classification` |
| `RateLimiter` | `SlidingWindowLimiter` | `Check` reads the clock, `Decide` is the body under the lock; ticks divide seconds because Retry-After is in whole seconds |
| `WebSession` | `common.js`, `login.js`, `dashboard.js`, `auth.py`, `security.py`, `dependencies.py` | a pair of tokens is a number; `pc[c]` is the place of a call in `api()`, `req[c]` its request on the server; `RefreshCheck` and `RefreshIssue` are the two halves of the route around the look-up of the user |
| `SecureServer` | the process of the secured application: SQLite tables, `repository.py`, settings, the life of a request | a row is named after the request that makes it; `pc[q]` is the next statement of its handler; `Answer` is a response inside the middleware, `Raise` an exception outside of it |
| `Accounts` | `register`, `login`, `mfa_setup`, `mfa_enable` | read and write are two actions; Argon2 lies in between; a hash is its password and its cost; a TOTP code is the secret it was computed from |
| `Vault` | notes, secrets, `crypto.py`, `/tools/ping` | a ciphertext is its text and its key |
| `Seed` | `lifespan`, `seed_if_empty` | one action per committed row |
| `Telemetry` | `request_telemetry`, `app_telemetry.py` | the queue of the executor, the connection and PostgreSQL |
| `SecureApp` | their composition | requests, statements, middleware, lifespan, worker, death of the process |
| `Enrichers` | `enrich`, `AbuseIPDBEnricher`, `GeoIPEnricher` | one action between two of: cache, lock, sleep, call, answer, store |
| `Exports` | the row of `insert_event`, the label, `backfill_geoip.py`, `attackers()`, `exports.py`, `_trigger_exports` | `batch` is what a function read and has not written; a truncated file is `Null` |
| `EventLog` | the contract and `EventWriter`, as the honeypots use them | `log` is the order of the appends; `given` remembers the answers clients received |
| `FakeShell` | `fakeshell.py` | paths are sequences of names; `_DIRS` and the keys of `_FAKE_FILES_CONTENT` are copied, the texts are not |
| `SshHoneypot`, `TelnetHoneypot`, `FtpHoneypot`, `HttpHoneypot` | the four `server.py` | one action per callback or per stretch between two `await`s |
| `Honeypots` | their composition | clients that leave (`Leave`) and container stops (`Stop`) |

`MC*` modules give the constants values that a `.cfg` cannot write. `*Proofs` modules
hold the theorems. Definitions commented as mutants are wrong on purpose: each is a
plausible bug which, put in place of the definition it names, breaks one property;
`PROJECT.json` pairs them.

Details worth knowing:

- `Shipper`: a POST that times out leaves its handler running (`inflight`); an
  analyzer stop drops it. `halved` are the events whose first
  `write(2)` ends inside a character. `HalfCharacter` is the `UnicodeDecodeError` of
  `for line in fh` on such a head without its tail (the honeypot is still writing, or is
  dead), or on a tail without its head (the offset was seeded between the two, or the file
  rotated); `IsLine` says that no reader gets past it. Blocks of 8 KiB are decoded at
  once, so how many lines in front of it are still shipped is left open.
- `Ingest`: `Fail` stops a handler between any two statements; what was committed stays.
- `SshHoneypot`: a client that leaves may cancel the handler or let it run to the end of
  its input, so `SshRun` and `SshEnd` are both possible then; each path ends in `finally`.
- `TelnetHoneypot`: at the end of the stream `readline()` gives an empty text, and a
  `drain()` may raise at any point, so login can go on or stop. The attempt and the
  success are written with no `await` between them, and are one step.
- `FtpHoneypot`: USER and PASS each log an attempt. There is no disconnect event.
- `SecureServer`: `Refuse` is a request that no handler sees; its 401 stands for the 401 of
  a token, the 422 of a payload and the 429 of the limiter, which `WebSession` and
  `RateLimiter` are about. `Fail` is any statement that raises: a database locked for
  5 s, a full disk.
- `Telemetry`: `ConnectRaces` is `CREATE TABLE IF NOT EXISTS` beside that of the twin
  application, `InsertRefused` an `X-Forwarded-For` that is no address; each costs its
  row and the connection.
- `Enrichers`: the cache is read before the lock is taken and not again under it, so two
  lookups of one new address both call; the cache file may fail at any access.
- `Exports`: `LabelSession` gives the class that `Classifier` computes as any class or
  none: the exports must be right whatever the labels. `MAX(classification)` is
  `LastClass`, the last profile in alphabetical order, and `LIMIT` cuts ties in any order.
- `HttpHoneypot`: each request has a session of its own. A method of no route (PATCH,
  OPTIONS) gets a 405 that no handler logs.

## What the runs check

Seven runs pass and five exhibit a disagreement.

| Run | Question | Instance |
|---|---|---|
| `shipper` | Do offsets stay behind the work, is a line unified at most once per start, does the shipper implement `EventPipeline`, does every event reach the table? | 2 services, 2 events (one torn, inside a character or not, and refused), 2 starts, 1 rotation, 1 analyzer stop, fairness |
| `shipper_restart` | Does a restart resume at the saved offsets? *(no)* | 2 services, 2 events, 2 starts |
| `ingest` | What do overlapping, repeated, failing posts leave in the table? | 3 requests in 3 threads, 5 events in 2 sessions, each posted at most twice |
| `ingest_stale` | Does every post re-classify the whole session? *(no)* | 4 requests one after the other, none failing |
| `ratelimit` | Spacing of allowed hits, Retry-After, the limit when stamps are in order | 2 threads, 1 key, 2 requests per window of 2 ticks, 5 ticks, 1 reset |
| `ratelimit_window` | At most `max_requests` per window? *(no)* | 2 threads, 4 ticks |
| `websession` | Single effect, rotation, transparency of lone calls, termination | 2 calls in 2 tabs, all kinds, 2 expiries, 1 restart, 1 loss, fairness |
| `websession_transparent` | Is the refresh transparent? *(not for concurrent calls)* | 2 calls, 1 expiry, nothing else going wrong |
| `secureapp` | What do overlapping, failing and interrupted requests leave in the database and in the telemetry? | 3 requests of one router at a time, 2 starts (of 2 environments for accounts and vault), a seed of 2 users, 1 note and 1 secret, 2 stops of PostgreSQL |
| `exports` | Are AbuseIPDB calls spaced and spared, and what do the three exports hold? | 3 events of at most 2 addresses, 3 deployments, `LIMIT` 2, 1 interruption, fairness |
| `honeypots` | Does the log tell every session in order, to its end, and truthfully? | 1 connection to any honeypot, 4 inputs, 2 SSH channels, 1 container stop, fairness |
| `honeypots_scan` | Is a known scanner that says nothing recognised? *(not on Telnet)* | the same, with 2 inputs |

### The properties

*Capture chain.* `OffsetsCoverOnlyHandled`: without rotation, everything before an
offset, in memory or on disk, was shipped or passed over, whenever the process dies.
`OneCopyPerStart`: only a restart ships a line again. `OnlyTornLinesAreDropped`: a line
that fits in one write is passed over only if glued to the torn line of a dead
honeypot. `ImplementsPipeline`: refinement of `EventPipeline`. `EveryEventIsStored`:
liveness, while the analyzer stays up, files are not rotated and no half character stays
ahead of the offsets. `NothingPassesHalfCharacter`: what happens where one does. The line
that holds it, everything behind it and the offset stay where they are, whatever dies and
restarts; only a first start that seeds its offsets behind it gets over it.

*Labels.* `AnsweredRowIsLabelled`, `UndisturbedPostRepairs` (of a handler that finds a
class: one that finds none writes none, which is what `ingest_stale` exhibits) and
`OneClassPerSession` (while handlers do not overlap). `BruteforcerIsKept`, that events which
arrive after a brute force take the session out of its class only by having more commands
than the profile allows, is proved and not run.

*Rate limiter.* `AllowedHitsAreSpaced`: a hit is allowed at least a window after the
stamp of the hit allowed `max_requests` earlier, which is what the code ensures
whatever the threads do. `WindowLimitInOrder`: the documented limit, on keys whose
stamps entered in order. `RetryAfterIsEnough`: the wait that was announced is enough.

*Browser session.* `EffectAtMostOnce`: the retry of `api()` does no work twice.
`ReplacedTokenIsGone`: once a replacement has reached the browser the old refresh token
is never stored again. `ExchangedOnce`: in one life of the server a refresh token is
exchanged once, unless two handlers checked it before either revoked it.
`TransparentWhenAlone`: calls made one after the other never notice an expiry.
`EveryCallEnds`: no endless chain of refreshes.

*Accounts.* `AccountsAreKept`: names and addresses are unique although the check and the
insertion of a registration are separate, and an account answered 201 is there ever
after as registered, whatever rehashes and restarts follow. `EnabledWithConfirmedSecret`:
an account asks for codes exactly when `/mfa/enable` answered 200, and only for codes of
a secret confirmed there, unless `/mfa/setup` replaced it afterwards or between the check
of a code and the flag (the users in `late`).

*Notes and secrets.* `OwnersOnly`: a response holds rows of its requester only, each as
it was stored, and never a secret in a list. `KeptUntilDeleted`: what was answered 201
stays until its owner deletes it, a 404 is true even when the key has changed, and one of
several deletions is told that it deleted. `SeededOnce`: seeds that die and start again
store nothing twice and nothing without its owner.

*Telemetry.* `TelemetryIsFaithful`: rows are in the order of the responses, and an outage
costs one row beyond its duration.

*Enrichers.* `CallsAreSpaced`: also after calls that fail or time out under the lock.
`CacheSparesCalls`: a lookup that begins while the stored answer is fresh does not call.

*Exports.* An address is `Loud` when no limit can hide it and it has a high score, or
sessions of bruteforcers or bots and none of another profile, under one of its countries.
`OnlySuspects`: an exported address was critical in some state of the table, whatever
happens between the three reads. `QuietExportIsComplete`: an export during which no row
changes has every loud address in its three outputs, whatever earlier ones left.
`ExportsCatchUp`: once the table has settled the exports have them for good, across
deaths, exceptions and truncated files.

*Honeypots.* `SessionsAreTold`: a session opens with its connect, commands and
disconnects belong to shells that are open, also with concurrent shells, nothing
follows the disconnect of a Telnet session, an HTTP session is one request.
`SuccessesWereTried`: the credentials of every success were tried earlier in its
session. `AnsweredIsLogged`: the event is in the log before the client has the answer.
`ShellsAreCoherent`: the current directory exists, what it lists exists, and the path
the shell prints leads there. `GoodbyesAreLogged`: once the client is gone every open
shell logs its disconnect, unless the container stopped.

### The bounds, and why they are enough

- Two services, two events and two starts reach the states that matter to the
  shipper: a crash in the pass over one service after the other was shipped, a save
  half done, and a restart from the result. A torn line needs one `Large` event
  and a neighbour; whether it is torn inside a character is decided when its head is
  written. A shipper that half a character kills is started again at most once: after
  `MaxBoots` starts it stands in front of the bytes, where each further start would bring
  it back, and goes on if the other half comes. The history `seeded` exempts what the first start passed over.
- Three requests in three threads on two sessions give every order of two handlers of
  a session with a third that disturbs either; two posts of one event are the
  shipper's retry. The five events make the four profiles, and no
  profile, reachable with smaller thresholds; the relations between thresholds that
  the shipped `profiles.json` satisfies are kept as `CriteriaAssumption`.
- Two threads suffice to invert two stamps. Two requests per window and two or more
  windows of clock let an entry leave the deque while another waits.
- Two calls in two tabs over-approximate two calls in one tab: the tabs share
  `localStorage` in both, and a `Leave` of the tab of a call stands for a navigation.
- The routers of the secured application share no row but those of users, which notes and
  secrets only refer to, so `MCWorkloads` gives each behaviour the operations of one:
  two registrations of one address with logins, an enrolment with logins, notes, secrets,
  pings, and a metered workload for the telemetry. Three requests are two that race and
  one that observes or disturbs them; they are interchangeable, hence the symmetry. The
  second environment has another key and another hash cost, so that a restart makes
  secrets unreadable and hashes old.
- Three events are enough for two threads that wait for the lock behind a third, for two
  groups of one address (before and after the backfill), and for more groups than
  `LIMIT` lets through. The deployments are the ones that differ in behaviour: a key
  and no exports; events with their own enrichment, beside the exporter; a GeoLite2 base
  that comes later. `CACHE_TTL` 2 and `MaxTime` 4 let an answer expire. `Fragile` limits
  the failing cache to one request, `MaxStops` the interruptions to one.
- The connections of a honeypot share its append-only file and nothing else, so one
  connection shows every interleaving that matters: two shells of it, its client and
  the container. Four inputs are two full FTP logins, or a login and three lines
  divided between two shells.

Deadlock checking is off in every run: counters are bounded, so behaviours stop.

## Disagreements between the code and its documentation

Each is a run whose property states the sentence quoted, with a counterexample.

1. `shipper_restart`. `_save_offsets` truncates the file before it writes it. A crash in
   between leaves an empty file, and the next start ships all history again
   (`analyzer/shipper.py:46`), against the docstring at line 34.
2. `ingest_stale`. When a session stops fitting a profile the UPDATE is skipped, and rows
   keep the old class (`analyzer/api.py:50`), against the comment at line 47.
3. `ratelimit_window`. The clock is read before the lock (`secure_app/ratelimit.py:30`);
   an overtaken thread puts an old stamp behind a newer one and the window overflows,
   against the docstring at line 20.
4. `websession_transparent`. Two calls that meet the same expired access token post the
   same refresh token; the loser drops the tokens the winner stored
   (`secure_app/static/common.js:78`), against the header at line 4.
5. `honeypots_scan`. A Telnet client that closes without a word is logged with an
   attempt and a success (`honeypots/telnet/server.py:48`), so a known scanner is
   classed `bot`, against the signature given at `README.md:256`.

Other facts are visible in the models without a run of their own:

- an HTTP client never adds up to a brute force, since every request has its own session
  id, and `ls /` of the fake shell lists nine directories that are not in its tree
  (`ShellsAreCoherent` leaves the root out for this reason);
- the second of two registrations that both pass the check violates a UNIQUE column and
  is answered 500 instead of 409 (`RegisterInsert`); that response, like every `Raise`,
  has no telemetry row (`SendError`);
- `/mfa/setup` on an account whose MFA is on replaces the active secret at once, while its
  docstring says "MFA pas encore actif" (`secure_app/routers/auth.py:134`); this is why
  `EnabledWithConfirmedSecret` excepts `late`;
- a seed that dies half way is never completed, because one user is enough for the next
  start to skip it (`Start`);
- one later `humain` session of an address hides its `bruteforcer` sessions from the
  exports, because of `MAX(classification)` (`LastClass`); a high score does not suffer
  from this;
- the rule of an address that is no longer critical stays in `rules/` (`WriteRule`);
- a honeypot that dies after half a multi-byte character of a long line
  (`ensure_ascii=False`, `honeypots/common/events.py:116`) blocks the shipper for good, as
  does a first start that seeds its offset there (`st_size`, `analyzer/shipper.py:76`):
  each start dies of the same `UnicodeDecodeError` (`analyzer/shipper.py:97`) before it
  saves its offsets. The lines behind, the services that follow in the loop and the
  exports, which the same loop triggers after its save, wait until somebody removes the
  bytes; new lines of the services before it are shipped again at each start
  (`NothingPassesHalfCharacter`; the premises of `EveryEventIsStored` and
  `ExportsCatchUp`);
- the classifier's docstring says "un scanner connu prime sur un bruteforce"
  (`analyzer/classifier.py:4`). It does not: `_match_scanner` asks for few attempts and a
  connect/close, `_match_bruteforcer` for many attempts, and with the thresholds of
  `profiles.json` (`CriteriaAssumption`) no session fits both, so that the priority order
  never decides between them. A known scanner that brute-forces is a `bruteforcer`, and
  `BruteforcerKept` proves that it stays one;
- `known_scanner`, which the profile `scanner_legitime` requires, is in the datasets that
  are replayed and evaluated only: no live enricher sets it (`honeypots_scan` takes it as
  given, to look at the signature alone).

## Fairness

- `Shipper!Fairness`: weak fairness of the loop, of its restart (`restart: unless-stopped`
  in `infra/docker-compose.yml`), of the start of the analyzer (on which the shipper
  `depends_on`), and of the handlers that run. Nothing makes a honeypot write or a
  rotation happen.
- `WebSession!Fairness`: the server answers what reaches it and the browser runs what
  was answered. No user is obliged to click, and no token to expire.
- `Honeypots!Fairness`: for a connection whose client is gone, the event loop resumes
  what it waits for. No fairness on clients: one that stays keeps its shell open for
  ever, since the code has no idle timeout.

- `Exports!Fairness`: the shipper's loop goes on and its container, which dies finitely
  often (`MaxStops`), is restarted. A shipper blocked by half a character (see above) is
  outside of it: its loop dies before the exports. No fairness on ingests, on the
  backfill, or on the clock.
- `SecureApp` has safety properties only: no client is obliged to call, and nothing
  answers in place of a process that stays down.

## What is proved

All theorems are for arbitrary constants under the named assumptions
(`ShipperAssumption`, `EventsAssumption`, `CriteriaAssumption`, `RequestsAssumption`,
`LimiterAssumption`, `SessionAssumption`, `EventLogAssumption`, `ServerAssumption`,
`EnrichersAssumption`, `ExportsAssumption`, `HoneypotsAssumption`), which the passing
runs evaluate. `TreeIsCoherent` is of another kind: no constant enters it, so that TLC
decides it once and for all when it evaluates it. Every invariant and every step
property (refinement included) of the passing runs is a theorem; `BruteforcerIsKept` is
one without a run.

| Module | Theorem | Argument |
|---|---|---|
| `ShipperProofs` | `TypeCorrect` | `TypeOK` is inductive |
| | `OffsetsSafe` | `OffsetsCoverOnlyHandled` alone is not inductive: a pass holds its position in `pos` before it reaches `offsets`. The strengthening also covers `log[cur]` up to `pos`, and the line being posted; logs only grow while nothing is rotated, and `Done` only grows |
| | `Refinement` | initial states map to initial states, and each action to `Emit`, `Unify`, `Store` or a stutter; needs that a line in a file was emitted and that a posted or in-flight event is unified (`PipeInv`) |
| | `OneCopy` | `OneCopyPerStart` says nothing of lines still to be read. `CopyInv` adds that an event whose line may be read again, at or after the position of the reader in its file (`Frontier`), was copied less often than the shipper was started; an event begins one line in one file only (`OneHead`), and rotations bring no line back |
| | `TornOnly` | the position of the reader, the offsets and the offsets on disk are ends of lines or follow the head of a torn, hence `Large`, event (`EndsInv`), so a small line read with something before it is glued to such a head (`GluedLine`); without rotation nothing before a position changes |
| | `NothingPasses` | the offsets alone are not inductive: the reader is in front of the half too (`BlockInv`), no line it can decode goes over it (`IsLine`), and where a line is cut is decided when its head is written (`HalvedOnce`); a line behind it has no copy, since an event begins one line only (`OneHead`) |
| `IngestProofs` | `IngestTypeCorrect` | `TypeOK`, with `Classify` in `Profile ∪ {indetermine}` |
| | `AnsweredLabelled` | a handler that has an answer finds its own row in `target` (`LabelInv`), and no step resets a label |
| | `UndisturbedRepairs` | while `alone[q]`, `target[q]` is the session and `answer[q]` its class (`AloneInv`) |
| | `OneClass` | while handlers have not overlapped only one runs, and its session has one class (`SoloInv`) |
| | `BruteforcerKept` | attempts and passwords of a growing session grow; `CriteriaAssumption` keeps scanners below the brute-force threshold |
| `RateLimiterProofs` | `LimiterTypeCorrect` | the bucket has fewer than `max_requests` stamps when one is added |
| | `SpacedHits` | the bucket is a suffix of the allowed hits, and each hit before the suffix is a window old (`SpacingInv`) |
| | `RetryAfterHonest` | a refused bucket is full, so its oldest stamp leaves after the announced seconds, rounded up (`FullBucket`, `NextMultiple`, `DelayIsEnough`); what other threads do until the next allowed hit on the key only purges it (`Told`) |
| | `LimitInOrder` | `WindowLimitInOrder` is not inductive: it must be known which hits left the bucket. `OrderInv`: while the stamps are in order, hits at a distance of `max_requests` are a window apart, and those that left the bucket are a window older than the last one, unless the bucket is full. The count of a window then follows from the size of an interval (`AtMostInWindow`) |
| `WebSessionProofs` | `SessionTypeCorrect` | every token belongs to an issued pair |
| | `ServedOnce` | a call whose work was done is neither refused nor sent again (`ServedInv`) |
| | `ReplacedGone` | a pair that was not delivered is carried by one answer only, and what is stored, exchanged or being exchanged was delivered (`DeliveryInv`) |
| | `RotatedOnce` | an exchanged refresh token is revoked, and two checks of one token are a race (`RotationInv`) |
| | `TransparentAlone` | `AloneInv`: in a browser that makes one call at a time and is not disturbed, the stored refresh token is valid except between its exchange and the answer, and the request of the only call is about a pair the server still takes, so a second 401 cannot come. `AloneBefore` shows that a restart, a loss, a navigation that cuts a call or an expired refresh token is never forgotten |
| | `AdvancingCalls` | `Rank` counts the places of `api()` that are left and the state of the request; each action on a call under way lowers it, those of other calls leave it or end the call. So a call refreshes and retries once at most (`CallsAdvance`), however often it is refused: of `EveryCallEnds`, the part that needs no fairness |
| `HoneypotProofs` | `SuccessesTried` | `SuccessesWereTried` is not inductive: a shell opens long after its password. `TriedInv` adds that the user SSH accepted has an attempt in the log, and that Telnet and FTP write both events in one step from the same variables |
| `SessionProofs` | `HoneypotsTypes` | `ServicesOK` for what `TriedInv` leaves out: stages of the shells, current directories within the tree, requests |
| | `SessionsTold` | the log keeps the books of every connection (`Books`): a connection no service accepted has no event, another has one connect and, HTTP apart, one session; openings and disconnects of SSH are as many as the shells that were opened and closed (`SshBook`), an open Telnet session has no disconnect (`TelnetBook`), an FTP one never has, an HTTP event is of a request already received (`HttpBook`). A new event is in order because the books say so (`ToldLast`), and the events before it keep what they said (`ToldPrefix`) |
| | `AnswersLogged` | a command that runs and a request that waits for its answer are in the log already, in addition to all that was answered (`SshBook`, `TelnetBook`, `HttpBook`, `Answers`) |
| | `ShellsCoherent` | no line leads out of the directories of the tree (`CwdType`), each of which is coherent (`TreeIsCoherent`) |
| `ExportsProofs` | `ExportsTypeCorrect` | `TypeOK`, with the fact that handlers are of events the deployment posts and store numbers (`Handled`) |
| | `SpacedCalls` | no call is later than `lastCall`, and the holder of the lock wakes a second after it (`SpacingInv`) |
| | `SparedCalls` | the cache holds what was learnt last, so a lookup in `knew` finds it and never waits for the lock (`CacheInv`) |
| | `SuspectsOnly` | what is critical now is a suspect, and a batch is a subset of what was critical when it was read (`SuspectsInv`) |
| | `QuietComplete` | while no row changes, each read has every loud address (`LastClassOfLoud`, `LimitSpares`, `LoudIsRead`), and each function leaves what it read in its file (`QuietInv`) |
| `SecureAppProofs` | `SecureTypeCorrect` | a handler runs in a process that serves, has the place of its operation, and acts for a user that exists (`Placed`) |
| | `AccountsKept` | the id of an account is its registration, and a login that will rewrite a hash gave its password (`AccountsInv`); an account gets in only past `Taken` in its own statement |
| | `ConfirmedSecrets` | a handler about to set the flag holds a code of the secret of its user, which is that of the row unless the user is `late` (`MfaInv`) |
| | `OwnersSee` | each row is what its request asked to store (`RowInv`), and each response a subset of the rows of its requester (`ShownInv`) |
| | `KeptRows` | a row goes only by a deletion that was told 200 (`KeptInv`) |
| | `SeedOnce` | a seed that runs found no user, hence no row, so all its rows are of this start (`SeedInv`) |
| | `TelemetryFaithful` | the table, then the queue, are in the order of submission (`OrderInv`), and a broken connection is an outage whose row is still to be given up (`LossInv`, by the cardinality of `gaveUp`) |

## What is only model-checked, and what is left out

Model-checked only: `EveryEventIsStored`, `EveryCallEnds`, `GoodbyesAreLogged` and
`ExportsCatchUp`, liveness properties under fairness, which are out of the prover's
reach, as are `ENABLED` and induction over data. For the last reason what `_resolve`
computes, a fold over the parts of a path, is evaluated by TLC and never unfolded in a
proof; nor can the provers look into the tree itself, built with `:>` and `@@`. Both
only enter `TreeIsCoherent`, which has finitely many directories to look at. The
properties of the runs that exhibit a disagreement are false of the code; for three of
them the theorem is the statement that does hold: `OneClass` and `UndisturbedRepairs`,
`LimitInOrder`, `TransparentAlone`.

Not modelled, and why:

- data that no property tells apart: event fields, truncation, JSON, JWT and TOTP
  encoding, validators, the text of Sigma rules and STIX objects, security headers;
- the SSH, FTP and HTTP protocols, SQLite and PostgreSQL themselves: libraries and
  services, used through their callbacks and statements;
- `analyzer/evaluate.py` and `attacks/replay_dataset.py`: batch scripts that read a
  dataset, post it and print scores;
- the vulnerable twin (a teaching target with no property to keep), the laboratories,
  Grafana, the report generator;
- the memory of the limiter, whose `_hits` keeps an empty deque per address for ever;
- a RETR that the client cuts short, which is not logged (`AnsweredIsLogged` leaves it
  out), and a `logout` that overtakes a refresh of another tab;
- a Telnet line longer than the 64 KiB limit of `readline()`, which raises and ends the
  session while its client is still there: it goes through the same `finally` and its
  disconnect is logged;
- revocation across restarts, lost by design (`security.py:113`): `ExchangedOnce` is
  stated for one life of the server.

## Plan

Done, in this order: capture chain, ingestion and classifier, rate limiter, browser
session, honeypots, secured application, enrichers and exports. Next:

1. Composition — `Honeypots` as the source of `Shipper`'s events, by refinement: the log
   of the honeypots in the order of the appends implements `Emit`.
2. Lemmas towards the other liveness properties, as `CallsAdvance` is for
   `EveryCallEnds`: what each step of the shipper's loop and of the exports brings
   closer to its end.

## Running it

```
tlc -workers 2 -config honeypots.cfg MCHoneypots.tla      # any run of PROJECT.json
tlapm HoneypotProofs.tla                                  # any *Proofs module
```

The longest runs (`websession`, `honeypots`, `secureapp`) take one to three minutes on two
workers, the longest proofs (`ShipperProofs`, `SecureAppProofs`) a few minutes.
