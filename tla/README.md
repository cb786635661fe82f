# Verification of mono-old

TLA+ models, TLC runs and TLAPS proofs for the programs of this repository:
tiauth (the set of used numbers, the life of passwords, tokens, proofs, keys and
sessions, claims and administration queries, the append-only map, the threads of
the server process), the borink programs (logins of borink-auth, the git-derive
server with its store and cache), lazy-borink, and the OAuth server tiauth2.

## 1. The system

The repository holds several Rust projects.

| part | where | state it keeps | operations | hard about it |
|---|---|---|---|---|
| counter and compact set | `tiauth-core/src/counter.rs` | next number (atomic), list of ranges (mutex) | `increment`, `num_exists` | growth, merging, expiry marks by binary search, order of arrival |
| operations | `tiauth-core/src/ops/*.rs` | none of their own | register, login, change and reset, set claims, proof token | several reads of clock and database per handler, run concurrently |
| tokens, sessions, proofs | `tiauth-core/src/proof.rs` | none; everything is in the encrypted or signed token | create, decrypt, verify | key intervals, expiry with leeway, state bound to a token |
| application state | `tiauth-core/src/state.rs` | clock, counter, set, keys | `time`, `drive_time`, `counter_next`, `counter_used`, rotation of keys | what a restart keeps |
| store | `tiauth-core/src/store.rs` | redb tables: keys, users, claims, sessions | read and write transactions | one writer; `get_or_create` never inserts |
| claims, administration | `tiauth-core/src/data.rs`, `ops/admin.rs` | none | subsets and edits of sorted claims, merge of users and claims | algorithms on sorted data that may not be sorted |
| append-only map | `tiauth-core/src/appendonly.rs` | shared slots, used count | `insert`, `push`, `get`, iteration | one writer, many readers, no lock, capacity |
| server process | `tiauth/src/main.rs`, `tiauth-server/src/state.rs` | map of applications, watch and broadcast channels, list of files to delete | `/load`, `/delete`, `/restart`, control-C | three threads that shut down together |
| client library | `tiauth-app/src/lib.rs` | pool of proof tokens | `load_tokens`, `prepare_set_claims`, login | the pool is shared by threads |
| borink-auth | `borink-core/borink-auth` | per-user counter and bit set | login start and finish, reset | atomics without a lock |
| borink-git, git-derive | `borink-core/borink-git*` | directories of repositories and checkouts, response cache, ref store | `get_git_path`, `derive_with`, request loop | existence of a directory means it is complete; crashes |
| borink-kv | `borink-core/borink-kv` | one SQLite table | `insert`, `update_if_meta`, `metas` | compare-and-set between connections, prefix ranges |
| lazy-borink | `lazy-borink` | bytes or value of a field | `inner`, `bytes`, `take` | two representations of one thing |
| tiauth2 | `tiauth2/src` | Redis: flows, half-done logins, codes; Postgres: keys, users, refresh tokens | register, login, authorize, token | handlers of several statements each, run concurrently; refresh tokens used twice |
| hellodeploy, bindings, crypto wrappers | | | | not modelled, see section 8 |

How the tiauth parts interact: a request handler (a tokio task) holds the
application state by shared reference. It reads the clock (an atomic that a
driver sets), reads or writes the database in transactions of its own, takes
numbers from the counter, hands out a token that carries the number, an expiry
and the hash of the password file it was issued for, and later, when the token
comes back, asks the set of used numbers whether it was seen. Nothing but the
set (a mutex) and the write transaction (redb allows one) orders handlers.

What makes the parts correct: a token has at most one effect; a password
changes only from the one the token was issued for; a session stands for a
proved password and dies with a change; the set reports a number as seen only
if it was used or has reached its expiry, and keeps a shape its binary searches
can rely on.

## 2. Modules

| module | models | EXTENDS |
|---|---|---|
| `RangeSet` | `Range`, `add_num_ranges`, `add_num`, `expired_search`, `check_expired`, `num_exists` as constant operators: a list goes in, a list and an answer come out | community modules |
| `RangeSetProofs` | lemmas and theorems about those operators | `RangeSet`, `TLAPS` |
| `CompactSet` | the counter, the set and the clock under concurrent requests that issue and present numbers | `RangeSet` |
| `CompactSetProofs` | theorems about `CompactSet` | `CompactSet`, `RangeSetProofs` |
| `Proofs` | proofs: actions, targets, content by position, signature, validation | |
| `Credentials` | tokens and sessions: content by position, sealing, what each check compares | `Proofs` |
| `OneTime` | abstract specification: a token is handed out, then has an effect at most once | |
| `Tiauth` | one application: database, memory, clock, request handlers, restarts | `RangeSet`, `Credentials`; `OneTime` by INSTANCE |
| `TiauthProofs` | theorems about `Tiauth`, with the refinement of `OneTime` for tokens with a low number or none | `Tiauth`, `RangeSetProofs` |
| `Keys` | session keys, ephemeral keys, reference time and clock of an application, and the token pool of its client | `Credentials` |
| `Claims` | sorted claims: edits and subset searches as constant operators | community modules |
| `Directory` | the tables of users and claims, and every query on them | `Claims`, `Proofs` |
| `OnceMap` | abstract specification: a map whose keys are set once and whose operations take effect at one moment | |
| `AppendOnlyMap` | `AppendOnlyArcMap`, its views and its vector: one writer and several readers, one probe per step | `OnceMap` by INSTANCE |
| `AppendOnlyMapProofs` | theorems about `AppendOnlyMap`, with the refinement of `OnceMap` | `AppendOnlyMap`, `TLAPS` |
| `Server` | the process: main thread with the server loop, governor, control-C handler, their channels, applications and files | |
| `ProcessProofs` | theorems about keys, about which files go and in what order, and about what queries, edits and subset searches answer | `Keys`, `Server`, `Directory`, `TLAPS` |
| `UserLogins` | borink-auth: the logins of one user on both lock-free bit sets, with their reset | |
| `UserLoginsProofs` | theorems about `UserLogins` | `UserLogins`, `TLAPS` |
| `KeyValue` | borink-kv: the table, its metadata and prefix ranges as constant operators | community modules |
| `GitRefs` | `ls_remote` and the requests of the sync client as constant operators | community modules |
| `GitDerive` | the git-derive server: store of repositories and checkouts, ref store, response cache, sync client, ends of the process | `GitRefs`, `KeyValue` |
| `OAuth` | tiauth2: flows, logins, codes, keys, tokens and families of refresh tokens | |
| `OAuthProofs` | theorems about `OAuth` | `OAuth`, `TLAPS` |
| `Lazy` | lazy-borink: values of `Lazy` in programs that use them and send them on | |
| `BorinkProofs` | theorems about `GitDerive`, and what holds of `Lazy` where all bytes decode | `GitDerive`, `TLAPS`; `Lazy` by INSTANCE |
| `MC...` | symmetry, quotas and inputs for TLC | the module they are named after |

### RangeSet and the code

A `Range<N>` with its array of one-byte offsets becomes a record with the *set*
`members` of its numbers; `members = None` becomes `full`. `Insert` fills the
range at the N-th number, as the loop of `Range::add_num` does when it reaches
the last slot. `Target` is the answer of the binary search by `min`. `Grow` is
the `while num > max` loop in closed form: each new range starts at the `max`
of the previous one (not one after it), so it adds N - 1 numbers; the number
itself is not added, as in the code. `Join` covers the three merge cases (left
neighbour full, right neighbour full, both). `MarkExpiry` and `LastExpired`
stand for `expired_search`, a binary search on the expiries: on a sorted list
the search finds the first range not known to expire by the time given, which
is what the operators say directly. That the list *is* sorted whenever the
search runs is `ExpirySorted`, model-checked and proved. `CheckEvery` is the 4
of `num % 4`. Overflow of u64 is not modelled: numbers are handed out from 1.

### Tiauth and the code

A handler is an operator per stage; between two stages other handlers, the
clock and restarts may come. Stages are cut where the code reads the clock,
the database or the set again:

| handler | stages |
|---|---|
| `start_register` | `StartRegister` |
| `register_finish` | `RegisterOpen` (clock, keys), then the write transaction with its own clock read: `RegisterCommit`, or `RegisterKeep` when `user_change_ephemeral` returns the old file, an error or panics |
| `change_password` | `ChangeOpen` (session, file, key), `ChangeIssue` (second clock read) |
| `login_start` | `LoginRead`, `LoginIssue` |
| `login_finish`, `login_session` | `LoginOpen` (first clock read, file), `LoginVerify` (second clock read, number used up, files compared), `LoginSession` or `LoginRefuse` |
| `proof_token` | `ProofToken` |
| `verify_proof` and its callers | `ProofOpen`, `ProofVerify`, then `SetClaims`, or `ResetRead` and `ResetIssue` |
| `drive_time`, process restart | `Tick`, `Restart` |

Merged on purpose, because nothing another handler does is seen in between:
the clock read, counter and token creation of `login_start`; the claims read
and session creation of `login_session`; the key lookup and clock read at the
start of a handler with its first database read. That `login_finish` finds out
about a wrong token type after its second clock read is moved to `LoginOpen`
(a token of another type has no effect either way).

Panics and `todo!()` end a handler: a login of an unknown user (login.rs:39,
99) does not step, a wrong password (login.rs:144) is `LoginRefuse`, an expired
new-user token inside the transaction (register.rs:82) is `RegisterKeep`. A
password upload is fresh (OPAQUE clients draw it at random). The proof's own
expiry is chosen by the application and only refuses more; it is in `Keys`.

`Restart` keeps the database only. In the code `keys::get_or_create`
(store.rs:496) returns what it creates without inserting it, so the ephemeral
secret, its reference time, the session keys and the OPAQUE setup are drawn
anew by every load, while counter and set start fresh (state.rs:192). The model
numbers the keys by `epoch`. It still lets a user log in with a file from
before the restart, which the new OPAQUE setup would refuse: the model allows
more than the code.

`change_password` and `reset_password` are library functions that the server
does not route at this commit; they are modelled as operations of the library.
The same holds for the clock: nothing in the server calls `drive_time`, so in
the server as it stands the clock of an application does not move. The models
let it move, as the trait intends, and contain the behaviours where it stays.

### Credentials, Proofs and the code

A content is written to an array by position and read from it by position, as
`serialize` and `deserialize` do, so that a swapped field would be seen by every
property of tokens, sessions and proofs. Sealing keeps the key and the bytes
together: what is sealed can be opened with its key only and cannot be altered.
A signature keeps the signer and what was signed. The data of a login token is
one with its state: the half-done OPAQUE login ran against the file that the
state names. A password file is a number and stands for its hash.

### Keys and the code

`Passed` is the subtraction of `EphemeralKey::compute` in `Width` bits, so a
reference time ahead of the clock wraps as a release build does. `DriveTime`
sets the time of the application to any time read before: in the code nothing
calls `drive_time`, and a driver may come late. `RotateSessionKeys`,
`InvalidateSessionKey` and `UpdateEphemeralTime` have no caller either; the
model lets somebody call them at any time. The client of tiauth-app signs with
its own clock (`clock`), which the application sees late. `LoadState` draws all
keys anew (see `Restart` above). Whether the number of a token was used is
`Tiauth`'s business and left out here.

### Claims, Directory and the code

Keys of claims and ids of users are numbers, for their order. Keys may repeat:
the check of the order accepts equal neighbours (data.rs:733). A binary search is
described by what it finds in an ascending sequence, which of equal keys is any
one of them, the same for the same claims (`Match`: TLC takes the first, the
theorems hold for each); the loops around it, with what they do on a key that is
missing, are translated turn by turn
(`AddOne`, `RemoveOne`, `LinearOne`, `SelectOne`, the merge join). The stack of
`subset_binary_split` is a recursive function of its tasks (`Tasks`: a slice of
the requested keys and one of the claims; `SplitOne` is a turn of the loop) that
keeps the order in which the stack is emptied. A reader works in one transaction;
so the state is the two tables, and the queries are operators evaluated in every
state. Claims are stored for users who do not exist, as `user_set_claims` allows.

### AppendOnlyMap and the code

A `OnceLock` is written once and read in one step, so a probe is a step and
everything else of a search is local. `search[c]` holds what the loop of
`search` (appendonly.rs:307) holds: the key, how many probes were done, and the
value when the search belongs to an insertion. The increments 1, 2, 3, ... of
the index add up to triangular numbers, which `Slot` writes in closed form.
`RandomState` is drawn when the map is made: `hash` is any function. `Set` keeps
the check of `used` that the code has, although nothing counts. A panic ends
the writer for good (the governor thread) and only the request of a reader.
`AppendOnlyArcVec` in push mode and its iterator appear in `Server` as the list
of files to delete.

### Server and the code

| thread | code | actions |
|---|---|---|
| main | `server`, `new_state`, `main` | `Subscribe`, `BorrowState`, `NewState`, `Drained`, `Break`, then `Stop`, `JoinGovernor`, `SendLast`, `ReturnMain` |
| governor | `governor_loop` | `Restart`, `Load`, `Delete`, `GovernorStops`, `GovernorFails` |
| control-C | the closure given to `ctrlc::set_handler` | `SendExit`, `ReceiveFirst`, `ReceiveSecond`, `RemoveFile`, `Finish` |

The watch channel is its version and the version the current receiver has
marked. The exit channel is one flag, `exitHeld`: whether the receiver of the
present turn holds a message; a message sent while there is none is lost. Of
the channel that stops the other threads only the number of messages matters,
because the handler reads both and the governor only asks whether there is one.
The map of applications is the atomic map of `OnceMap`: its insertions and
lookups by the governor are one step. A request that the governor refuses
(method, key, name) changes nothing and is left out. The process ends when main
returns or panics, whatever the other threads do.

### UserLogins and the code

Each access to the lock-free sets is a step: the push of `create_up_to` in two
(an index is taken, then the atom is there for others), the `fetch_or` of
`exists`, and the reset in one step for the counter and one per atom. `AtomOf`
of the small set keeps the index the code uses. Numbers that do not fit panic
the thread (`Panicked`). `period` tells tokens of one number apart and counts
the resets that were over when the token was handed out.

### GitDerive and the code

The server answers one request at a time, so a handler is cut only where the
process may end in between with something left behind: at each call of git or
of the file system that changes the store, at the plugin, and at the insert into
the cache. `job.at` is the state of `single_loop` (git.rs:499). A repository is
absent, broken (the directory `git clone` made and did not fill), sparse (cloned,
the sparse checkout not set) or ready; a directory is absent, partial or
complete. `End` ends the process at any step and starts it again; `cut` records
what was left unfinished. Ref store and cache are one table of `KeyValue` and
survive. `Derive` puts the state of the directory into the response, so that a
response made of a partial directory can be told. `vouched` is history: the
commits that came with the trusted key, or any where none is configured.

### OAuth and the code

A handler is cut where another statement of the database may come between; reads
of Redis that nobody repeats are merged with what follows. Keys are read, and
the clock with them, in the step before the one that uses them, and a handler
that finds none goes on to `CreateKey`. `DeleteFamily` is cut between the rows a
statement sees and the rows it deletes (Postgres, read committed). `StoreJson`
keeps the order of EXPIRE and JSON.SET, by which only a key that was there gets
a time to live. A password file is the person whose password it is of.

### Lazy and the code

An `Option` is a set of at most one element. `Garbage` are bytes no value of the
inner type decodes from. `sent` are structs on their way as JSON (base64 of the
bytes) or as MessagePack. A call that panics or fails is recorded in `result`.

## 3. Properties

| property | says |
|---|---|
| `RangesChained` | the list starts at 1, each range starts where the one before ends, non-full ranges cover N numbers and have room |
| `ExpirySorted` | known expiries come first and do not decrease |
| `SoundWhenMonotone` | if later numbers never expire earlier, a number reported as seen was accepted before or has reached its own expiry (not: its expiry and the leeway) |
| `NothingRecordedAhead` | no number still to be handed out is covered |
| `RecordStays` | a recorded number stays recorded, except the top of the last range when the next range takes it over |
| `AcceptedAtMostThrice` | how far reuse through growth can go |
| `FullRangesJoin` | behind the first range no two full ranges are neighbours |
| `TokensWorkOnce` | on the tokens without a number or with one below N, `Tiauth` implements `OneTime`: each has an effect at most once, across repeats, races and restarts, also while other numbers make the list of used numbers grow |
| `ProofsWorkAtMostThrice` | a proof of any number has at most three effects (proved, in `TiauthProofs`; no run spends a property on it) |
| `ReplacesWhatItSaw` | a password changes only by using up a token issued for the password it replaces |
| `SessionProvesPassword` | a session is bound to the password its login proved |
| `HonouredSinceChange` | an honoured session is no older than the stored password, and its login proved that password: neither a session from before the last change is honoured, nor one that a login under way creates after it |
| `OnlyOwnTokens` | only tokens of the present process have effects |
| `NewestKeysVerify` | the keys that verify sessions are the newest that were not invalidated, in order |
| `FreshProofsVerify` | a proof is good for one interval after its token was handed out, whatever interval borders it meets |
| `LateProofsFail` | no proof is good more than two intervals and the leeway after, though ephemeral keys come back |
| `SubsetsAgree` | what a session gets was stored and requested, nothing twice; requested in order and each once, it gets all of it if all is stored, and nothing stored is reported missing. Keys may repeat; of requests in another order, or for a key twice, the last part is not claimed |
| `EditsAgree` | edits of sorted claims put in what they are given and leave the rest alone, and keep the order; where no key repeats they are exactly edits of a map |
| `ListsMatchTables` | a list shows each user once, in order, with that user's claims, and panics only on claims without a user |
| `SelectionsArePrefixes` | a selection answers up to the first user (and the first claims) missing, never with somebody else's |
| `EntriesReachable`, `ProbesBehind` | what makes a search without a lock right: no entry lies behind an empty slot of its probes, and what a search left behind stays taken by other keys |
| `KeysUnique` | no key is stored twice |
| `GivesUpOnlyWhenFull` | triangular probes over a power of two visit every slot |
| `IsOnceMap` | `AppendOnlyMap` implements `OnceMap`: answers are exact at one moment of the call and never change once found |
| `FilesInUseStay` | a file is removed only after the server loop and the governor stopped |
| `OnlyDeletedRemoved` | only files of deleted applications are removed |
| `DeletedAreRemoved` | a handler that finished has removed them all, but for the last slot of the list |
| `RestartTakesEffect` | a restart is not lost between two turns of the server loop (liveness) |
| `HeldExitStops` | once no restart comes any more, an exit message that arrived ends the process (liveness) |
| `ShutdownEnds` | a shutdown that began ends, panics included (liveness) |
| `OneSessionPerReset` | one login start gives one session, and one more for each reset not over when it was handed out |
| `RefusedWasClaimed` | a token is refused only if its number was used (the growing set) |
| `LoginsEnd` | every login on a growing set ends (liveness) |
| `MutatesOnlyVouched` | the store changes only for commits a trusted request gave |
| `IncompleteOnlyAfterCut` | a response of an incomplete directory is cached only after a step that failed or was cut off |
| `RequestsEnd` | the driver of git ends in every state of the store (liveness) |
| `ResponsesReadBack` | responses can be read back from the shared table, and their range picks no ref |
| `TokensEarned` | tokens of a user go only to the holder of a flow for which that user logged in |
| `FamilyHasOneRow` | of concurrent refreshes one wins; a family never splits |
| `FamilyLapses` | refreshing does not prolong a family |

Properties of the runs that expect a violation: `ControlCStops`,
`SeenOnlyIfUsed` and `OnlyOneHolds`, see section 5. `TypeOK` is proved for
`CompactSet` and `AppendOnlyMap`, where the inductive invariants start from it.
`Directory` (`DirectoryTypeOK`), `Lazy`, `Server` (`ServerTypeOK`) and `Tiauth`
define one that documents the types; TLC finds it true on the instances of
section 4, and no listed run spends a property on it.

## 4. Runs

All bounds are named constants. Deadlock is not checked: once the bounded
numbers, tokens, clock and ends are used up, the system of a run has nothing
left to do, and the process of `Server` may end. The run of `AppendOnlyMap`
checks deadlock: a reader can always search again.

Fairness is assumed in three modules. `Server`: weak fairness of the main
thread, of the handler and of the governor's stop: each is a thread of the
operating system, and main runs a task that tokio polls whenever it is woken.
Two things are taken from outside: open requests are answered when the server
drains, and the governor gets 100 ms without a request at some time after it was
told to stop (it asks only then, main.rs:88). No fairness is assumed of
requests, of control-C, or of which branch `select!` takes. `UserLogins`: weak
fairness of each thread that is in `login_session`, which takes no lock.
`GitDerive`: weak fairness of the server on the request it works on; git and the
plugin are taken to return, with an error or without.

| run | bounds and why | shows |
|---|---|---|
| `CompactSet` | N = 2, four numbers, two clients, lifetimes 1 and 2, a leeway of 1, two ticks: a request overtaken by another one and by the clock, growth, merges with one and two neighbours, marks in both orders, collapses of one and more ranges, also over an unused token within its leeway, every number presented in any order and again | passes |
| `Tiauth` | N = 2, one user, two handlers, two uploads, room for two sessions; tokens of three types, one of each (`OneOfEach`), with two ticks or a tick and a restart; or up to three proof tokens, with a login or without (`MoreProofs`): a login against an old file, expired tokens, keys and sessions, repeats, a restart in the middle of each handler, and the list of used numbers growing between any two steps | passes |
| `Keys` | three session keys, a second load and a rotation or invalidation, or four of those without it; five ticks in intervals of two, three bits of time, one token: every border of intervals, a wrapped reference time, a clock driven back | passes |
| `Directory` | four users, five claim keys; every set of claims for one user, unsorted claims (that are refused), claims of the absent; all targets up to three ids; all lists of requested keys without repeats, and those of up to three with them; sets of claims up to three with repeats | passes |
| `AppendOnlyMap` | five keys, four slots, one value, one reader: every hash, so all kinds of collisions, a reader overtaken by several insertions, and a full map searched for one key more. A second reader adds nothing: readers do not touch shared state | passes |
| `Server` | three applications, a map of two, three places for deletions, two restarts, two control-C: full map, full list, double deletions, a restart while the loop turns or drains, a second control-C during and after the shutdown | passes |
| `UserLogins` | both bit sets, two threads, three tokens, two bits per atom, one reset: two pushes at once, an atom taken and not there, a reset between the set of a bit and the session | passes |
| `GitDerive` | one branch with two commits, sent under two names, one run of the sync client, one end of the process, trusted and other requests with every header | passes |
| `OAuth` | two names, one person, one login that may be finished for either of two flows and again, two handlers, two families, three rows, two ticks with refresh tokens that live for one | passes |
| `ServerLostExit` | one control-C | **violated**: control-C between two turns of the loop is lost |
| `UserLoginsSmall` | two atoms of three bits, five tokens, no reset | **violated**: a token nobody used is refused as used |
| `Lazy` | two holders, two values, bytes that do not decode | **violated**: a `Lazy` holds neither bytes nor value |

The run of `Tiauth` has N = 2 where the code has 64, so that its third number
makes the list grow (in the code the 65th does). That number is lost, and its
proof works again (section 5, item 4): the run reaches states in which a proof
has had two effects. `TokensWorkOnce` therefore speaks of the tokens without a
number and with one below N, and the run shows that these work once also while
the list grows and after. All kinds of tokens at once, or several proofs over
ticks and a restart, multiply the states beyond use, and the constraint
`FewTokens` cuts them off; merges, collapses and a second growth are in
`CompactSet`, and the theorems (section 6) have them all.

`GitDerive` has no tag object in its remote, so that `LsRemote` is run on
branches only; that it peels wrongly with three names or more (section 5) is
read off its definition.

## 5. Disagreements and observations

The runs that expect a violation show:

1. Control-C is lost when it falls between two turns of the server loop or when
   `select!` takes the restart first (main.rs:234). The handler then waits
   forever, and later control-C are not handled.
2. `AtomicSmallBitSet::exists` picks the atom by `index_in_atom`
   (compactset.rs:142). Numbers that are equal modulo 64 share a bit, so that a
   login token nobody used is refused, and those with a remainder of 32 and more
   panic. The set "occupies roughly 256 bytes for 2048 values" (compactset.rs:44)
   and has room for 32.
3. `Lazy::try_inner` drops the bytes before it knows that they decode
   (lib.rs:169). After an error the `Lazy` has neither bytes nor value, which
   "never" happens (lib.rs:90), and every later call panics.

What else was met while modelling; the models contain these behaviours, and the
properties say what remains true with them.

tiauth, numbers and map:

4. `add_num_ranges` (counter.rs:321) does not record the number that makes the
   list grow: its token works again, once more when the number is the top of the
   last range and the list grows again. "If a proof is used, the unique proof
   nonce is stored in the database so it cannot be used again" (modify.rs:25) and
   "tracks whether it has already seen a u64 value" (counter.rs:60) do not hold
   for it. A proof has two effects, or three (`ProofsAlways`).
5. The assumption at counter.rs:410 that later numbers expire later does not
   hold: login tokens (one minute) and proof tokens (twelve hours) share one
   counter. A proof token can be reported as used before anyone used it.
   `SoundWhenMonotone` states what holds where the assumption does.
6. A token is accepted until its expiry and the leeway of ten seconds
   (proof.rs:1222, data.rs:846), but the collapse of expired ranges compares with
   the expiry alone (counter.rs:457). An unused token that comes within the
   leeway is refused as used when a number presented before it led to the
   collapse. The run of `CompactSet` reaches such states; `SoundWhenMonotone`
   therefore speaks of the expiry and not of the leeway.
7. A map asked for a power of two has exactly as many slots (appendonly.rs:213)
   and not a quarter more, as the comment says. The server asks for 32: with 32
   applications loaded, a request for an unknown one panics instead of being
   answered "not found", and `/delete` of an unknown one ends the governor.
   `AppendOnlyArcVec::set` never counts, so the `CapacityError` that the doc of
   `insert` promises cannot occur (appendonly.rs:105).
8. main does not wait for the handler (main.rs:324): the process may end before
   the files of deleted applications are gone, and requests in flight may still
   use them. Deleted applications are served until a restart. The last of the 32
   places of the list is never visited (appendonly.rs:138).

tiauth, handlers and keys:

9. `user_set_claims` stores claims of users who do not exist (modify.rs:148), on
   which `get_users` panics (admin.rs:184); `ListsMatchTables` says exactly when.
10. Nothing calls `drive_time` (state.rs:249), nor `rotate_session_keys`,
   `invalidate_session_key` and `update_ephemeral_time`: the clock of an
   application stays where it was at load, and proofs, which the client signs
   with its own clock, are compared with it.
11. A proof that is refused after its token was looked up, for its action or its
    target, has used the token up. Errors of handlers are `todo!()` in
    functions.rs, so they end the request by a panic.
12. `subset_linear` stays at a requested key that is missing, and
    `subset_binary_split` drops the slice whose middle is missing and answers
    middle, right, left: a session with two or more requested claims may have
    them out of order, and `check_session` then refuses it. `remove_claims` stops
    removing at the first key that is missing. `select_users` and
    `select_claims` stop at the first user that does not exist.
    `get_login_claims_bytes` answers every requested key as missing where a user
    has no row. Where keys repeat, `add_claims` overrides one of the equal claims
    and leaves the others, `remove_claims` takes one claim for each key given but
    all for the last, and a key requested twice may be reported missing though
    it is stored.
13. `combine_encode` (util.rs:113) writes to `remaining[1]` of a vector of one
    byte, which panics; only a part of a single byte gets there, and no part of a
    proof is that short.

borink and lazy-borink:

14. A reset of borink-auth starts the numbers over before it clears the bits
    (compactset.rs:107), so a token handed out in between may start two sessions.
    `decrypt_session` never compares the expiry of a session.
15. A directory that exists counts as complete (git.rs:300), so a response of a
    partial checkout may be cached for good. A request that tiny_http drops is
    answered with 500.
16. `ls_remote` sorts the names, takes the first from the end of the reversed
    list and goes through the rest from the other end. What it answers is not
    sorted ("Guaranteed to provide a vector sorted", git_call.rs:150), and with
    three names or more a tag object is not replaced by its commit.
17. `prefix_range` of bytes that are all 255 writes to an empty vector and panics;
    `update_if_meta`, `metas` and `prefix_range` have no callers in the programs.
18. `try_unwrap_lazy` of a `Vec` or of a `Lazy` does not go into the fields of
    what it holds, though the doc has it "fully deserialize any Lazy child
    fields".

tiauth2:

19. `get_or_create_key` (key.rs:83) reads and then upserts, so two first requests
    may draw two keys; the family that was sealed under the one that was
    overwritten cannot be refreshed. A registration that used an overwritten
    OPAQUE key could never log in.
20. The first `store_json` of a key sets no time to live (EXPIRE comes before
    JSON.SET); codes, flows and half-done logins can be used again.
21. `delete_family` may race a refresh, whose new row then stays. The comment at
    refresh.rs:65 is out of date: the transaction does fail when the row is gone.
    Times are i32.

## 6. Proofs

Eight modules hold theorems. Each states an inductive invariant of a component,
shows that `Init` implies it and that every action keeps it, one lemma per
action, and derives the properties the runs check. The invariants were checked
with TLC before they were proved.

**The set of used numbers.** `RangeSetProofs` is about `num_exists` as an
operator on lists. It preserves the shape of the list (`NumExistsChained`), the
order of expiries (`NumExistsSorted`) and soundness (`NumExistsSound`): relative
to any set of used and any set of expired numbers that account for everything
recorded, what is recorded afterwards is accounted for too. It answers whether
the number was recorded, records it unless the list grows, and forgets nothing
but the top of a list that grows (`NumExistsRecords`); and it never leaves two
full ranges side by side behind the first (`NumExistsApart`). Each is built from
one lemma per operator (insert, join, grow, mark, collapse).

`CompactSetProofs` lifts this to `Spec`. The inductive invariant is

    IInv == TypeOK /\ RangesChained /\ ExpirySorted

`RangesChained` is needed because `Target` is a maximum over an index set that
must not be empty, and `ExpirySorted` because a collapse is only right when all
ranges before an expired one have expired. Soundness has an invariant of its
own on top of `IInv`: every range's known expiry bounds the expiry of the
numbers it covers, as long as expiries are monotone. So has
`AcceptedAtMostThrice`, whose bound depends on where a number lies
(`AcceptanceBound`): above the top it was never accepted, at the top it was at
most twice, below at most three times, and one less where it is not recorded.
Every safety property of `CompactSet` is a theorem, for every N >= 2, every
number of clients and all bounds. Assumed are N >= 2, a positive `CheckEvery`,
and natural lifetimes and bounds.

**The application.** `TiauthProofs` proves every property of `Tiauth` that a
passing run checks. Its invariant `IInv` says, besides types and the shape of the
list, what has to be known between two steps of a handler and of what was sent
to clients:

- `StagesOK`: a handler works for a token of this process and of its own type,
  and before it creates a session it holds the file of that token;
- `TokenOK`: a token of this process has a number below the counter, and the
  file it names is no newer than the newest;
- `SessionOK`: a session names the file its login ran against, and was issued
  after that file was stored if it still is the stored one. This is what makes
  `HonouredSinceChange` inductive: a login under way when the password changes
  creates a session that names the old file, so it is not honoured although it
  is younger than the change;
- `SpentOK`: a token for a password file cannot be used again, for there is a
  file now, or another one. Files get new numbers, so the old one never returns.

`OnlyOwnTokens` and `ReplacesWhatItSaw` are action properties and follow step by
step. `OnceIInv` adds that a token with its effect behind it has its number
recorded and that one handler at most is past the check with it; restarts are
covered because tokens of earlier processes no longer open. From it:

- `LowNumbersWorkOnce`: a token without a number, or with one below N, has at
  most one effect;
- `LowTokensWorkOnce`: `Spec => TokensWorkOnce`, the refinement of `OneTime` by
  the uses of these tokens (`LowUses`). A step for another token is a stutter.

It needs no bound on the numbers handed out: numbers below N lie in the first
range from the start, and no growth, merge or collapse takes their record away.
For other numbers it is false (section 5, item 4), and `ProofsAlways` says what
is left: `ProofIInv` bounds the effects of a proof by where its number lies
(`Allowed`: none above the list, at most two at its top, three below, and one
less while it is not recorded), as `AcceptanceBound` does for the set alone. A
login counts its number in a step before its effect, so for logins the bound is
that of the set (`AcceptedAlways`).

**tiauth2.** `OAuthProofs` proves the three properties of `OAuth`, for any
number of handlers, families and rows. They are part of the invariant, with
what they rest on: a code stands for a login for the flow it names (`KvOK`), a
row keeps the end of its family and belongs to a user who logged in for its
verifier (`RowOK`), and what a handler read before the last statement still
holds (`StageOK`): no row id is used twice, so a row that is there under the id
the handler saw is the row it saw. `Keeps` names what every step leaves alone,
and is all that the other handlers need.

**The append-only map.** `AppendOnlyMapProofs` shows that the map implements
`OnceMap` (`ImplementsOnceMap`), for every capacity asked for, hash, set of
keys, values and readers. The inductive invariant is

    IInv == TypeOK /\ EntriesReachable /\ ProbesBehind /\ KeysUnique

A probe that finds an empty slot has to know that its key is nowhere in the map
(`EmptyMeansAbsent`). An entry of the key would lie at some probe p of the same
sequence: not before the present one, because those slots hold other keys
(`ProbesBehind`), and not after it, because then the present slot would be
taken (`EntriesReachable`). From this follow the uniqueness of keys and that
every answer is exact at the last probe. A search that gives up answers for an
absent key by the same argument (`ExhaustedMeansAbsent`).

`GivesUpAlways` needs that the probes visit every slot. `RealCapacity` yields a
power of two, C = 2^k (`CapacityIsPower`, from facts about powers that are
proved by counting subsets). If probes i < j < C met in a slot, 2 * C would
divide (j - i) * (j + i + 1) (`Triangular`); one of the two factors is odd, so
2 * C would divide the other (`OddFactor`), which is smaller (`ProbesDiffer`).
C different probes visit C slots (`ProbesVisitAll`). Assumed are a natural
number asked for, and that empty, panic and error differ from values, entries
and answers.

**Keys.** `ProcessProofs` proves the three properties of `Keys` for any number of
session keys, any interval, leeway and width, and all bounds. The invariant is

    IInv == KeysTypeOK /\ Newest(sessionKeys, drawn, invalidated) /\ TokensOK

`Newest` is `NewestKeysVerify` of any keys; it is inductive once it is known
that all keys were drawn, because a rotation shifts the others down by one
(`ShiftedNewest`). `TokensOK` says that a token is still what `proof_token` put
into it, and a proof still over its token: what is sealed comes back as it was
(`TokenReadsBack`, `ProofOverToken`). `LateProofsFail` follows from expiries
alone. For `FreshProofsVerify` the index of the token's key is a quotient of
times: one interval later it has grown by at most one (`Quotient`), so that it
is one of the two keys derived, and the difference of times does not wrap
(`NoWrap`). Assumed are one key or more, a positive interval, and times that
fit their width.

**The server.** For all capacities and bounds `ProcessProofs` shows
`FilesInUseStay`, `OnlyDeletedRemoved` and `DeletedAreRemoved`. The invariant
has two parts: `StopsInOrder` ties the number of messages sent to where main is,
to the governor (main sends the second message only after it joined a governor
that stopped well) and to the handler; `FilesGoLast` says that every listed
application is marked as deleted and that no file is missing before the second
message. For the third property `PrefixRemoved` adds that the files of the first
entries of the list are gone, as many as the handler has gone through.

**Queries and edits.** `Directory` has few actions and much computation, so its
theorems are about loops. Of the state they use `TablesOK` only: users and rows
of claims are of the ids there are, and what is stored ascends. A loop is a fold
(`FoldLeft`), and a fold is defined by a recursive function, so it is shown first
that this function is there (`FoldExists`) and that the fold is then its value
after the last turn (`SelectSteps`, `AddSteps`, `RemoveSteps`). Each loop has an
invariant, kept by every turn and followed up to the last one by the least
element of the set of turns at which it fails (`LeastId`, `UpTo`):

- `ScanOK`, of a selection: the rows named so far, each once and in order; while
  the list ascends every earlier entry of it was met. From it
  `SelectionsArePrefixes`, for all users, claims and queries.
- `AddedSoFar` and `StrictSoFar`, of `add_claims`: the last claim given of each
  key is there (`LastOfKey`), and every old one of other keys; where no key was
  there twice, nothing else. Refused at the first key that was there or given
  before (`AllNew`).
- `KeptSoFar`, of `remove_claims`: every claim is kept whose key is none of those
  looked for so far, and all of these but the one looked for now were met; where
  no key repeats, no claim of these keys is kept, and the key looked for now was
  not passed by.
- `LinearOK`, of `subset_linear`: what was answered is of the claims seen and the
  keys passed, nothing twice. If the request ascends without repeats, every key
  passed was found, the key waited for is of no claim seen, and no key named
  missing is stored.

`ListsMatchTables` needs the merge join of two tables. Rows in order of their
ids are there for every finite table and are all of it (`RowsExist`, `RowsAre`).

`SubsetsAgree` needs `subset_binary_split` as well, a recursive function of its
tasks. That there is one such function (`SplitExists`, `SplitUnique`) is shown for
slices of 0, 1, 2, ... requested keys, since `SplitOne` asks only for shorter
ones. Of a task `AnswerOK` says that its answer has stored and requested claims of
its slices only, each once, and `CompleteOK` that, where the keys are sought in
the slice that would hold them (`WellPlaced`), no key named missing is stored, and
all are found if all are stored. The two parts of a task are of disjoint slices,
which is why nothing is answered twice; that each is well placed needs a request
that ascends, which the code does not check. `FoundAnswer` and `FoundComplete` join
the three parts of an answer, and `SplitAnswers` goes through the sizes once more.

Keys may repeat, in what is stored as in what is asked for or given: nothing in
the code prevents it (`to_claims_sorted` accepts equal neighbours). Where the
properties say less then (`IsInjective` in them), the code does less: see section
5, item 12. Assumed are that ids and keys are numbers (they are compared as
strings are; `ClaimsAssumption`, `ListsAssumption`, `QueriesAssumption`) and that
there are finitely many ids.

**borink-auth.** `UserLoginsProofs` is for any set of threads, any width of an
atom and both bit sets. `Covered` is a budget for every token: the sessions it
started, the threads that used its number up and have yet to compare the
secrets, and one more while its bit is clear, are no more than one and the
clearings of its atom since it was handed out. A reset under way counts for the
atoms it has passed. Each step moves an item within the budget, or pays for it:
the `fetch_or` turns the clear bit into a thread, a session turns the thread
into a session, a clearing pays for the bit it clears. `PushesApart` says that
no two threads push the same atom, and that an atom under way is not there, so
that a push clears no bit. `BitsClaimed` and the fact that atom and bit
determine the number in the set that grows (`NumberOf`) give
`RefusedWasClaimed`. Assumed are a positive width and size.

**git-derive.** `BorinkProofs` proves the three safety properties of `GitDerive`,
for all objects, remotes, names, keys, refs and headers. The invariant is

    IInv == JobOK /\ CloneOK /\ DirsOK /\ TableOK /\ LeaveOK /\ IncompleteOnlyAfterCut

`CloneOK` and `DirsOK` say that a clone or a directory that is not whole is being
made by the request at work, or was left so by a step in `cut`: a directory that
exists counts as complete in the code, so the property fails unless every way to
leave one behind is accounted for. `LeaveOK` ties the leave to change the store
to a commit that a trusted request gave, and `TableOK` says that each row is a
response with its metadata or a ref for such a commit; the two kinds of keys are
apart (`KeysApart`), so that a response is never read as a ref.
`ResponsesReadBack` is about the bytes of the metadata, for headers of any
length. Assumed is what the types of the code give (`HeadersAssumption`).

**lazy-borink.** `BorinkProofs` also shows what remains of the promise at
lib.rs:90 (`OneHoldsWhereAllDecode`): where there is no garbage, for all holders
and values, every `Lazy` holds exactly one of bytes and value through any
sequence of calls, and no call fails or panics. The invariant adds to this that
every `Lazy` that was sent is whole as well, since it is received again.

**Only model-checked** are liveness under fairness (`RestartTakesEffect`,
`HeldExitStops`, `ShutdownEnds`, `LoginsEnd`, `RequestsEnd`) and the three
properties that are violated. Liveness and ENABLED are out of the prover's reach.

## 7. Plan

The modules that were planned are written, and every safety property that a
passing run checks is a theorem.

To model, should the code come to use it: `update_if_meta` of borink-kv between
connections, revocation of sessions, and `user_remove_claims`.

## 8. Not modelled

`hellodeploy` (containers and scripts); the bindings of the client library
(conversions); ciphers, MessagePack, base64 and PEM (their promise is assumed:
what is sealed or signed cannot be forged, hashes do not collide); HTTP paths,
status codes and JSON; borink-crypto, borink-process and borink-error (wrappers
without state); benches and the experiments in `_bin`; the atomic bit sets of
tiauth-core, which nothing uses; the save format of the set of used numbers,
whose functions have no caller.
