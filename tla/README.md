# A TLA+ verification of the AElf Rust SDK

The SDK turns what a Rust program wants of an AElf chain into HTTP requests to
a node: it builds and signs transactions, submits them, retries what fails on
the way, and calls contracts through descriptors it fetches from the chain. It
keeps little state. What is hard about it lies between its parts and the world:
a request that times out may still take effect, a future may be dropped at any
`await`, tasks share a lazily fetched contract, and the chain moves while a
transaction is being built for it. That is what these modules model, check with
TLC and, where marked, prove with TLAPS.

All paths below are relative to the repository's root.

## The system

| Part | Where | State it keeps | Operations | Talks to |
|---|---|---|---|---|
| HTTP transport | `crates/aelf-client/src/{provider,config,error}.rs` | per call: remaining retries, backoff, the attempt under way | `request_text`, `request_json` | the node; its caller, who may drop the future |
| client services | `crates/aelf-client/src/lib.rs` 85-495, `dto/mod.rs` | none | one per node endpoint, then decoding | the transport |
| transaction building | `crates/aelf-client/src/lib.rs` 495-717 | the builder's fields, consumed by `build_*` | `with_*`, `build_unsigned`, `build_signed`, `generate_transaction`, `get_contract_address_by_name` | chain status and execution endpoints |
| submission | `crates/aelf-client/src/lib.rs` 376-402 | none | `send_transaction` and the reading of its three response shapes | the transport |
| dynamic contracts | `crates/aelf-contract/src/lib.rs` 43-341 | a descriptor pool | `at`, `method`, `call_*`, `send_*`, JSON normalisation | chain, builder, submission |
| typed contracts | `crates/aelf-contract/src/lib.rs` 343-707 | a `OnceCell` shared by all clones of a wrapper | one per contract method | dynamic contracts |
| keys and addresses | `crates/aelf-crypto/src/lib.rs` | a wallet's key material | derive, sign, verify, encode, decode | - |
| keystore | `crates/aelf-keystore/src/lib.rs` | none; the file is the caller's | `encrypt_js`, `unlock_js`, `check_password` | keys; whoever stores the file; other SDKs |
| facade | `crates/aelf-sdk/src/lib.rs` | none | constructors, `format_token_amount` | everything above |
| bindings | `crates/aelf-proto` | none | generated by `build.rs` | proto sync |
| release | `scripts/publish-crates.sh`, `.github/workflows/publish.yml` | crates.io and its index | publish in order, wait, resume | crates.io |
| proto sync | `scripts/sync_proto.sh` | two mirrors of the upstream `.proto` files | clone, mirror, patch | GitHub |

What makes each part correct, in short:

* transport: never more requests than the policy allows, no retry of a final
  answer, no giving up early, no request after the call has ended, an end to
  every call, and an outcome that rests on what the node said;
* building: number and prefix of the reference block belong to one block that
  was best during the build, and a builder makes the requests it needs, in
  order, and no others: none if it lacks its wallet or its contract;
* submission: success means that the node accepted that very transaction, and
  retries do not multiply the effect;
* typed contracts: one fetch for all clones, no lost wake-up when the fetching
  task fails or is dropped, and one set of descriptors for all of them;
* keystore: the right password gives the wallet back, no other does, damage is
  noticed where the format allows it, and whatever a file says, reading it ends
  in a result or an error;
* proto sync: a run that ends leaves what upstream has, patched, whatever
  earlier runs left, and the two directories the same;
* JSON calls: what people write for addresses and hashes survives a call, and
  what is neither is refused before a request;
* the other pure parts (response reading, DTO decoding, address and key texts,
  amounts, the second scrypt): they agree with a reference definition on every
  input class.

`PROJECT.json` lists the hazards of the code line by line with the properties
that guard against each.

## The modules

```
                RemoteCall                       OnceRegister
   implemented by |      \ used by      implemented by |
             HttpProvider  TransactionFlow       LazyContract
                  |              |                     |
       HttpProviderProofs  MCTransactionFlow,    MCLazyContract,
                           TransactionFlowProofs LazyContractProofs

             ReleasePublish, MCReleasePublish, ReleasePublishProofs
             Keystore, MCKeystore, KeystoreProofs
             SyncProto, SyncProtoProofs

                         Numerals
                        /        \
                 Credentials      \
                      |            \
    NodeReadings  JsonForms    TokenAmount   ScryptMix
          \___________|____________|____________/
                      |
                   Codecs
                  /      \
        CodecProofs    MCCodecs

             SetInduction: used by the proof modules
```

### RemoteCall - what a caller of the transport may rely on

The abstract specification of one call: it sends at most `Limit` requests, all
while it is pending; the node acts on each at most once, perhaps after the call
has ended; `ok` only after one was acted upon; an error or a dropped future
says nothing either way; every call ends.

### HttpProvider - the request loop

`phase[c]` is the `await` at which `request_text` is suspended (`sending`:
`request.send()`, `reading`: `response.text()`, `sleeping`: the backoff);
`budget` and `backoff` are the locals `max_retries` and `initial_backoff`;
`status` is the status line already read when the body is awaited. `wire` and
`answered` are the network and the node: a request stays on the wire until the
node answers it, for ever if it is lost, and an answer may come when nobody
waits for it. Between two awaits the Rust code runs without interruption, so
each action is what happens from one await to the next: `SendFails`,
`HeadersArrive`, `BodyFails`, `BodyArrives`, `Wake`, and inside them the three
guards of the loop (`ErrorEnds`, `StatusEnds`) and `retry_after`
(`RetryAfter`). With a zero backoff nothing is awaited between the decision to
retry and the next request, so they are one step. `Drop` is the caller dropping
the future at any of the three awaits. `TextResults` is `request_json`, which
may find that a success is no JSON.

A status is its class and a reqwest error is `transient` (connect, timeout,
request, body) or `permanent`; nothing the loop does depends on more. Durations
are numbers that saturate at `MaxDuration`.

### LazyContract - the wrappers and the cell they share

A task is one method call on a wrapper, up to the point where it has its method
descriptor. `permit[c]` and `value[c]` are tokio's `OnceCell`: one permit, which
a failing or dropped initialiser hands to a waiting task (`Release`), and which
is closed when the cell is set. `Get` is the first poll of
`get_or_try_init`, `FetchOk` and `FetchErr` are the end of `DynamicContract::at`
(request, base64, descriptor decoding), `Deliver` the clone of the contract and
the method look-up. `Direct` tasks are handles made with `DynamicContract::at`.
`NodeServes` fixes what a fetch will bring at the moment the node answers, and
`Upgrade` changes the contract on chain. tokio's queue is first-in-first-out;
the model lets any waiting task be chosen, which only adds behaviours.

`OnceRegister` is the abstract view: a register written once, from which every
clone is answered.

### TransactionFlow - from a builder to a mined transaction

An intent is something a caller wants done once, `fields[i]` the builder it is
given to: whether it has a wallet and a method, and how it names its contract
(`Builders` are those considered). `stage[i]` walks through the
builder's awaits: `genesis`, `lookupRef` and `lookup` are the three requests of
`get_contract_address_by_name`, `status` the chain status behind
`generate_transaction`. `snap[i]` is the best block the node reported to the
read under way; `NodeReports` may fire again while the read is pending, for a
read may be retried. `Submit` starts a call of `RemoteCall` (the module is
instantiated, its actions are conjuncts), `Retry` is the provider sending the
same body again, `NodeTakes` is a request reaching the node, at any time after
it was sent. After an error the caller may `Submit` the same transaction or
`Start` over, as users of `send_typed` must. The node is external: it accepts a
transaction whose reference block is on its chain and recent enough, keeps each
transaction once (the id is the hash of the bytes), mines it later, and may
replace its last block.

`call` and `issued` come from `RemoteCall`; that `HttpProvider` is such a call
is what `ImplementsRemoteCall` checks and `RefinesRemoteCall` proves, so the
composition does not have to carry the loop's own state.

### ReleasePublish - crates.io, and the runs of the publish script

`pc[r]` is the command a run of `publish-crates.sh` executes next: `dry` and
`publishing` are `cargo publish` with and without `--dry-run`, `checking` the
look at the index before it, `polling` the loop of `ensure_crate_visible`;
`at[r]` is the crate it deals with and `why[r]` what ended it. `Start` is
everything before the loop's first command: the validation of the environment,
the dry run of the whole workspace, the selection of the first crate. `GoOn` is
the `continue` of the loop over `ordered_packages`. `Kill` may happen at any
command. The registry is external: `uploaded` is what it has, `visible` what
its index shows, which `Index` lets catch up some time later or never. An upload
that was taken may still end in an error of cargo. `disturbed` remembers which
runs had another beside them, or began behind an upload the index did not show
yet: nothing in the script or the workflow prevents either.

### Keystore - the wallet file and what becomes of it

`made` is what a file was made from and the file as it was, `file` the file as
it is stored, `last` the last operation and its result. `EncryptStep` is
`encrypt_js_with_options`, with every early return in its order; `ReceiveStep`
a file of another SDK, with its spelling of the cipher and of the derived
key's length, capitals and parameters; `AlterStep` damages one field;
`UnlockStep` and `CheckStep` are `unlock_js` and `check_password`. An alteration
may also put a MAC into the file that needs no key, which anybody can compute
from the ciphertext. Cryptography
is symbolic: a text is a sequence of blocks, a block a set of terms under
exclusive or, so that a key stream cancels itself and CBC chains; removing the
padding of a garbled block may succeed by accident, which is a choice. Guards
on numbers are exact: `n`, `r` and `p` are given as exponents of two, on which
`checked_mul` and `checked_add` of 64 bits are comparisons. What does not return
is a result of its own: `panic` for a slice out of its range or a buffer of
2^63 bytes, `abort` for a buffer memory has no room for. How much that is
depends on the machine: `Memory` is the exponent of the least buffer that cannot
be had, `LongestKey` the longest derived key that can. `MaxBlocks` is the
0xffff_ffff of `CompatScryptParams::new`. A derived key longer than 16 bytes
keys the MAC with what is beyond them; if that is only a few bytes two passwords
may have the same. `MacBytes` is the number of bytes from which on that is taken
not to happen, and `MacMatches` leaves it open below.

### SyncProto - the script that fetches the .proto files

`root` and `crate` are the two directories, `clone` the checkout of upstream,
`pc` the next command, `todo` the files the last patch has not reached.
Upstream may be anything at each run. `Interrupted` is `set -e`, or a killed
script: a mirror under way has then dealt with some of the files only.
The file that declares `AuthorityInfo` may have the package `aelf`, none or
another, and the layout the patch looks for or not; where the patch does not
find it nothing is patched and the script goes on, as does the model. Which of
the resulting files protoc accepts, when `build.rs` compiles the crate's mirror,
is not modelled.

### The pure algorithms

* `NodeReadings`: `send_transaction`'s reading of its response (as tokens:
  quotes, white space, prefix, digits), `block_height_map_as_default` and
  `get_transaction_fees`.
* `Credentials`: address texts as their parts between underscores, base58check
  as a constructor that only its own output matches; private key texts as a
  prefix and binary digits, with `KeyDigits` for the 64 of the code; wallets,
  signing and verifying with signatures that name what they were made from.
* `JsonForms`: `normalize_json_message` and `normalize_json_field` over any
  `Descriptors`, which may refer to each other, between them an external
  `prost_reflect`. `CallJson` is `call_json` of a method that returns its input,
  so that both directions and the message in between are in one equation. An
  array or an object is a set of pairs of a place (an index, a key) and a value;
  the mutual recursion of the two functions is a function of how deep the value
  may be (`Normalize[n]`), and a message is one deeper than the text of its
  address. `prost_reflect` reads messages of any such value, refuses unknown
  keys and values of the wrong kind, and writes no field that has its default
  value. A field given under both its names, and scalars with presence, are left
  out, and one kind of scalar stands for all.
* `TokenAmount`: `format_token_amount` for amounts from `-Limit` to `Limit - 1`,
  the machine's integers when `Limit` is 2^63.
* `ScryptMix`: `compat_scrypt` with the mixing it calls, beside the text of
  RFC 7914, over any function `Salsa` and any `BitXor` on words. The chunk that
  is mixed in place and the scratch memory that outlives a chunk are explicit.

Each module states its reference property as an operator of the input.
`Codecs` picks an algorithm and an input in its only step, and its invariants
apply the operators; `InputsAssumption` says what inputs the code can be given.
`MCCodecs` adds the small sets of inputs.

## The runs

| Run | Instance | What it shows |
|---|---|---|
| `http_retries` | one JSON call, 3 retries, backoff 3 saturating at 10 | all of the loop's properties over every mix of answers, errors, lost and late answers and drops. Three retries give pauses 3, 6, 10: one plain, one doubled, one saturated |
| `http_calls` | two calls, one of them JSON, 1 retry, zero backoff | every call is a `RemoteCall`, liveness included; two calls on one provider do not take each other's answers; the zero backoff never sleeps |
| `http_4xx` | one call, 2 retries | **violated**: a 4xx can be retried (see Findings) |
| `lazy_contract` | three clones of one wrapper and a direct handle, one upgrade | three clones are what it takes for a holder, a waiter that is handed the permit and another that still waits; the methods differ between versions, so a stale pool shows in the result |
| `transaction_flow` | one intent given to any of five builders, 2 builds, 2 submissions of up to 2 requests, heights up to 3, two prefixes, validity 2 | a transaction may be built, lost, resent, expire, be mined, be orphaned and mined again, and be built anew. The builders are complete, by address and by name, or lack their wallet, contract or method. Submitting does not depend on how a contract was found, so the constraint `LookupsUnsent` follows no further what was submitted behind a look-up by name. Prefixes are symmetric |
| `publish` | the six crates with the dependencies their `Cargo.toml` files declare, two runs in any of eight environments, 2 polls | two runs are what a rerun and a concurrent run take. The environments are a pushed tag, a full run without skipping, a recovery of two crates, two rehearsals, and three that are refused. The script polls 30 times; a first, a repeated and a last poll are all that differ |
| `keystore` | two passwords, a wallet with and one without mnemonic, twelve sets of options, five of other SDKs, up to 2 alterations, buffers of less than 2^36 bytes, MAC keys told apart from 8 bytes on | every early return of both directions is taken; derived keys from 8 to 80 bytes, one of 17 whose MAC key is a single byte, altered ones up to 128; parameters on both sides of each guard, only accepted by the second scrypt, and too large for memory; a second alteration can undo or hide the first. Passwords are symmetric |
| `keystore_short_key` | the same, no alteration | **violated**: any password opens a file with a 16-byte derived key (see Findings) |
| `keystore_allocation` | the same, no alteration | **violated**: a file of 2^37 bytes' worth of parameters ends the program (see Findings) |
| `sync_proto` | `authority_info.proto` and two others, each in every content, any number of runs | two other files are what it takes for one patched and one not when a run dies |
| `sync_mirrors` | the same | **violated**: the two directories differ (see Findings) |
| `codecs` | responses of up to 5 tokens in 3 shapes; height maps of up to 4 keys, hashes and numbers, in 3 notations each, and with one unreadable entry of each kind; up to 3 fee events; keys of 4 digits, texts up to 6; JSON of depth 4: a message with a list of messages, lists and maps; all amounts from -128 to 127 with -1 to 4 decimals; scrypt with r up to 3, p up to 2, n up to 8, words of 4 bits | each algorithm agrees with its reference; the sets are the least in which every branch is taken and inputs can collide |

Bounds in the modules: `MaxRetries` is a parameter of the code itself;
`MaxVersion`, `MaxHeight`, `MaxBuilds`, `MaxSends` and `MaxEdits` only bound the
exploration and stand in guards of `Upgrade`, `MineBlock`, `Start`, `Submit` and
`AlterStep`. Two
intents do not interact in the code (no shared state between builders), so
`transaction_flow` takes one.

Deadlock checking is off in every run: all calls may have ended, and then
nothing is left to do.

### Properties worth knowing

* `RetryBudget` ties three variables together on every path: requests sent plus
  retries left is constant, and the unsigned counter is never decremented at 0.
* `GivesUpOnlyWhenSpent` and `ResendOnlyAfterTransient` bracket the retry
  decision from both sides, `OutcomeJustified` ties the outcome to what the
  node answered.
* `SilentAfterEnd` is an action property: what is put on the wire is put there
  by live calls only, while old requests may still be answered.
* `NoLostWakeup` and `EveryCallAnswered` are about initialisers that fail or
  are dropped with others queued behind them.
* `ClonesAgree` and `FetcherFresh` say what the cache costs: clones always work
  with the same descriptors, and only calls answered from the cell may be stale.
* `OneEffectPerBuild` is the limit of what retrying can do: an intent is mined
  at most once for every transaction *built* for it. It is sharp: with two
  builds the chain can hold both. `send_typed`, `send_json` and `send_bytes`
  build inside the call, so a caller who calls them again after an error is in
  that case; a caller who keeps the raw transaction and resubmits is not.

* `CleanResume` states what the script is for, and its limits: a full run picks
  up whatever earlier runs left behind, *unless* another run is beside it or it
  began before the index had caught up. Both exceptions are needed: with either
  left out of `disturbed` TLC finds a full run whose upload is refused.
* `MissesOnlyDeselected` relates the order of the crates, the waiting and the
  selection: a dependency is missed only if it was deselected.

* `RightPasswordUnlocks` and `WrongPasswordRefused` together say what a
  keystore is for, and their conditions say where the code falls short of it. A
  MAC in capitals and a CBC file without a mnemonic are not opened. The MAC is
  keyed with what the derived key has beyond 16 bytes, and covers the
  ciphertext alone, so the length the file names decides what it is worth: a
  file of 17 bytes opens to one wrong password in 256, and one whose length
  was set to 16 and whose MAC was recomputed, which takes no password, opens to
  everybody. `WrongPasswordRefused` therefore speaks of files that name at least
  `16 + MacBytes` (`Protected`), in the state they are stored in. `DamageNoticed`
  lists what the MAC covers: without any of its conditions TLC finds an altered
  file that opens, to another private key when the initialisation vector or the
  cipher was altered. It says nothing of the mnemonic, which no MAC covers.
* `TypeOK` of `Keystore` is also the statement that every operation returns a
  result or a documented error, whatever the file says of its lengths and
  parameters, as long as memory has room for what scrypt allocates. That it does
  not always have, see the finding below.
* `AnySpellingSigns` fixes what signing a signed transaction does: the old
  signature is signed too, and the node refuses the result.
* `SameAfterCall` is the round trip of a JSON call: whatever has a canonical form
  comes back in it, and whatever has none, because somewhere in it is a text that
  is no address or no hash, a key that is no field or a value of the wrong kind,
  is refused before anything is sent.

### Fairness

`HttpProvider` and `LazyContract` assume weak fairness of `Progress`, task by
task. For the loop it is what tokio and reqwest give: a polled future is polled
again when something it waits for happens, `HttpProvider::new` sets a timeout
for each request, so an attempt that hangs fails, and a sleep ends. Nothing is
assumed of the node, which may never answer, nor of the caller. For the wrapper
a fetch is a call of the transport, which ends by `EveryCallEnds`, and a task
that was handed the permit is polled. `RemoteCall` assumes `WF(Return)` and
`http_calls` checks that the loop provides it. `ReleasePublish` assumes
weak fairness of `Step`, run by run, a shell that executes its next command, and
nothing of the index: a run ends because its polls are counted. `TransactionFlow`
states no liveness: nothing in the code promises that a transaction is ever mined.

## Findings

* **A 4xx can be retried** (`http_4xx`). README.md:301 says that "`4xx`
  responses are returned immediately without retry". The guard at
  `provider.rs:170` looks at the error of `response.text()` only, not at the
  status read at line 161: when reading the body of a 4xx times out, the
  request is sent again. (A body that is merely cut short is an error of
  decoding, which is not retried.) The proved `ResendOnlyAfterTransient` says what does
  hold: a resend follows a transient *error* or a 5xx.

* **A derived key of 16 bytes makes every password right**
  (`keystore_short_key`). `ensure_derived_key_len` (`aelf-keystore/src/lib.rs`
  351-357) accepts `dklen` 16 for AES-128, line 218 keys the MAC with
  `derived_key[16..]`, which is then empty, and nothing else depends on the
  password: `check_password` is true for all, and `unlock_js` under CTR returns
  a wrong private key without an error. Its comment says "Checks whether the
  provided password can unlock the keystore."
* **The second scrypt allocates what a file asks for** (`keystore_allocation`).
  `CompatScryptParams::new` says "Keep the compatibility branch bounded and
  allocation-safe" (`aelf-keystore/src/lib.rs:520`), but it only checks that the
  sizes fit a `usize`. `compat_scrypt` allocates them with `vec!` (lines
  547-551), which has no error to return: with n = 2^30 and r = 1, rejected by
  the scrypt crate and taken over by the second implementation, 2^37 bytes are
  asked for, and a program that cannot have them ends. At 2^63 bytes it panics.
* **The crate's mirror is taken before the patches** (`sync_mirrors`).
  `sync_proto.sh:57` says "Synced proto files into $PROTO_DIR and
  $CRATE_PROTO_DIR"; the patches of lines 25-55 reach the first only, and
  `build.rs` compiles the second. In the repository both directories are
  patched and the same.

More observations the properties make precise: of several fee events with one
symbol the last one counts and no sum is taken (`FeesAreCharged` states it, as
nothing in the repository says otherwise); of two entries of a height map that
are written the inverted way for one height only one can be in the JSON
(`HeightsEitherWay` excludes them), and an entry whose key and value are both
numbers is read with the value as the height; a transaction id that is quoted
twice in a raw text is returned with quotes (`SameIdInEveryShape` promises a
clean one for plain bodies only).

## The proofs

All proof modules are checked in full by TLAPS, for every value of the
constants the assumptions allow.

* `HttpProviderProofs`, from `CallsAssumption` and `PolicyAssumption` (any set
  of calls, any number of retries, any backoff not above `MaxDuration`). The
  inductive invariant `IInv` adds to the checked invariants what the history
  variables remember: requests on the wire and answers belong to attempts that
  were made (`SentBefore`), an answered request is no longer under way
  (`AnsweredOnce`), a body is read only of an answer to the last request
  (`ReadsAnAnswer`), exactly the finished calls have an outcome
  (`OutcomeAtEnd`), idle calls have spent nothing (`Spent`) and a call sleeps
  only after something a retry might cure (`SleepsAfterTransient`). `Invariance` is its induction,
  one case per action; from it follow `TypeCorrect`, `BudgetKept`,
  `OutcomesJustified`, `NeverGivesUpEarly`, `ResendsJustified`, and the action
  property `EndedCallsAreSilent`. `PausesDouble` adds that the backoff
  a call still has is due (`BackoffIsDue`): doubled as often as it was slept.
  `RefinesRemoteCall` maps every step of the
  loop to a step or a stutter of `RemoteCall`; it needs the invariant because
  `Reissue` must stay within the limit and `Execute` must act on a request that
  was issued.
* `LazyContractProofs`, from `TasksAssumption` (any tasks, any wrappers, any
  number of upgrades). `IInv` adds to the checked invariants that the permit is
  taken exactly while one task holds it, the semaphore is closed exactly when
  the cell is set, nobody waits at a free permit, and a reply is no older than
  the call it answers. `FetchesOnce`, `ClonesAlwaysAgree`, `WakeupsAreNotLost`,
  `FetchersAreFresh` and `RefinesOnceRegister` follow.
* `ReleasePublishProofs`, from `OrderAssumption` (every crate is listed behind
  the workspace crates it depends on) and `RunsAssumption`: any workspace, any
  number of runs, any environments. `IInv` adds that a run in the loop has seen
  in the index every selected crate before its own (`SeenBehind`), and that an
  undisturbed run is the only one, with nothing ahead of the index but its own
  upload while it polls (`Alone`). `StepEffect` says what a step does to the run
  that takes it: it ends for a stated reason, turns to the next crate, or stays;
  the rest follows from that. `DoneIsVisible`, `DependenciesComeFirst` and
  `RunsResume` are its results.

* `TransactionFlowProofs`, from `BuildersAssumption` and `BoundsAssumption` (any
  intents, any builders, any labels and bounds; the chain may have at least one
  block). `IInv` adds to the checked invariants what a builder has seen of the
  chain (`BestSeen`), which reads are behind it (`ReadsMade`), that what is
  submitted was built for its intent (`TxBuilt`, `SubmittedBuilt`), that the node
  mines only what it accepted and accepts only what was submitted
  (`AcceptedSubmitted`), and that its verdicts are true (`VerdictsTrue`).
  `RefBlocksCohere`, `SuccessMeansAccepted` and `ReadsStayInOrder` follow.
  `EffectsBounded` is a counting argument: the transactions of an intent that
  exist anywhere are no more than were built (`MadeCounted`), and what is mined
  is among them (`MinedMade`).
  `SubmissionsAreCalls` shows that every step of the flow is a step of
  `RemoteCall` or leaves its variables alone. A conjoined action does not make
  it so by itself: the step must be one of a call that exists, which `TypeOK`
  says. With `RefinesRemoteCall` this is the safety argument for putting
  `RemoteCall` in the transport's place.
* `SyncProtoProofs`, from `FilesAssumption` (any files besides
  `authority_info.proto`): `Progress` says, command by command, how the two
  directories relate to the clone, whatever they held when the run began.
  `TypeCorrect` and `SyncComplete` follow.
* `KeystoreProofs`, from the eight assumptions of `Keystore` (any wallets,
  passwords and options, any files of other SDKs, any number of alterations, any
  memory, any length from which on MAC keys do not collide).
  `IInv` says of a file as it was made what is in each of its fields (`Sealed`),
  and that no alteration has given it a MAC but the one it was made with, that
  of nothing or that of no key (`FileTrue`). A MAC of no key is refused wherever
  a protected file is read (`UnkeyedRefused`), and of two keys long enough the
  MACs match only if the keys are the same (`MacOther`). The rest is algebra: a key stream cancels itself,
  CBC gives back what went in for texts of any number of blocks (an induction
  along the chain, `DecryptEncrypt`), and equal MACs mean equal keys and
  ciphertexts (`MacInjective`). `OwnPasswordOpens`, `OtherPasswordsRefused`,
  `AlterationsNoticed` and `TypeCorrect` follow.
* `CodecProofs`, from `KeyAssumption`, `LimitAssumption`, `WordsAssumption`,
  `DescriptorsAssumption` (no two fields of a message have one JSON name, which
  protobuf demands) and `InputsAssumption`. The model checker looks at small inputs; here the inputs
  are of any size, and the proofs go along the recursion of each algorithm:
  - `IdsRead`: what trimming and stripping remove from a response is only
    white space and quotes (`Covers`), so what remains of it (`Solid`) is an
    invariant of every step;
  - `HeightsAreRead`: each key that is read stands for one hash
    (`StandsFor`), and no two for the same; an entry that cannot be read makes
    the map an error, which no later entry cures (`MapIsRefused`);
  - `FeesCharged`: after each log the map holds the last charge so far;
  - `AddressesRead`: by the number of parts of a text;
  - `KeysSign`: leading zeros do not change the number that digits stand for;
  - `JsonPassesThrough`: `Carried` follows one value through normalisation, the
    message and back, at every depth. It is more than the property: a value must
    also be a default value after normalisation exactly if it was one before, as
    otherwise a field could be left out of the message. Lists and maps hold when
    their items do (`ItemsCarried`), messages when their fields do
    (`MessageCarried`), and the induction is over the depth (`AllCarried`). That
    the functions of the depth exist is `JsonWalkExists`;
  - `AmountsExact`: `Digits[n]` stands for `n`, and cutting it at a decimal
    divides by a power of ten;
  - `ScryptIsScrypt`: the places results are put in are a permutation
    (`PlacesDiffer`), so a mixed chunk keeps nothing of what it held before; when
    the second loop begins the scratch memory holds RFC 7914's V
    (`FilledIsRfc`); and both then walk through the same chunks.
* `SetInduction` states induction of sets instead of predicates, which is the
  form these provers can instantiate: an argument about a recursive function is
  one about the set of its good arguments (`NatSetInduction`,
  `BoundedInduction`, `StrongInduction`), and `ChainExists` gives the function
  itself.

Only model-checked: the liveness properties (`EveryCallEnds`,
`EveryCallAnswered`, `EveryRunEnds`, the fairness part of
`ImplementsRemoteCall`), which are beyond this prover.

## Plan

All modules of the plan are written, and every invariant and every action
property the passing runs check is proved for all values of the constants. What
is open is liveness, which stays with TLC.

## Not modelled

* Elliptic curves, hashes, ciphers, key derivation, protobuf encoding: they are
  computation over bytes, out of a model checker's reach, and symbolic where
  they are used. Hashes are taken not to collide, and derived keys not to, but
  for parts of them that are shorter than `MacBytes`.
* Mnemonics and derivation paths, and the chain id codec: one call each into a
  library.
* Headers, URLs, error texts, redaction and zeroising.
* The services of the client one by one: each is one request and a decoding by
  serde, and differs from the others in its path and its table of fields. The
  same holds for the methods of the typed wrappers beyond the shared descriptors.
* Which of two services of a pool offers a method of one name: the order is
  prost_reflect's.
* The constructors of the facade, the generated bindings, the examples and the
  tests.
