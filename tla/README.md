# A verification of revm-wasm in TLA+

revm-wasm is the Rust EVM `revm` compiled to WebAssembly, with a small Rust
engine around it (`src/crates/core`), a wasm module with a C-like interface
(`src/crates/wasm`) and a typed JavaScript package (`src/packages/revm-wasm`).
The EVM itself is revm's.  What this repository adds, and what is modelled here,
is everything between revm and the embedder: how a source becomes an instance,
what a caller's options turn into, how state is read and committed through host
functions, what is kept between calls, how two languages share memory and
exchange two binary formats, and the store that is shipped.

## The system

| Component | State it keeps | Operations | Interacts by |
| --- | --- | --- | --- |
| State commit, `HostDatabase::commit` | the embedder's state | `clear_storage`, `remove_account`, `set_code`, `set_account`, `set_storage` for each account in address order | synchronous host calls; each may throw |
| Host reads, `HostDatabase` as `Database` | `original_code_hash`, by address | `basic`, `storage`, `code_by_hash`, `block_hash` | host calls |
| Persistent engine, `CallExecutor`, cached by `run` | block and config environment, precompiles, journal, the key it was built for | `new`, `apply_env`, `begin_tx`, `transact`, `transact_one`, `finalize` | called by the exports, calls revm |
| Precompile selection, `FixedPrecompiles` | the map of the spec the engine was built for | `set_spec`, which keeps it | called by revm |
| Wasm exports and module state | `RefCell` over request buffer, outcome buffer, engine | `request_buffer`, `execute`, `execute_light`, `ecrecover`, `outcome_ptr` | linear memory shared with JavaScript |
| `Revm` class | a cached view of linear memory, defaults, what the artifact can do | `call`, `transact`, `create`, `executeRaw`, `recoverSigner` | calls the exports in a fixed order |
| Store adapter, `storeToHostFunctions` | a cached view and scratch buffers | the ten host functions | reads and writes linear memory, calls the store |
| `MemoryStore` | maps of accounts, code and storage by account | `get*`, `set*`, `clearStorage`, `removeAccount` | called by the adapter |
| Request codec | none | `encodeRequest`; `decode_request`, `TxExtras::decode`, `build_tx`, `apply_block` | a byte blob |
| Outcome codec | none | `encode_outcome`, `encode_outcome_light`, `encode_validation_error`; `decodeOutcome` | a byte blob |
| Loader | bytes, module, the binding of host functions to an instance | `createRevm`, `createRevmSync`, `compileResponse`, checks of ABI and options | `WebAssembly`, promises |
| Build script | none at run time | looks up revm in `Cargo.lock`, names the features | strings in the artifact |
| Spec table, standalone ecrecover | none | -- | -- |

What is hard about it:

* a commit is many host calls, and each is code of the embedder that may look at
  the state or throw.  A throw unwinds through wasm frames without running
  destructors, so the state stays half written and the `RefCell` stays borrowed;
* the engine outlives the request.  Environment fields, the journal, the record
  of original code hashes and the outcome buffer all survive a call and must
  have no influence on the next, through rejections and light calls too;
* host functions may call back: into another instance of the page, or into the
  very instance that is waiting for them;
* memory may grow at any allocation, which detaches every view JavaScript holds;
* both formats are sequential, with counts, lengths and flag bits that decide
  what follows.  The two ends are written in different languages, and so are the
  tables of flags and hardforks;
* a request has two spellings, with and without its extras section, and must mean
  the same in both; whether a switch does anything depends on how the artifact
  was built;
* length arithmetic of the request decoder is 32-bit in the artifact;
* loading is asynchronous, a response can be read once, and the options belong to
  a caller who may change them meanwhile.

What makes each component correct is stated by the properties below;
PROJECT.json lists the hazards with their lines, and the properties that would
catch each.

## The modules

    HostStore <- Journal <- Commit <- CommitProofs
        ^           ^---- AtomicState (abstract, Commit implements it)
        |           ^---- OutcomeCodec <- MCOutcomeCodec, OutcomeCodecProofs
        ^---- HostFunctions <- MemoryStore <- MCMemoryStore, MemoryStoreProofs
        ^---- StoreSpec (abstract, MemoryStore implements it)

    Wire <- Request <- Executor <- MCExecutor, ExecutorProofs
      ^        ^---- Stateless (abstract, Executor implements it)
      ^---- RequestCodec <- Api <- MCApi, ApiProofs
    Build <-----------------'
      ^---- Loader <- MCLoader, LoaderProofs

    Instance <- InstanceProofs
    RequestBounds <- MCRequestBounds, RequestBoundsProofs

| Module | Models | How it corresponds to the code |
| --- | --- | --- |
| `HostStore` | the embedder's state and the host interface | one operator per host function. `purse` is balance and nonce together, of which the commit only asks whether both are zero. Code is told by its hash. |
| `Journal` | revm's `EvmState`, `account_is_deleted`, the entries of the blob, and what a host must do to apply a blob (`Applied`, from the contract in `types.ts`) | `RevmAccount` is external: what revm 42 may return for an address, over-approximated by the flag combinations the code can meet. `Entry` is the loop of `encode_outcome`. |
| `Commit` | `HostDatabase::commit` after an execution | `phase` is the place in `commit_account`; every host call is one action, and `Throw` may replace any of them. Slots are written in any order, since they come out of a map. |
| `AtomicState` | what the package promises about the state | the state changes by a whole blob, or up to one address after a throw. |
| `Wire` | flag bits and hardfork numbers, on the side of the artifact | a flag word is the set of its bits. |
| `Request` | requests, `EnvOf` (the environment a request asks for) and outcomes | `spec_from_u8`, `ValidationSwitches::from_flags`, the defaults of `apply_block`. |
| `Executor` | `run`'s cached engine and `CallExecutor` | `new`, `stale`, `apply_env`, `set_spec`, `begin_tx`, `finalize` are functions of the engine record, named as in the code; each way through `execute` and `execute_light` is an action. revm loads any accounts (`Load`) and gives them any fate. |
| `Stateless` | what the engine promises | a request that was accepted is answered by a function of it and of the state, and refused or served once; there is no engine. |
| `RequestCodec` | `encodeRequest` and `encodeExtras`; `decode_request`, `TxExtras::decode`, `build_tx`, `apply_block` | options are functions whose domain is the fields the caller wrote, so `??` and `!== undefined` are what they are in the code. Numbers saturate at their width, bytes are truncated. |
| `Api` | `call`, `transact`, `create`, through `Revm.#run` to the accounts | flags of each entry point, the combinations refused, the request through `RequestCodec`, revm's rules, the commit account by account, which a throw may cut short; the embedder tries again with a new instance. `paid` and `torn` are ghosts. |
| `Build` | `build.rs` and the names of the features | the first package called exactly `revm`, and what an artifact says of itself. |
| `Loader` | `createRevm`, `createRevmSync`, `toModule`, `compileResponse`, `instantiate` | `phase` is the `await` a load is at. The network, the platform and the embedder who changes his options are external. |
| `Instance` | `executeRaw` and `recoverSigner`, the exports with their `RefCell`, the adapter, memory growth | one JavaScript thread, so calls are a stack of frames, each with its place in the code. A request and its outcome are told by the number of the call. A view is the generation of memory it was taken of. `lost` is a ghost: the instances an exception went through. |
| `OutcomeCodec` | `encode_*` and `decodeOutcome` | the encoder is an operator giving a sequence of fields, the decoder a machine taking one head, log or account at a time. Widths of single fields are left out; counts, lengths, flag bits and order are kept. |
| `HostFunctions` | how an account and a block number cross | a balance as four limbs, shifted out on one side and put together on the other; a block number as two halves that JavaScript takes for signed. |
| `MemoryStore`, `StoreSpec` | the shipped store, behind its host functions, and the store the module expects | maps are functions whose domain is the keys they hold. `call` is a ghost: without it, a write that is dropped would pass for a stutter. |
| `RequestBounds` | lengths, counts and offsets of a request on both ends | parts are their sizes; wherever a number is read from a blob the package did not make, it may be any. Additions and multiplications are modulo `Usize`; a slice or a vector out of bounds traps. |

`MC*` modules only give constants their values.  Definitions whose name has a
suffix (`FirstPhase_InheritsStorage`) are plausible mistakes in the definition
they are written beside.  Nothing uses them; PROJECT.json says which property
fails when one takes the place of the real definition.

## What the runs show

| Run | Properties | Shows |
| --- | --- | --- |
| `Commit` | `TypeOK`, `CodeBeforeAccount`, `NoOrphanStorage`, `CommitMatchesBlob`, `BlobCarriesNewCode`, `OnlyTouchedWritten`, `ImplementsAtomicState` | At every host call of every commit, finished or not, code can be fetched for every account, and no storage is left without an account. A host that applies the blob and a host that lets the module commit end up with the same state. A throw leaves whole accounts but for one. |
| `Executor` | `TypeOK`, `NothingInherited`, `ReadsAreCurrent`, `CodeReportedIffChanged`, `ImplementsStateless` | Whatever came before (other specs, simulations, rejections, light calls, throws), a request runs in its own environment with the precompiles of its own spec, on what the host says now, and reports code exactly where it changed. |
| `Api` | `TypeOK`, `AskedIsServed`, `SwitchesHonoured`, `NothingInvented`, `PaidOnce`, `CommittedIsValid` | What revm is given is what the options say, by the comments of their types. A rule is skipped exactly if that was asked for, on artifacts with and without the switches. What is written is valid and invents no funds. A payment sent again is made once, but for one kind of torn commit. |
| `Loader` | `TypeOK`, `FailsForCause`, `OneReading`, `LoadedIsWhatItSays`, `Settles` | A load fails for the network, for its bytes and options, or because its response was given to someone else too, and for nothing else. It settles once its bytes are there or will not come. |
| `Instance` | `TypeOK`, `OneAtATime`, `OwnOutcome`, `AnswersLand`, `AddressHeld`, `ThrowsForCause`, `AbandonedStaysSilent` | With two instances, callbacks into both, exceptions and growth: a returned outcome is that of its own request, a call fails only by a throw of a store or for an instance that is borrowed, answers of the host go into the right and live memory, a borrowed address buffer is not overwritten while a store uses it, and an instance that was thrown through never answers again. |
| `OutcomeCodec` | `InStep`, `RoundTrip`, `Canonical` | The decoder is in step at every field, what it returns is what was executed, and accounts and slots come sorted whatever the order of the maps. |
| `MemoryStore` | `ZeroIsAbsence`, `ImplementsStore` | Through its host functions the store answers as the abstract one after any sequence of writes, and never holds a zero. |
| `RequestBounds` | `EncoderAgrees`, `TrapsOnlyOnHugeNumbers` | What the package encodes is accepted to the last byte; a blob that is cut short or says too much is refused, unless a number in it is huge. |

Four runs show where the code does something other than what is said of it:

* `CommitEip161` (`ClearsOnlyFromEip161`).  `account_is_deleted` treats every
  touched empty account as cleared, on the ground that revm has cleared the touch
  flag of such accounts before EIP-161 (`crates/core/src/lib.rs:377-380`).
  `Journal::finalize` does that for an account that exists; one that did not is
  marked created and left touched.  A call of no value to it, under a fork before
  SPURIOUS_DRAGON, which creates it there, is reported deleted and committed as a
  removal.
* `OutcomeLight` (`UndefinedWhenLight`).  A call with `returnState: false` that is
  rejected comes back with a full-shape blob, so `stateChanges` is an empty list
  and not undefined, as `types.ts:289` has it.
* `RequestTraps` (`NeverTraps`).  A request whose length field wraps around, or
  whose count asks for more than a vector can hold, traps; the comment on
  `revm_wasm_execute` (`crates/wasm/src/lib.rs:383-385`) says it never does.  Only
  a caller of `executeRaw` with bytes of his own can meet it: `EncoderAgrees`
  covers everything the package encodes.
* `ApiForks` (`UnknownForkIsCancun`).  A hardfork may be given as any number, and a
  number is cut to a byte before the artifact looks it up: 268 runs as PRAGUE (12)
  and not as CANCUN, which `spec.ts:10-12` promises for an unknown one.
  `AskedIsServed` says the rest: known ones run as themselves, and unknown ones
  that fit in a byte as CANCUN.

What the passing runs had to allow for is worth knowing, too:

* `PaidOnce` has an exception.  A commit writes accounts in the order of their
  addresses; if the store throws after it wrote the recipient and before it wrote
  the sender, the nonce is still unspent, and a caller who sends the payment again
  pays twice.  It takes a recipient whose address sorts before the sender's.
* `OneReading` is about what is read after the load has waited: store and
  defaults.  The source is read before, so a caller who reuses the object of the
  options meanwhile gets the module of the old ones with the rest of the new.
* `FailsForCause` says why a load fails, not what is reported: when bytes that do
  not compile are streamed, `compileResponse` catches that error and goes on to
  read the body again, so its caller sees that the body was used already.

### Bounds, and why they are enough

* `Commit`: two addresses, one slot, values zero and not zero, one contract, funds
  and no funds, every well-formed state to start from and every state revm may
  return.  Two addresses give the order between accounts and a torn one beside a
  whole one; state persists over commits, so storage left by one transaction and
  contracts created by the next are met.  A second slot in both is more than TLC
  can do in reasonable time, and what it adds, that slots are written in any
  order and a throw may come between them, is in the proofs: they are for any
  set of keys.
* `Executor`: two addresses, two spec bytes, one of them unknown to the artifact,
  two chain ids, a transaction and two simulations as flag words (one with a bit
  of a later version), two values for a block field and the field left out, any
  number of requests.  What is inherited shows after two requests; the state has
  no counter, so all longer histories are in the run.
* `Api`: four addresses, one of them a contract; two artifacts, with and without
  the switches; two sets of defaults.  An embedder makes any sequence of the calls
  of one program: `Ledger` moves funds both ways, sends again, with and without
  the nonce and with switches; `Simulations` has every pair of switches, with
  transactions that break any rules; `Shapes` has every option there is, alone and
  in company of each of four others, with zero, small, negative and too large
  numbers.  `MaxNonce` 2 lets a payment be followed by another and be sent again;
  `MaxThrows` 1 is the throw between recipient and sender (a proof covers any
  number).  `ApiForks` asks for nothing but hardforks.  `U64`, `U128` and `U256` stand for the largest numbers of their widths:
  what matters is that they are in that order and above the default gas limit.
* `Loader`: two loads and two responses, the second load after the first one's
  response: a body is read by oneself, by nobody or by another.  Options change
  once while a load waits; two states of them are all a single late read can mix.
  Three artifacts a response may bring, five altogether: pinned, of a registry,
  without a lock file, of a newer ABI, and garbage.
* `Instance`: `MaxCalls` 4, `MaxDepth` 3, `MaxGrowth` 1.  Three frames are an
  outer call, a call of the other instance out of its host function, and a call
  back into the first; a fourth call follows an exception.  One growth detaches
  every view there is, and may come with any allocation, a recovery's included.  The run ends when calls are used up, so deadlock is not
  checked there, nor is it in any sense a question: the stack empties by itself.
* `OutcomeCodec`: up to two logs (with and without topics and data), two accounts,
  two slots each, with and without code, every order of iteration.
* `MemoryStore`: two addresses with two slots each.  Limbs of one bit and halves
  of two, with balances no two limbs of which agree in both, and block numbers
  whose halves are negative as an i32.
* `RequestBounds`: `Usize` 65536 in place of 2^32, which scales `usize` and
  `isize::MAX` alike.  Lists have up to two parts, and numbers are small, exact,
  wrapping to zero, to one and to before where they started, and the largest.
  Allocations up to `isize::MAX` bytes are taken to succeed: what an engine does
  when memory runs out below that is not in the code.

### Fairness

One run assumes any.  `Loader` assumes weak fairness of `Step(l)` for each load: a continuation whose
promise is settled is a job the platform runs.  Nothing is assumed of the network
or of the embedder, and `Settles` asks nothing until the bytes are there or have
failed to come: a server that never answers keeps its caller waiting, as the code
has no timeout.

All other properties are safety properties and assume nothing.

## What is proved

Eight modules hold proofs, for all values of the constants, from the named
assumptions of the modules they are about.  TLC evaluates all of these in the
runs.  They are

* that constants which stand for different things differ, and that addresses are
  ordered as numbers (`StoreAssumption`, `AbsentAssumption`, `NotLoadedAssumption`,
  `RequestAssumption`, `InstanceAssumption`, `ApiAssumption`, `NoneAssumption`);
* that widths are in order and a balance fits its four limbs (`CodecAssumption`,
  `WidthAssumption`, `PurseAssumption`);
* that options, defaults and sources have the types the package declares
  (`OptionsAssumption`, `DefaultsAssumption`, `SourcesAssumption`): a number may be
  any, but for a transaction type, which EIP-2718 gives one byte, and a parity,
  which `types.ts:33` has as 0 or 1.  Results, messages and changes have those of
  revm (`ResultAssumption`, `ChangesAssumption`,
  where addresses and keys are finite sets, being so many bytes each);
* that no artifact the `Api` is used with is an ablated one, which
  `crates/core/Cargo.toml:70` says is never shipped (`ArtifactsAssumption`);
* that of the packages in a lock file at most one is called exactly `revm`, which
  is the one that is linked (`CargoAssumption`; `Cargo.toml` asks for one);
* that a usize has at least 16 bits and numbers fit in one (`BoundsAssumption`),
  and that what the package sends has room in memory (`HonestAssumption`): a
  request was written into the request buffer, a vector of the module
  (`crates/wasm/src/lib.rs:361-370`), before it is decoded, so it is not larger
  than a vector can be, nor are the lists in it.

| Theorem | Statement |
| --- | --- |
| `CommitProofs!TypeCorrect` | `Spec => []TypeOK` |
| `CommitProofs!CodeComesFirst` | `Spec => []CodeBeforeAccount` |
| `CommitProofs!NoStorageLeftBehind` | `Spec => []NoOrphanStorage` |
| `CommitProofs!CommitIsTheBlob` | `Spec => []CommitMatchesBlob` |
| `CommitProofs!NewCodeCarried` | `Spec => []BlobCarriesNewCode` |
| `CommitProofs!UntouchedUnwritten` | `Spec => OnlyTouchedWritten` |
| `CommitProofs!CommitIsAtomic` | `Spec => ImplementsAtomicState` |
| `ExecutorProofs!TypeCorrect` | `Spec => []TypeOK` |
| `ExecutorProofs!NeverInherits` | `Spec => []NothingInherited` |
| `ExecutorProofs!ReadsHost` | `Spec => []ReadsAreCurrent` |
| `ExecutorProofs!CodeExact` | `Spec => []CodeReportedIffChanged` |
| `ExecutorProofs!Refines` | `Spec => ImplementsStateless` |
| `ApiProofs!ApiTypes` | `Spec => []TypeOK` |
| `ApiProofs!SwitchesAlwaysHonoured` | `Spec => []SwitchesHonoured` |
| `ApiProofs!OnlyValidCommitted` | `Spec => CommittedIsValid` |
| `ApiProofs!PaymentsOnce` | `Spec => []PaidOnce` |
| `ApiProofs!OptionsArrive` | `Spec => []AskedIsServed` |
| `ApiProofs!FundsNotInvented` | `Spec => []NothingInvented` |
| `InstanceProofs!BoundaryTypes` | `Spec => []TypeOK` |
| `InstanceProofs!NeverTwoAtATime` | `Spec => []OneAtATime` |
| `InstanceProofs!OutcomeIsOwn` | `Spec => []OwnOutcome` |
| `InstanceProofs!ThrowsAreDeserved` | `Spec => ThrowsForCause` |
| `InstanceProofs!AnswersAlwaysLand` | `Spec => []AnswersLand` |
| `InstanceProofs!AddressAlwaysHeld` | `Spec => []AddressHeld` |
| `InstanceProofs!AbandonedForever` | `Spec => AbandonedStaysSilent` |
| `MemoryStoreProofs!ZeroNeverHeld` | `Spec => []ZeroIsAbsence` |
| `MemoryStoreProofs!StoreImplemented` | `Spec => ImplementsStore` |
| `LoaderProofs!FailuresHaveCause` | `Spec => []FailsForCause` |
| `LoaderProofs!OptionsReadOnce` | `Spec => []OneReading` |
| `LoaderProofs!LoaderTypes` | `Spec => []TypeOK` |
| `LoaderProofs!ReportsItsArtifact` | `Spec => []LoadedIsWhatItSays` |
| `OutcomeCodecProofs!AlwaysInStep` | `Spec => []InStep` |
| `OutcomeCodecProofs!AlwaysRoundTrip` | `Spec => []RoundTrip` |
| `OutcomeCodecProofs!AlwaysCanonical` | `Spec => []Canonical` |
| `RequestBoundsProofs!SizesAgree` | `Spec => []EncoderAgrees` |
| `RequestBoundsProofs!TrapsOnlyOnHuge` | `Spec => []TrapsOnlyOnHugeNumbers` |

*Commit.*  Neither safety property is inductive.  The storage of an account that
is about to be removed is empty only because `clear_storage` came just before,
and an account may refer to code only because either it was there before, or
`set_code` came just before.  `SafeInv` says so: with `TypeOK` it has
`JournalSound` (every journalled account agrees with the state the execution
*began in*, which by now may be half overwritten: slots it loaded had the values
they had there, and code it does not bring along is code it had there), code held
by that state and never taken away since, and `Prepared`, what the host calls
before `phase` have already done for the account at `cur`.  Lemmas on the reads
and writes of `HostStore` and on what revm may return (`RevmAccountSound`) come
first; then one lemma per action.

*The blob.*  `CommitMatchesBlob` is about the end of a commit, so its invariant
has to say how far it has come.  `BlobInv` adds to `SafeInv` that the blob is that
of the journal (`Faithful`), and `Progress`: addresses not yet dealt with are as
before, those dealt with are as the blob has them, and `Midway` gives the account
at `cur`, slot by slot, from `phase` and `left`.  `EntryApplied` is the heart: for
each fate of an account, what a host does with its entry is what the commit
writes.  For the refinement `InOrder` adds that addresses come in order, so that
at a throw those below `cur` are done and those above untouched; the account at
`cur` has each slot old, new or cleared (`TornAccount`), which is `Atomic!Tear`.

*Executor.*  The invariant `Inv` has `Keyed` (spec and chain of the config are
those of the key the engine is cached under), `Running` (while a request is
served the environment is that request's, and the journal is what the host says),
`Recorded` (on the full path, the record of original code hashes gives every
journalled account the hash it was loaded with), and an empty journal between
calls.  It says nothing of the record between calls, nor on the light path,
because there it may hold anything: that `begin_tx` clears it, and only the full
path reads it, is what the proof rests on.  `Refines` maps every step to a step
of `Stateless` or to a stutter.

*Api.*  Lemmas follow a request from the options to revm: `ExtrasFields` shows
that leaving the extras out says the same as sending them, `FlagsSayIt` that every
bit comes out as the option that was put in.  `SwitchesHonoured` then follows from
what `refused` keeps out.  The other properties are not inductive: `CallInv`
remembers that the call under way is the encoding of one that was not refused
(`Sent`), that the rules it breaks are those it broke when it was checked, until
its first account is written (`Fresh`), and what is still to be written
(`Writing`).  `PaidInv` says, for each payment not torn, that its nonce is spent
if it was made, and while it lands which of recipient and sender is written; the
order of addresses enters where a throw makes it torn.  `OptionsArrive` is the
other half of the way of a request: each field of the call revm is given is the
one the comments of the types describe, whichever of the two spellings was sent.

`NothingInvented` is about the sum of all balances, a fold over a finite set of
accounts.  `Sums` gives every subset its sum, by the account `CHOOSE` takes from
it; that the sum does not depend on the order, and how it changes with two
balances, is shown by induction over the size of the subset, as the least one for
which it fails.  `LedgerInv` then follows the funds through a commit: what is
written and what is still to be written together (`Settled`) never exceed what was
there when the call was checked.

*Instance.*  `BoundaryInv` adds to the types what each frame may rely on at its
place in the code (`Good`): one that executes has the borrow, one between writing
its request and collecting its outcome finds in the buffers what it put there, one
in a host function has the live view and its address.  That only the frame on top
touches its instance, because the borrow turns others away, is `OneAtATime`,
which is part of the induction.  `Stuck` says that a borrow an exception left
behind is never given back.

*MemoryStore.*  The reads of a map after `Put` and `Delete`, and the arithmetic of
limbs and halves for any radix (`Limbs`, `NumberArrives`), give a step of
`StoreSpec` for each write.

*Loader.*  `LoadInv` says what a load holds at each `await`, and for a body that
was read before a load could read it, that another load was given it or that it is
spoilt, in which case the load may have read it itself while streaming (`Reads`).
`ReadingInv` adds that an instance was made from the options as they are when it
is made, after which nobody changes them.  `TypeInv` adds to the types that what
an instance reports is read from the very bytes its source turned out to be
(`SpeaksOfItsCargo`); that the report is true of them is then a matter of `Build`,
where the first package called `revm` is looked for.

*Request bounds.*  `TrapsOnlyOnHuge` is about any blob.  `Inside` says where the
decoder may be: as long as no number was read that is too big for a vector
(`Small`), no sum has wrapped, so offsets stay in order and inside the blob.
`SizesAgree` is about the blobs the package makes.  `Honest` keeps the lengths the
call was encoded from (`With`) and says at each place what the blob has yet to say
(`Reading`) and how many bytes of the extras are left for it (`Among`): the sum of
the key counts from the present entry on (`Rest`), blob hashes, authorizations and
randao.  Every check for room is then an inequality between parts of one sum.

*Outcome codec.*  `Layout` describes the blob of an outcome place by place: a head,
the logs each at its place `lo[k]`, the bloom, the account count at `c`, the
accounts at `ao[k]`, the price.  `OutcomeLayout` shows that what the encoder
concatenates has this layout, for any number of logs, topics, accounts and slots.
The library gives no theorem for a flattened list, so `FlattenSpans` does: its
partial concatenations are a function (`Flats`), and the parts lie one after the
other in it, by induction as above.  That one of the
iterations ascends, and that `sort_by_key` gives such a one, is `AscendingExists`
and `Sorts`, by counting for each key those below it.  The
inductive invariant is `Followed`: there are places such that the blob is laid out
as `Layout` says of what was told, and the decoder is at one of them with exactly
what came before it decoded.  It yields all three properties: at every place
what is needed fits, at the end everything is there, and in order.
`sort_by_key` is written as the ascending one of the iterations, since what the
library's sort computes is recursive and cannot be expanded in a proof.

Only model-checked:

* `Settles` is liveness, which is out of the provers' reach.  `Loader` is otherwise
  proved;
* that the four violations are met: a run shows each by a counterexample.

Induction over data is used only where a least counterexample can stand for it
(sums, flattened lists, enumerations): theorems of the library that take an
operator as parameter cannot be instantiated by the provers at hand.

## What is not modelled

* revm itself, the EVM, gas, fees and precompiles: a dependency.  What it can
  hand back is `Journal!RevmAccount`, what it can load and reject is in `Executor`,
  and the rules and the transfer that the code here depends on are in `Api`.
* Cryptography (`ecrecover` is an answer or none), formatting of error texts,
  widths and endianness of single fields of the two formats.
* Ablation features and packaging: measurements, never shipped.  `Api` assumes
  away artifacts that have any; the shipped feature set is the one modelled, with
  and without `relaxed-validation`.
* Raw `HostFunctions` given by an embedder in place of a store: that they answer
  correctly is up to the embedder.
* The outcome format version: an artifact says which one it writes, and the
  package keeps it in `info` and compares it with nothing.  There is one format,
  so there is nothing to misread yet; it is listed as a hazard.
* Options outside their types: a fixed-size field that is too long (`copyRight`
  throws), a block field written as `undefined` (it hides the default), a transaction
  type above 255 (it is cut to a byte).

## What is left

Every component whose state changes is modelled, and every safety property the
runs check is a theorem.  What would add to this: widths and endianness of single
fields, should one ever differ between the two languages; an abstract
specification of a call from options to state that `Api` and `Commit` together
implement; and a second outcome format, when there is one.
