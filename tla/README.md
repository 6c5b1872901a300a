# A verification of Vanadium

Vanadium runs applications (V-Apps) in a RISC-V virtual machine on a Ledger
device. The device has little memory, so a V-App's code, data and stack live on
the host, in pages that the VM fetches, verifies, caches, encrypts and sends
back. V-Apps are written against an SDK with an executor, screens, messages and
cryptography; the largest of them is a Bitcoin wallet. This directory holds TLA+
models of these parts, TLC configurations that check them on small instances, and
proofs, checked by TLAPS, for all instances.

Paths below are relative to the repository's root. Line by line, the
correspondence between definitions and code is the `map` of `PROJECT.json`; its
`hazards` are what the properties are for.

## 1. The system

```
   host program
        | send_message (client-sdk/src/comm.rs): chunks and ACKs
        v
   VanadiumAppClient --queue--> worker_loop        SyncVanadiumAppClient
                                    \                    /
                                     v                  v
                                VAppEngine (step by step)
                                 |  segments, Merkle trees, HMAC file
   ------------------------------|------------------------------ APDUs ----
                                 v
   VM: main loop --- interrupt / Continue --- handlers
        |  start_vapp: Cpu, three OutsourcedMemory (code, data, stack)
        |  ECALLs: xsend, xrecv, storage, screens, cryptography
        |  flash: authentication key, V-App store
        v
   V-App: App::run_loop, executor, screens, receive_message / send_message (app-sdk)
        |
        v
   Bitcoin V-App: accounts, identities, PSBTs, MuSig2 (apps/bitcoin)
        |  fastpsbt, wallet policies (bip388), scripts, secp256k1, bignum and curve
```

There is one APDU in flight at a time. The VM answers an APDU either with its
final status, or with `InterruptedExecution` and a *client command* (get a page,
commit a page, take a buffer, give a buffer), and then waits in `interrupt`
(`vm/src/io.rs`) for a `Continue` APDU with the answer. Any other APDU aborts
what the VM was doing.

### Components, their state and what makes them correct

| Component | State | Operations | Correct when |
|---|---|---|---|
| Outsourced memory, `vm/.../outsourced_mem.rs` | per section: cache slots (index, content, hash, valid, modified), Merkle root, last accessed page; one nonce counter | `get_page`, `commit_page_at`, `load_page` | an access sees the last write, whatever the host answers; hashes and shortcuts are never stale; nonces are never reused |
| Page server, `client-sdk/src/vanadium_client.rs`, `memory.rs` | segments of serialized pages, Merkle trees, code HMACs | `process_get_page`, `process_commit_page` | the VM's checks succeed; every exchange ends |
| Eviction, `vm/.../evict.rs` | time stamps, 2Q states, queue of evicted pages | `on_access`, `on_load`, `choose_victim`, `on_invalidate` | the order is that of LRU or 2Q; there is always a victim |
| Flash cells, `vm/src/nvm.rs` | flag and value | `initialize`, `update`, `clear` | a valid flag means a whole value, after any power failure |
| V-App store, `vm/src/vapp.rs`, `auth.rs`, storage ECALLs | entries with hash, name and storage slots; authentication key | `register`, `uninstall_all`, storage read and write | one entry per name; a V-App reads its own last write; one key for ever |
| V-App engine and clients, `client-sdk` | last answer, pending buffer, worker's queue and pending call | `step`, `send_message`, `start_vapp`, `stop_vapp`, `get_app_info` | every call returns; a response belongs to its request; the engine knows what the device waits for |
| Message protocol, `app-sdk/src/comm.rs`, `client-sdk/src/comm.rs` | message received or sent so far | `receive_message`, `send_message` | messages of several chunks arrive whole |
| Preloading and HMAC file, `vm/.../preload_vapp.rs`, `client-sdk/src/hmac_auth.rs` | hashes received, masked HMACs, secret of the session; a file | `preload_vapp`, `CodeHmacs::load`, `save` | HMACs are revealed only for the manifest's code pages; a V-App runs with current HMACs only |
| Buffers, `handle_send_buffer`, `handle_xrecv` and their counterparts | bytes left | `xsend`, `xrecv`, chunk by chunk | buffers arrive whole; nothing is written outside of them |
| Merkle tree, `common/src/accumulator.rs` | leaves and nodes | build, prove, update, verify, stream | proofs verify for their leaf only |
| Processor, `common/src/vm.rs`, `common/src/riscv` | registers, segments, LR/SC reservation | decode, `execute`, `fetch_instruction` | as the RISC-V manual says; accesses stay in segments |
| ECALLs, `vm/.../ecall.rs`, `app-sdk/src/ecalls_native.rs` | the V-App's memory | big numbers, curve, keys, signatures, hashes | device and native build agree on documented arguments; a result may overwrite an operand |
| Screens, `vm/.../ux_handler.rs`, `app-sdk/src/ux.rs` | the screen, one stored event | `show_page`, `show_step`, `get_event` | an event belongs to the screen it is applied to |
| Executor and loop, `app-sdk/src/executor.rs`, `app.rs` | task list, handles, view | `spawn_task`, `take`, `drop`, `poll_once`, `run_loop` and its flows | no future outlives what it borrows; no handle spins for ever |
| Bitcoin V-App, `apps/bitcoin/app` | storage slots (seed, MuSig2 session), the request in hand | one handler per request | signatures only for what the user approved; no nonce twice |
| Its libraries, `apps/bitcoin/common`, `bip388`, `libs/secp256k1`, `app-sdk/src/curve.rs` | none | parsers, printers, scripts, signatures | what is written is read back; what is signed verifies; scripts can be spent |
| Bindings, transports, tools, other V-Apps | see `PROJECT.json` | | |

### What is hard

* The page cache and the host take turns in protocols of several messages, in the
  middle of which a check may fail; the state that survives an eviction, a failed
  load or a commit must fit together (stale hashes, stale shortcuts).
* The host is not trusted for integrity: it may answer with anything it has seen.
* Flash writes are interrupted by power failures, and an ECALL by the menu.
* The asynchronous client interleaves a worker that always steps the V-App with a
  program that sends, stops, starts, asks and gives up; the device's state and the
  engine's idea of it change separately.
* Counters wrap around.
* The user presses at any time, tasks run between events, and a transaction is
  verified while it is being reviewed.
* A signing session lasts over several requests, restarts and power failures.
* The algorithms have edge cases that tests with a few vectors miss: odd and even
  points, page and segment ends, cut and reordered PSBTs, ambiguous descriptions.

## 2. The modules

| Module | Models | Kind |
|---|---|---|
| `ClientCommands` | messages of the paging protocol, leaves and roots | data |
| `OutsourcedMemory` | the VM's end: `get_page` and everything it calls | component |
| `PageServer` | the client's end, with faults of its storage | component |
| `PagedSystem` | both, taking turns over the link; the properties and the inductive invariant | composition |
| `PagedMemory` | a memory of pages | abstract specification |
| `MCPagedSystem` | initial contents for TLC | instance |
| `PagedSystemProofs` | theorems about `PagedSystem` | proofs |
| `Accumulator` | the Merkle tree that `ClientCommands` takes as given | algorithm |
| `EvictionDriver` | how `get_page` drives a strategy; stamps and the scan for the oldest | component |
| `LruEviction`, `TwoQEviction` | the strategies; `MCEviction` runs either | component |
| `TwoQueues` | the 2Q algorithm with queues in place of stamps | abstract specification |
| `EvictionProofs` | theorems about both strategies | proofs |
| `VAppStore` | flash cells and what a power failure leaves of them; the store, the storage ECALLs, the key, the menu | component |
| `VAppStorage` | slots that keep what their V-App wrote | abstract specification |
| `Preload` | preloading and the HMAC file, on top of the store | composition |
| `MCVAppStore` | manifests for TLC: two V-Apps of one name, one other, one without slots | instance |
| `StoreProofs` | theorems about `VAppStore` and `Preload` | proofs |
| `GuestComm` | a serving V-App and the VM around it, as the client sees them | component |
| `VAppEngine` | the client's engine | component |
| `HostComm` | the program's calls, with the client's message protocol; the properties of both clients | component |
| `SyncClient`, `AsyncClient` | the two clients, composed with all of the above; `MCClients` runs either | composition |
| `HostCommProofs`, `SyncClientProofs`, `ClientProofs` | the conversation of a request; theorems about each client and about both | proofs |
| `BufferTransfer` | one `xsend` or `xrecv`, chunk by chunk | algorithm |
| `UxScreens` | the screen and its stored event, on three kinds of devices | component |
| `VAppRuntime`, `MCVAppRuntime` | executor, handles, application loop, on top of the screens | composition |
| `RuntimeProofs` | theorems about `VAppRuntime` | proofs |
| `BtcPsbt` | what the Bitcoin V-App reads out of a PSBT and checks | algorithm |
| `BtcApp`, `MCBtcApp` | its requests, step by step, with the user, the host and the storage | composition |
| `BtcAppProofs` | theorems about `BtcApp` | proofs |
| `FastPsbt` | the PSBT parser, its searches, the conversion of version 0 | algorithm |
| `SdkCurve`, `Musig` | bignums and curve; the port of secp256k1 with MuSig2 | algorithm |
| `CryptoEcalls` | the cryptographic ECALLs, device and native | algorithm |
| `Riscv` | decoder, processor and segments; an assembler and reference definitions | algorithm |
| `Bip388`, `Cleartext`, `PolicyScript` | wallet policies as text and bytes, as words, as scripts with samples of them | algorithm |
| `MCAlgorithms` | all samples of the algorithms, and what is claimed for each | instance |

Some definitions are there only to be wrong: each names a plausible mistake (a
missing reset, a dropped guard, a swapped order), stands before the definition it
is a variant of and is listed under `mutants` in `PROJECT.json` with the property
that catches it.

### The outsourced memory

State. `cachedPages`, `merkleRoot`, `lastAccessed` and `nonce` are the fields of
`OutsourcedMemory` and of the `AesCtr` that the sections share. `pc`, `req`, `slot`
and `verifier` are where `get_page` is, with its local variables, while the VM
waits for the client. `link` is the APDU in flight. `segment`, `codeHmacs` and
`serving` are the client's; `seen` (everything it ever stored), `faults` and `ret`
(the last completed access) are history.

Abstractions. Hashing is ideal: the hash of a page is the *leaf* (content, nonce,
whether it is encrypted), a Merkle root is the function from indices to leaves, and
a proof is a claim about such a function, of which the verifiers count elements and
remember whether all of them were of the same root. An HMAC is the tuple of what
`compute_code_page_hmac` authenticates. A ciphertext is identified by its content
and nonce. The eviction strategy is left open here: any slot may be the victim, so
what is shown holds for both strategies.

Actions. A miss is `GetPageMiss` (a free slot), `GetPageEvictClean` or `GetPageEvictModified`,
followed by one action per answer of the client (`OnCommitPageProof`,
`OnCommitPageProofContinued`, `OnMerklePage`, `OnMerklePageContinued`, `OnHmacPage`); hits are
`GetPageAgain` (the shortcut through `last_accessed_page`) and `GetPageHit`. A failed check
aborts the V-App, as `handler_start_vapp` does. The client answers with what it has in its
segment; a fault replaces a stored page or HMAC by any other it has seen, or garbles one answer:
a length, a fragment, the path of a proof or the new root of a commit. Writes are possible in
the code section too, because ECALLs write through `get_segment`; they are lost at eviction. The
answers of a commit carry a new root of the client's choice, which need not be the old one with
the committed page in its place: what `commit_page_at` asks of it (that the same proof, with the
new leaf, verifies against it) is what the verifier of `new_root` checks in `OnCommitPageProof`
and its continuations.

### Eviction

`EvictionDriver` has the accesses of `get_page` with what it tells the strategy, and what it
does not tell: an access to the page accessed last goes unreported. The stamps are counters
modulo `Modulus`, and `Never` is the largest of them, which the scans of `choose_victim` start
from; `wraps` counts the laps of the counter. `TwoQueues` is the published algorithm: a queue of
pages seen once, a list of pages seen again in the order of use, and a bounded queue of pages
evicted from the first.

### Flash

A cell has a flag and a value; `Initialize`, `Update` and `Clear` return the writes that the
code makes, in its order. `NvmWrite` performs the next one; `PowerLoss` stops before, after or
in the middle of it, and a value torn in the middle is `Garbage`. Storage ECALLs have several
actions each, because reading or writing the V-App's buffer may interrupt the VM, which then
handles events of the screen: `UninstallAll` can come in between. `handle_storage_read` keeps a
reference into the flash and `write_buffer` copies from it page by page: a buffer that reaches
into a second page gets what is in the slot by then (`ReadPart`, then `ReadSlot`), which after
an uninstallation is zero. `VAppStorage` allows this one torn read and no other. The user's
approval of a registration is the choice of the action `RegisterVApp`; a refusal changes
nothing.

### Preloading

`Preload` extends `VAppStore`: an exchange collects the hashes of code pages in
batches, hands out masked HMACs, and releases the mask if the root of all hashes is
the manifest's. The client may send any batches of genuine and wrong hashes, break off
and begin again. The HMAC file is created, then written; a crash cuts it anywhere.
`start_vapp` loads it, compares what it is for, and preloads again if it is missing or
of another V-App. The key and the entries are those of the store, so the file can also
outlive a key or an entry.

### The session

`GuestComm` gives, for every place where a V-App can wait and every answer of the client, what
the VM answers next; the chunks of messages are its unit, and a response chunk names the chunks
that its request was made of, so that mixed-up messages can be told. `VAppEngine` has the
outcome of one `step`. `SyncClient` steps the engine only while a request waits. Its program may
drop the future of a call in the middle of an exchange (`GiveUp`, `GiveUpOther`): the APDU has
reached the device or not, the buffer to be received was taken out of the engine, and nobody
takes the answer. `AsyncClient` has the worker's loop, one message of the queue and one step per
turn, and a program that may give up a call, whose answer then goes nowhere. `start_vapp` is
that of a registered V-App; `preload_vapp` begins with `get_app_info`, and only this is seen
here. `get_metrics` and `get_app_info` use the transport between two exchanges of the worker.
`BufferTransfer` opens up the buffers that are atomic here. The transports are not modelled: a
future that is dropped in the middle of a page or of a buffer of several APDUs leaves the device
inside of one step of the engine, and `TransportTcp` leaves an answer that nobody read in its
stream, where the next exchange finds it.

### The V-App's runtime

`UxScreens` has the screen, the buttons that each kind of device offers on it, and the
one event that is kept until `get_event`; the user may press whenever the VM waits.
`VAppRuntime` has the root future as a program counter (`pc`, `flow`), the list of tasks
with the part that `poll_once` took away, and a handle per task. A handler may spawn,
take, await and drop in any order, review pairs, confirm, show information for some
ticks, show a spinner, or exchange messages. Tasks need some polls, may spawn a child,
and do not wait for each other.

### The Bitcoin V-App

`BtcPsbt` is pure: accounts and coordinates out of a PSBT, `analyze_transaction`,
`verify_transaction`, the pairs of the review and the keys that a signing pass visits.
Scripts, proofs of registration and signatures are the terms that they are made from.
`BtcApp` has the request in hand with its screens, the verification task, the session
slots and the resident seed, and keeps as history what the user approved, what was
given out and which nonce signed what. The host sends anything in `Requests` that it
can make from what it was given. `Wallets` are wallets' own PSBTs as they are before
`prepare_psbt`, and `HonestPsbts` what it makes of them.

### The algorithms

An algorithm is a set of operators that follow the code step by step, together with what they
should compute, said in another way: numbers for bytewise arithmetic, the points themselves for
encodings, an assembler for the decoder, an interpreter of scripts for `to_script`, the set of
pairs for binary searches, the data for Merkle proofs, the native ECALL for that of the device.
`MCAlgorithms` picks one sample in its first and only step, and the action properties compare
what that step picked. Widths that do not matter to the code are small: the curve has 31 points
over the field of 43 elements, a processor's byte has two bits (encodings have all 32 or 16), a
page four bytes.

## 3. What is checked

`expect: violation` means that the run shows a disagreement between the code and
what a comment or a document says of it; the counterexample is TLC's output, and
`findings` in `PROJECT.json` quotes both sides.

| Run | Instance | Shows |
|---|---|---|
| `paged` | code and data section of 2 pages, 1 slot each, 2 contents, proofs of 2 elements in 2 fragments, nonces up to 2, 1 fault; 1.5 million states | type invariant; nonces are used once; cached hashes and shortcuts are never stale; refinement of `PagedMemory`; until the client errs, no check fails and every step of an access brings its end nearer |
| `eviction` | either strategy; 3 slots, 5 pages, counters modulo 9 that wrap around twice; 170 000 states | until the counter wraps around, LRU evicts the least recently used page and 2Q implements `TwoQueues`; always, `a1_size` is exact and ghosts are absent; 2Q has a victim until the counter has wrapped around twice (once for all slots but one) |
| `vapp_store` | 4 V-Apps (two of one name, which are preloaded), 2 entries, 2 slots, 2 power failures, 2 preloads; 1.8 million states | whole values, unique names, one key, isolated storage with the torn reads that uninstalling makes, and no others; masks are released for genuine code only; V-Apps run with current HMACs |
| `vapp_store_reregister` | no power failure | violation: registering again erases the storage |
| `clients` | either client; 2 requests, messages of up to 2 chunks (3 without a worker), 4 other calls, 2 calls given up (without a worker, in the middle of an exchange too), V-App may exit or panic; fairness; 600 000 states | nothing replaced; with a worker lockstep always, without one until a call is given up; until then responses belong to their requests; without a worker, until then, messages of the synchronous client are transmitted fully, and every call returns (with a worker, always) |
| `async_client_chunks` | nothing given up, V-App does not stop by itself | violation: a response of 2 chunks can fail |
| `vapp_runtime` | 2 tasks, 1 child, 3 calls of a handler, three kinds of devices; fairness | no future outlives its handle, each task that a round takes is polled once in it, the screen is the one that events are taken for, the loop always comes back |
| `vapp_runtime_documents` | the same | violation of `SomeDocumentHolds`, a disjunction of two comments: a stored press approves a review whose final screen was not shown, and in the same state a task that was spawned in a round is left unpolled at its end |
| `bitcoin_app` | 2 requests out of all kinds, honest and altered PSBTs of four accounts, 1 loss of power at any point; 30 000 states | signatures only as approved, nonces used once, exported keys stay derivable, identity signatures attest what they say, honest PSBTs are signed |
| `bitcoin_power_loss` | the two rounds of MuSig2, 1 loss of power | violation: the two writes of a session are cut apart, and the id of one is left with the randomness of another, or with none |
| `algorithms` | 90 000 samples | nine action properties: what each algorithm computes for the sample that a step picks |
| `algorithms_documents` | the same | violation of `SomeDocumentHolds`, a disjunction of eight statements of documents, comments and tests, all false for one sample: `andor` swaps its branches; `serialize_der` writes leading zeros; `add_xonly_tweak` does not tweak the x-only key of an odd y; a segment that ends with the address space contains none of its bytes; a policy with hardened steps is not shown as it was; the confusion score is below the number of instances; `hash_update` and `hash_final` do not return 1 on the device; `schnorr_verify` reads 65 bytes where 32 are documented |

A state, or a step, that violates a disjunction refutes every one of its disjuncts; each is a
definition of its own, and has an entry of its own in `findings`.

### Disagreements without a run

The models also show, some of it with other constants than those of the runs:

* Paging. A write of an ECALL to the code section lasts until the page is evicted (`PagedMemory`
  lets a read-only section revert). Once the counter of 2Q has wrapped around for all slots but
  one, all slots may be stamped `u32::MAX`, which the scans of `choose_victim` never choose: its
  `unreachable!`, "This never happens" (`evict.rs:205`), is then reached, and the run `eviction`
  has these states; `TwoQHasAVictim` says exactly when. A Merkle tree of one leaf verifies its
  proof for any index (`accumulator.rs:461`); segments ask for indices that exist only.
* Flash. `nvm.rs:95` and `ecall.rs:623` call an update atomic, but a power failure
  between its writes loses the entry.
* Session. `get_app_info` and `get_metrics` during a session end the V-App;
  `start_vapp` right after `stop_vapp` fails once, because the VM still waits for a
  `Continue` (`vanadium_client.rs:755`); the synchronous client keeps its engine, and so
  answers `is_vapp_running` with true, after the V-App exited. A call of the synchronous
  client that is dropped in an exchange leaves the engine behind the device, and a later message
  may be lost; `EngineInLockstep` stops there. With a worker it does not, which owns the exchange.
* Buffers. Empty chunks keep `xrecv` waiting for ever; its check that a chunk does not
  exceed what is left is redundant, `ReceiveBufferResponse::deserialize` refuses such a
  chunk before.
* HMAC file. A file cut after a whole number of HMACs is loaded; the V-App then fails at
  the first page that has none, and nothing renews the file.
* Runtime. `LAST_EVENT` survives from one V-App to the next.
* Policies. `sh(wsh(...))` has no script, because `Wsh` expects no context
  (`script.rs:168`); `multi` in a Taproot tree is parsed and has no script.
* Processor. A segment at address 0 that is shorter than an aligned access is
  bounded by its pages alone, because the bound in the code wraps around (`PastTheEnd` of `Riscv`).
* MuSig2. After a second loss of power between the two writes of a session, two sessions may
  both have the randomness of a cleared slot; `NonceUsedOnce` stops there. After
  the first, what is left has signed nothing.
* ECALLs. Device and native build differ in what the updates and digests of hashes return (1
  natively, and what was in A0 on the device), for an empty Schnorr message, malformed DER (a
  native panic, 0 on the device), paths of more than 16 steps, labels of more than 252 bytes and
  points at infinity with coordinates; `EcallsAgree` is about the documented arguments
  (`Documented` of `CryptoEcalls`).

### Bounds, and why they are enough

* Paging. Two pages and one slot make every access to the other page an eviction; two sections
  share the nonce; two contents tell an old value from a new one; one fault is one wrong page,
  HMAC, new root or other answer at any point of any exchange. Proofs of two elements in two
  fragments go through every loop of both ends. `NonceUsedOnce` takes the counter for a number:
  the carry between its bytes is not modelled. The theorems of section 4 hold without these
  bounds.
* Eviction. Three slots are the fewest for which A1's share of the cache is a proper part of it;
  five pages fill the cache and the queue of evicted pages. `MaxWraps` is as many laps as 2Q
  needs to lose its last victim; on the device a lap is 2^32 reported accesses. `Modulus` leaves
  room to fill the cache and to evict from either queue within a lap.
* Flash. Two entries and three names fill the store; the two power failures
  allow a second one during the recovery from a first. Keys are two, so that a second
  generation would be noticed. Two code pages make a preload of one batch or two, with
  hashes missing, repeated or exchanged.
* Session. Two requests and one that is given up are what mixing needs, and a second can be;
  four other calls are start, stop, start or start, info, metrics, start. `AnswersMatch` is
  stated for behaviours in which no call was given up so far: afterwards the chunks of two
  requests can be mixed, which the code does not prevent and nothing promises. A buffer is one
  exchange here, so a call is given up between two buffers, not within one.
* Runtime. Two tasks and a child are the fewest for which the swap with the last task, a
  task spawned while others are polled and a handle dropped behind another can meet.
  A review of two pairs has one page or two, depending on the heights.
* Bitcoin V-App. Two requests are the two rounds of MuSig2, or a registration and its
  use; sessions and registrations of before are in `Stored` and `Enrolled`. Each altered
  PSBT has one or two slips: a script, an amount, a coordinate, a proof or a nonce of
  another input, output or account. Power may go at any point, between the two writes of a session
  too; the write of a slot is atomic here, and what it is made of is in `VAppStore`.
* Algorithms. The samples are all operands where there are few (bytes of scalars, compressed
  keys, tweaks), and the edges otherwise (register, immediate and address limits, lengths around
  a chunk, segments shorter than a word or ending with the address space). The group has prime
  order, so every point but infinity generates it, and half of the points have an odd y. PSBTs
  have two slips, templates are nested up to the limit of the parser, which is scaled down with
  it.

`CHECK_DEADLOCK FALSE` is set where a run stops at its bounds (nonces, accesses,
requests) or at an abort.

### Fairness

* `paged`: none. That an access ends is the action property `AccessAdvances`: every step
  of the VM or of an intact client during an access decreases a natural number. Since a miss is a
  straight-line loop over a synchronous exchange in which one of the two always
  has the turn, it needs no more than that the device and the host go on.
* `clients`: the worker's loop runs (`yield_now` lets other tasks run, and the
  runtime schedules it again), and the program takes an answer that has arrived.
  Neither the V-App nor the program's next call is assumed. Without a worker, the loop of
  `send_message` goes on. An exchange is one action: the transport is taken to return,
  with an answer. `EveryCallReturns` speaks, without a worker, of the time until a call is given up:
  after it, the V-App may have missed a message, and the loop may step for ever.
* `vapp_runtime`: the root future goes on while it has something to do, and a handler
  that is not waiting for an event makes its next call: both are straight-line code.
  Nothing is assumed of the user.

## 4. What is proved

The theorems hold for every value of the constants that the named assumptions of the
modules allow: any number of sections, pages, slots, V-Apps, entries, requests, chunks,
tasks, keys, PSBTs and losses of power. The assumptions say what the code's types say (indices
are numbered from 0, sizes are natural numbers, there is at least one of what there is
always one of) and that model values which stand for different things are different. TLC
evaluates them in every run. A theorem with a hypothesis of its own names it below.

Every safety proof has the same shape: an inductive invariant; one lemma per action that
keeps it; the property as its consequence.

### Paging: `PagedSystemProofs`

* `TypeCorrect`: `Spec => []TypeOK`. The type invariant is inductive by itself.
* `PagingInvariant`: `Spec => []PagingInv`. `CachedHashIsCurrent` alone is
  not inductive: that a commit changes the root at the committed page only needs
  the verifier's state during the commit (`CommittingOK`), that no other slot holds
  that page (`PagesCachedOnce`), and that the page is still what was encrypted. That
  a loaded page's hash is the root's leaf needs the verifier's state during the load
  or, for HMACs, that those of this V-App in the client's hands are genuine
  (`StoredHmacsGenuine`) and that the code root never moves (`CodeRootFixed`). That an
  eviction without commit loses nothing is `UnmodifiedIsCommitted`. `ShortcutsKept`
  says which section may have a stale shortcut, and when: only the one whose slot
  is being filled.
* `CachedHashesCurrent`, `ShortcutsValid`: consequences, the invariants of the runs.
* `NoncesUsedOnce`: `Spec => []NonceUsedOnce`, from `NoncesBehindCounter`: every nonce
  that was used, also one on its way to the client, is behind the counter. The
  counter of 12 bytes is bounded by `MaxNonce`: reuse after 2^96 commits is not in
  question.
* `HonestSafety`: `Spec => []HonestClientSucceeds`. While the client is intact, no check fails.
  `HonestInv` relates the two ends of the link: the client's leaves are those that the root
  commits to, or, between its answer to a commit and the VM's taking the new root, differ at the
  committed page in the way that the VM expects (`HonestCommitting`); the fragments of a proof
  that the client has yet to send are those that the verifier has yet to be fed, for the same
  leaf (`ProofGoesOn`, `HonestLoading`). It rests on `PagingInv`.
* `OutsourcedMemoryIsMemory`: `Spec => Memory!Spec`, the abstract
  memory being the cached content of a page if it is cached, and the content of the
  root's leaf if it is not. Hits and completed loads are the reads and writes of
  `PagedMemory`; every other step stutters, except that an evicted code page reverts
  to the binary's content. Nothing is assumed about the client's answers: pages, HMACs, proofs
  and new roots are what it likes. A new root is taken only after the verifier of the new leaf
  accepted it (`CommittingOK`), and so is the old one with the committed page in its place.
* `AccessesAdvance`: `Spec => AccessAdvances`, for any lengths of proofs and fragments, from the
  same relation of the two ends as `HonestSafety`.

### Eviction: `EvictionProofs`

* `BookkeepingSafety`: `MCSpec => []TwoQBookkeeping`. `a1_size` counts the slots of A1
  exactly only if no page is in two slots and a slot is `Free` exactly when it holds
  nothing (`CacheInv`, `QueueInv`). Nothing is said of the stamps, so this holds after
  the counter has wrapped around, too.
* `LruSafety`: `MCSpec => []LruVictimIsOldest`. `StampInv` says
  that the stamps grow along the order of use and are not ahead of the counter, which
  is true until it wraps around, after 2^32 reported accesses on the device.
* `TwoQSafety`: `MCSpec => []TwoQHasAVictim`, for any `Modulus`, any number of laps and any sizes:
  in a full cache the `unreachable!` is not reached before the counter has wrapped around
  `NSlots - 1` times. `SkippedInv` counts the slots that the scans skip, those stamped `Never`: at
  most one more in every lap. The run has states where the bound is met.
* `TwoQRefinement`: `MCSpec => KeepsTheQueues`: until the counter wraps around, slots with queue
  marks and stamps implement the two queues of `TwoQueues`. A queue is the pages of its slots in
  the order of their stamps. `OrderInv` adds to the above that no two used slots have the same
  stamp, so that there is one such order; a report moves a slot to its end, an eviction takes
  the first one out, and the other slots stay in order.

### Flash and preloading: `StoreProofs`

* `StoreSafety` and its parts `CellsWhole`, `NamesUnique`, `AuthKeyKept`: `ValidIsWhole`,
  `OneEntryPerName` and `OneAuthKey`, for any number of losses of power, each of which may
  tear a value. `WritesOK` is what is needed: it says of the operation under way what it
  has yet to write and what that may rely on: a value is overwritten in an invalid cell
  only, and what is about to become valid is whole and has a name that no valid
  entry has (`NewInPlace`). `KeyOK` says that the key is there or being written while
  the VM is on, and that a key that was used stays.
* `StorageRefinement`: `Spec => IsolatedStorage`, the refinement of `VAppStorage`. An operation
  takes effect with its last write: until then the abstract registry is the one before it.
  `JobInv` says of the operation under way what it has changed so far (at most, the V-App whose
  entry it is replacing is gone) and what its last write will make valid (the empty slots of the
  V-App being registered, or the old slots with one changed), and of an ECALL under way that the
  entry it has found is still the V-App's or has been cleared, which is also what may have
  happened between the two parts of a read. A loss of power in the middle is an abstract step
  that loses at most this one V-App.
* `PreloadSafety` and its parts `MasksGenuine`, `HmacFileCurrent`: `UnmaskedAreGenuine` and
  `HmacsAreCurrent`. The invariant adds that the masked HMACs of the exchange in hand are
  those of the hashes fed so far, in their order, that no exchange reuses a session,
  and that a file's HMACs are, from its creation on, a part of the genuine ones of the
  V-App and the key that it names.
* `StoreSafetyMeanwhile`: the store's properties hold under `SystemSpec`, where V-Apps use
  their storage while others are preloaded and the Vanadium app is installed anew. The
  run does one or the other; both at once are too many states for TLC.

### Clients: `HostCommProofs`, `SyncClientProofs`, `ClientProofs`

`HostCommProofs` describes the conversation of a request once, for both clients: of how
many chunks it is, how many were sent, how many of the response have come (`Talks`);
what the host has posted (`PostOf`), where a V-App is that expects it (`Expects`) or
is working on it (`Serving`), and what it replies (`Reply`, `Replied`).

* `SyncSafety`: `InLockstepUntilGivenUp`, `AnswersMatch` and `TransmittedFully` of the synchronous
  client, all of them until one of its calls is given up.
  `Conversing` says that host, engine and V-App are at one point of one conversation.
* `ClientsInLockstep`, `ClientsAnswersMatch`, `WorkerSafety`, `SyncTransmission`: the
  invariants of the run, of both clients side by side as in `MCClients`. For the asynchronous
  client, `WorkerInv` holds whatever was given up: the shapes of queue and engine, and that the
  worker holds a pending call whenever the V-App speaks, which is why it replaces nothing.
  `CallInv` holds until a call is given up, which is when `AnswersMatch` speaks: the message
  of a request is in the queue (`Posted`), with the V-App (`Waiting`) or answered (`Answered`),
  in one of these places only.

### Runtime: `RuntimeProofs`

* `BorrowsSafety`, `PollSafety`: `BorrowsRespected` and `EachPolledOnce`, from `TaskInv`: the
  list of tasks and the part that `poll_once` took away hold every unfinished task, each
  once, and only a held handle has one; in a round, the tasks before the index have been
  polled and those behind it have not, although the last one takes the place of
  one that has finished.
* `ScreenSafety`: `ScreenMatchesView`, from `ScreenInv`: a screen other than the dashboard's
  is there only while the dashboard is due again.

### Bitcoin V-App: `BtcAppProofs`

The policies, PSBTs and requests are constants of which only what the code checks is used.

* `ExportSafety`, `AttestationSafety`: `ExportedKeysStayOurs` and `OutputsAttested`. The invariant
  (`HostInv`) speaks of everything that the host has and of what is about to be given to it,
  of proofs of registration too: an output is attested for an account whose proof the host
  presents, and the host can present those it was given only.
* `NonceSafety`: `Spec => []NonceUsedOnce`, with losses of power at any point. `SessionInv` says
  that sessions which wait (in storage, popped, or new) have signed nothing, that no two places
  hold the same randomness, and that what the session in use has signed is for the PSBT of this
  pass. A loss of power between the two writes of a session leaves its id with the randomness of
  another one, or with none; but that randomness was taken out of its slot before, or was never
  used, and so has signed nothing. `WholeInv` has what is true before the first such loss only
  (no session has the randomness of a cleared slot), and is what a second one breaks; `TornInv`
  puts the two together.
* `SignatureSafety`: `SignedAsApproved`. `SignInv` says that a request which waits for the user or
  is being signed is one that the host could make and that `analyze_transaction` accepted
  (`RequestInv`); that the task's count is of checks which hold, and that the pass begins only
  when all of them do and the user has approved these pairs (`TaskInv`); and of every signature,
  given or about to be, what the property says. It rests on `HostInv`: the proofs
  that a PSBT carries are those that the user's registrations gave. `PairsBalanced` says that the
  shown amounts add up: an account's amount is the sum over its own inputs less that over its
  own outputs, each internal field is in one account, and so the accounts' sums make up the total
  (`SumByKey`, `SpentTotal`). What is proved of sums over a finite set goes
  by a least counterexample among its subsets (`FiniteDescent`), which needs no
  induction theorem with an operator parameter. `PsbtAssumption` says of a
  request's PSBT what the types of the parser say: amounts are natural numbers, lists are finite.
* `HonestSigned`: `HonestPsbtSigned`. `HonestPsbts` are what `PreparePsbt` makes of `Wallets`,
  and `WalletAssumption` describes these as BIP-174 and BIP-388 do, without coordinates or
  account fields: a policy of a kind that has a script (`sh(wsh(...))` has none, see section 3),
  UTXO and script fields according to that kind, derivations of any of the keys, nonces of all
  cosigners or of none, lock times of one kind, outputs not above inputs. It also says that two
  key expressions with a key in common do not share a single step, as BIP-388 demands and the
  parser does not check. `CoordinatesFound` is the heart: whichever key expression finds a
  derivation last, the coordinates are those that the wallet meant. `HonestSignable` concludes
  that analysis, verification and the sighash computations find nothing wrong, and `HonestInv`
  that nothing else ends such a request with an error.

### Only model-checked

* The liveness properties (`EveryCallReturns`, `NeverSpins`): fairness and
  `ENABLED` are out of this prover's reach.
* What the algorithms compute (the properties of `MCAlgorithms`): their
  definitions are recursive over their data, and the prover has neither induction over data
  nor `RECURSIVE` operators.
* What happens after the properties' own limits (a counter that wrapped around, a call without a
  worker that was given up, a second torn session) is in the runs' states, but no
  property speaks of it: section 3 says what can go wrong there.

## 5. What is not modelled

Ideal hashing, encryption and HMACs stand for the real ones. Left out: byte layouts of APDUs and
client commands, and the parsing of ELF files and manifests; the layout of screens; the
characters of policies and the formatting of numbers; wrappers of ECALLs that pass their
arguments on; the parsing of hexadecimal numbers in policies, whose slices panic in the middle
of a character of several bytes (`lib.rs:1050`, `lib.rs:1068`); native storage files; failures
of the transport (they end a call with an error); the counters of the metrics; the parts of the
secp256k1 port that are the interface of the original library; the command lines, build tools
and the other V-Apps. Arithmetic of 32 bits wraps around where the models say so, as it does in
a release build; a debug build panics there. `components` in `PROJECT.json` gives the reason for
each.

## 6. Plan

Done, in this order: paging with its proofs; eviction; flash and the store; the session of
both clients; preloading, buffers, the runtime of V-Apps, the processor, the ECALLs, the
arithmetic and the Merkle tree; the Bitcoin V-App and its libraries; the proofs about eviction,
store, preloading, clients, runtime and Bitcoin V-App.

Next:

1. Proofs: every safety invariant of the runs is proved. What is left is to split the recursive
   algorithms into steps, so that the loop of each can have an invariant.
2. `GuestComm` with the chunks of `BufferTransfer` in place of whole buffers, and its
   refinement.
3. The VM's session with the Bitcoin V-App: `BtcApp`'s requests through the asynchronous
   client, with calls that are given up.
