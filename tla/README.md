# Verification of Synopsys

Synopsys is a data store for facts, `[entity, attribute, value]`, with standing
queries.  A JavaScript service (`src/`) keeps the facts in a Merkle search tree,
runs transactions, lets clients follow queries over HTTP, and distributes a log
of transactions between replicas.  A Rust crate (`rust/`) holds a second
implementation of the tree.

This directory holds TLA+ models of the parts of it whose correctness depends
on the order of events, configurations that model-check them with TLC, and
proofs checked by TLAPS.  Paths below are relative to the root of the
repository.  Every model is written from the code; where a comment or a test of
the repository says something else, a run shows the difference (section
*Divergences*).

## The system

All JavaScript runs on one thread: what can interleave are *tasks* (generators
of the actor library, suspended at `yield*`), promise callbacks and stream
callbacks.  An action of a model is what happens between two suspensions, so
that an interleaving of actions is a schedule the event loop can produce.

| Component | Source | State | Operations | What is hard | What makes it correct |
| --- | --- | --- | --- | --- | --- |
| Work queue | `src/task.js` | the invocation at the end of the queue | spawn, abort of a waiting task | tasks that wait for one another, throw, or are aborted | one at a time and in call order, but across an aborted task; nobody waits for ever |
| IndexedDB tree | `src/store/idb/tree.js`, `store.js` | open flag, object store | read, write, clear, close | a transaction outlives the call that made it, and commits or aborts by itself; calls queue up behind a close | writes do not mix; what returned is stored; a closed tree begins nothing |
| Prolly tree in IndexedDB | `src/store/idb/writer.js`, `reader.js` | nodes by level and key | set, delete, integrate, ranges | splits and merges of nodes on all levels at once | the tree is the one its entries determine |
| Fact store | `src/source/store.js` | three index entries per fact | transact, scan | a transaction reads what it wrote; partial transactions | indexes agree, scans are exact, a transaction is one step |
| Hybrid source | `src/source/hybrid.js`, `src/differential.js` | an ephemeral and a durable source, the chain of jobs | transact, merge, scan | two commits in two stores; jobs that fail | the two orders agree, the kept root is current |
| Local session | `src/replica/session/local.js`, `Channel` of `src/replica/sync.js` | channel, revision and stream of each subscription | transact, subscribe, pull, cancel | commits, evaluations and cancellations at the same time | an announced commit is seen; no stale or repeated selection |
| Shared queries | `BroadcastStream` of `src/replica/sync.js`, `src/replica.js`, `src/service.js` | two maps of streams, forks and their last chunk | subscribe, fork, cancel, end | requests race to make a stream and to remove it | one evaluation; forks in step; nothing left behind |
| Sync log | `src/sync.js`, `partition` of `src/codec.js` | a file, its offset, connected consumers | push, pull, open | reading a file that grows; chunks that cut frames anywhere; crashes | nothing skipped, frames whole and in order |
| Codec | `src/codec.js` | none | encode, decode | instructions on the same entity and attribute share a slot of the patch | what is decoded has the effect of what was encoded |
| Service | `src/service.js` | blobs, source, maps | PUT, PATCH, POST, GET, HEAD | several stores changed by one request; a process that ends between two of its steps | facts about a blob are true; a redirect leads to what was stored; what was acknowledged stays |
| Blob stores | `src/blob/` | a map, or a directory of files | put, get | a file is cut before it is written | a blob the facts speak of is whole |
| Remote session | `src/replica/session/remote.js`, `src/replica/selection.js` | none | query, subscribe, transact | the redirect is followed later; chunks and messages | the query it put is found; one message per selection |
| HTTP, WebSocket | `src/http.js`, `src/web-socket.js` | streams | read, write, close | a peer that leaves early | its streams are cancelled |
| Position keys | `src/position/` | none | before, after, between, insert | carries and digits at the ends of their range | keys stay ordered and never run out |
| Ranked prolly tree | `rust/ranked-prolly-tree/src/` | nodes by hash | set, from_set, get_range | splits by rank, shared blocks | a sorted map; independent of history |
| Storage bindings | `rust/ct-storage/src/` | none | get, set | layout of keys | order of keys is order of facts |

How they interact: a request reaches the service, which asks the replica's
session; the session transacts with a source (fact store or hybrid) and
announces the commit on its channel; subscriptions wake, query the source, and
write selections into their streams; broadcasts copy them to the responses.
The fact store works on any of the stores (memory and LMDB by the external okra
library, IndexedDB by the tree here); the IndexedDB tree serialises its writes
with the work queue.  The sync log is a separate path: pushes are appended to a
file, pulls stream it.

The hazards of the code, each at its line and with the properties that would
catch it going wrong, are listed in `PROJECT.json`.

## Modules

| Module | Models | Extends or instantiates |
| --- | --- | --- |
| `SerialExecutor` | abstract: jobs one at a time, oldest first | |
| `TaskQueue` | `Queue.spawn` | instantiates `SerialExecutor` |
| `IdbTree` | `Tree.write`, `clear`, `close` over the queue | extends `TaskQueue` |
| `IdbWriter` | `Writer.set`, `delete`, `integrate`, `getChildren`, `getRoot` | |
| `FactSet` | abstract: a set of facts changed by transactions | |
| `FactStore` | `src/source/store.js` | instantiates `FactSet` |
| `Codec` | the patch of `src/codec.js`, and a replica that reads it | extends `FactStore` |
| `Hybrid` | `HybridSource` | instantiates `SerialExecutor` |
| `LocalSession` | `transact`, `LocalSubscription`, `Channel` | |
| `LiveQueries` | `BroadcastStream`, the maps of service and replica | |
| `Service` | the handlers of `src/service.js`, `src/blob/`, `remote.js` | |
| `SyncLog` | `Synchronizer`, `partition` | |
| `Position` | operators: all of `src/position/` but its entry point | |
| `Siblings` | lists of items with keys: `insert`, the import of arrays | extends `Position` |
| `RankedTree` | `Tree` and `Node` of `rust/ranked-prolly-tree` | |
| `*_proofs` | theorems about the module of that name; those of `TaskQueue` and `IdbWriter` are in `IdbTree_proofs`, those of `Codec` in `FactStore_proofs`, those of `Position` and `RankedTree` in `Siblings_proofs` | extend it and `TLAPS` |
| `MC*` | the module for TLC | extend it |

Each module has one action per handler or stretch of a handler between two
suspensions, named as in the code where that is possible; `map` in
`PROJECT.json` gives the lines of every definition.  Definitions introduced by
the word *Deviation* are not part of any specification: each is a definition
of the model with one plausible mistake, and the property it breaks is listed
in `PROJECT.json` under `mutants`.

**TaskQueue.**  `queue` is `Queue.queue`, whose entries are suspended
invocations named by the task that made them.  `Spawn` is the synchronous part
of `spawn`: pop the last invocation, push one's own, begin or wait.  `Start`,
`Finish` and `Abandon` are the turn, the `finally` block after the work, and
the `finally` block of a task aborted while it waits.

**IdbTree.**  A queued call is a task of `TaskQueue`, and a write may be aborted by its
caller while it waits.  Work overlaps then, and `txs` are the IndexedDB transactions
under way: one is served when those made before it are over.  The job of a write reads
the root (`ReadRoot`, `RootMissing`) and edits entries; its edits are in `txn` until the
transaction completes.  Tasks and transactions end separately, and `fate` is what becomes
of a transaction.  A job that throws releases the queue and leaves its edits to be
committed by IndexedDB some time later (`JobThrows`), because nobody aborts the
transaction; a request that fails is thrown by `poll`, and its default action dooms the
transaction (`RequestFails`); `clear` returns when its request has succeeded
(`ClearReturns`) and not when its transaction is complete; a write that returns waits for
`complete` (`JobReturns`, `WriteReturns`).  `WriteCompletes`, `ClearCompletes` and `Aborts`
are what IndexedDB does, in the order of the transactions and in its own time, and a
commit may fail, too.

**IdbWriter.**  `nodes` is the node store, a function from level and key to hash;
key 0 is the anchor.  Each handler is an operator on such functions, and an action
is one call.  Where handlers call one another from level to level (replace, update,
replace) the model has the loop that comes of it: a recursive function on
`0 .. MaxLevel` whose values are records of the nodes and of what is left to do
(`Update`, `UpdateParents`, and `UpdateAnchor` at its end).  A hash is modelled by
what was hashed, so that there are no collisions.  Whether a hash is small, which
makes a boundary, is the constant operator `Small`: any function of the hash.  For TLC,
`MCIdbWriter` takes a sum over what was hashed.  The bound is that hashes of
level `MaxLevel` and above are not small.

**FactStore.**  `stored` is the key value store, `editing` what the writer of
the transaction under way sees.  Keys are tuples where the code joins bytes:
components never are prefixes of one another (hashes have one length, CBOR
strings carry theirs), so that tuples and bytes have the same ranges.  `Path`,
`InRange` and `IsCoarse` follow `deriveSearchPath`, the bounds and
`isCoarseSearch`, whose comparison is a loose one and does not take null as given.
Nothing restricts the changes that clients send (`service.js:164`), and nothing does here:
`db/source` may be among `Attributes` and commits among `Entities` and `Values`, as in the
runs, so that instructions remove and restore the records of commits; `erased` remembers
the commits whose record is gone that way.  A transaction is not about its own commit,
whose reference is a hash of the transaction.  `Atomic` tells stores that drop a write that throws (memory,
LMDB) from IndexedDB, which keeps it.

**Hybrid.**  A call is a transaction with an ephemeral part alone (`local`), one
with a durable part, or a merge.  `Enqueue` is the synchronous sequence
`Task.perform`, wait for `writable`, replace `writable`.  The commit of the
ephemeral part and the rest of the call up to its next suspension are one
action, because the continuations of commits run in the order of the commits.

**Codec.**  `Mark` is how an instruction finds its place in the patch, `SlotOf`
what is read off it, `Perform` what the store makes of the result.  CBOR sorts
the places, and the model allows any order.  The log is encoded twice, by the
client and by the server.

**LocalSession.**  The source is a function from parts to values; a query scans
the parts one by one, in transactions of their own, as `DB.query` does.
`Commit` and `Announce` are the two halves of `transact`.  `phase` is where the
pull loop of a subscription stands: parked on the channel's promise, notified,
querying, ready to enqueue.

**LiveQueries.**  One query, several requests.  `chans` are the broadcasts of
`service.js`, `evals` those of `replica.js`; a channel reads from the
evaluation through a pipe (`link`, `linked`).  The poll loop of a broadcast and
its `closed` promise are separate, since an abort resolves the promise first
and the loop comes to its end later.

**Service.**  A request is a process that works through its handler.  Contents and
queries are named by their references, so that equal ones have one name.  The
file of a blob is `torn` from the moment it is opened until the request that
opened it last has written it.  An edit (`Edits`) asserts and retracts any facts, those
of others included: of an arbitrary list of changes, the model has what it comes to.
`stated`, `retracted` and `claimed` tell apart what has been in the source, what was
retracted since it was last asserted, and what an edit was the first to assert.  What the
source gives for a query whose bytes an edit has doubled is either (`Found`, `NotFound`).
`live` is the map of live queries with the
request that made the channel, `conn` the channel a request follows; the fork
itself is in `LiveQueries`.  The session's announcement is `Announce`, and
`told` what subscriptions were told of.  `Crash` is the end of the process,
whoever brings it about: a request whose body breaks off suffices
(`http.js:195`).  It happens to a service over a directory only, since a service
in memory has nothing to come back to.  Clients that hold a redirect follow it
when the service is back.

**SyncLog.**  A frame is named by its push and number; the model keeps the bytes
of the file so that a read may end within a frame.  `Partition` gives the
frames a chunk completes, including the case in which the step returns none.
`AppendBytes` and `Written` are the two ends of `file.write`: bytes are in the
file before the offset counts them.  It is an assumption that a write appends the whole
frame, and in one step as far as readers see: the code counts `bytesWritten`
(`sync.js:28`) and writes no rest, and a short write, after which the log holds a broken
frame, is not modelled.  Nor are pushes that break off or hold anything but frames.

**Position and Siblings.**  Digits are character codes, and the alphabets are
constants made of ranges, because what is hard is at the ends of the ranges and
in the gaps between them.  The operators follow the files: digits, minors,
majors, patches, keys.  `Siblings` is a list of items that grows in front, behind
and between.  `LapseBefore`, `LapseAfter` and `LapseBetween` are the cases in which
the code gives a key that is out of order (section *Divergences*), each stated as the
comparison that goes wrong: a bias in the place of trimmed digits (`Overtakes`), a bias
compared with a patch by one digit (`LapseDecrement`, `LapseIncrement`), a digit found
behind the first difference (`Falls`), a bias behind the lower of two patches
(`LapsePatch`).  They excuse nothing else: `KeysInOrder` says that the keys are sorted *if
and only if* no insertion was a lapse.  A list is not continued behind one.

**RankedTree.**  A block is modelled by what it contains, which is what its hash
stands for, and its list, which is sorted, by a function of what it is sorted by:
entries by their keys, child nodes by their boundaries.  `Rank` is a constant
operator, any function of keys to ranks.  The loops of `insert` down to a segment
(`Path`) and up again (`Raise`) are functions on numbers up to `MaxRank`, the last
level on which anything can be cut.  `SetKey` is one action, since Rust lets nobody
look while a tree changes.  The iterations of the loop of `get_range` are the
actions `VisitStart`, `VisitNext`, `ReadSegment` and `EndOfTree`, those of the loop
over the entries of a segment are `ReadEntry`, and a stream may be dropped anywhere
(`Drop`).  A comment in `insert` (`node.rs:365`) asks whether siblings need their
rank: with rank 0 for all of them, TLC finds no other tree.

## What is checked

| Run | Bounds | Shows |
| --- | --- | --- |
| `idb_tree` | 4 calls, writes among the 2 in the middle abortable, 2 edits each | work overlaps only across an aborted task (`SerialUnlessAbandoned`) and begins in call order (`BegunInCallOrder`); a write that returned is stored, one that threw is stored with all its edits, now or later, or with none, and a clear removes all of a write or nothing (`StoredAsTold`); once a close has returned nothing is begun, and the tree changes only by what clears and calls that threw have left to complete (`ClosedForGood`); every call returns, unless a commit fails (`EveryCallReturns`) |
| `idb_writer` | 5 keys, 2 values, 1 hash function, 3 levels of boundaries | the stored nodes are those that the entries determine (`HistoryIndependent`); a descent from the root reaches every entry once and finds hashes of children (`DescentReachesAll`) |
| `fact_store` | 2 entities, one of them a commit, 2 attributes, one of them `db/source`, 3 values, one of them null and one a commit, 2 transactions of 3 instructions; logged transactions of 2, one falsy value | scans exact for all 36 selectors but those of an entity and null (`ScansSelect`), indexes agree, upserted attributes single valued, every cause recorded unless a later transaction removed the record (`CausesRecorded`); implements `FactSet`; a replica that pulls a transaction off the log comes to the same facts (`ReplicasAgree`) |
| `hybrid` | 4 calls | same order of both parts, kept root current, jobs a serial executor, every call ends |
| `local_session` | 1 subscription, 2 writers, 2 parts, 3 commits | a woken subscription reads a source with the commit (`WokenSeesCommit`), only new and wanted selections are passed on, every announcement it hears is answered |
| `live_queries` | 2 requests, 2 selections | one evaluation runs, forks get every selection once and in order, all stops when all have left, selections arrive |
| `service` | 3 requests of any kind, 1 content, 2 queries, 1 of which cannot be encoded, 3 edits of the facts about them, 1 end of the process | what the facts say of a blob is true unless an edit made it up (`ContentBehindFacts`), a client that is redirected to its query misses it only if an edit had it that way (`RedirectServed`), what was acknowledged is in the source or was retracted by a later edit (`AcknowledgedKept`), subscriptions are told of all that comes and goes but the queries that clients put (`OnlyQueriesUntold`) |
| `sync_log` | 2 pushes of 2 frames of 3 bytes, 1 pull, 1 crash | no byte skipped, only one whole frame repeated, a pull that stays catches up; pushes in order, and a crash loses the end of a push and tears one frame at most (`LoggedInOrder`) |
| `siblings` | 6 items, 1 major below and 2 above, 4 digits with a gap, 4 biases | keys are made of digits of their alphabets (`KeysWellFormed`) and sort strictly in the order of the items if and only if no insertion was a named lapse (`KeysInOrder`) |
| `ranked_tree` | 5 keys, 2 values, 1 rank function, 33 ranges | a tree that grew by calls of `set` is the one `from_set` builds (`SameRoot`); lookups and reads of ranges return what was set (`ReadsWhatWasSet`); reads end, but for the case below (`ReadsEnd`) |

Why the bounds are enough.  Four calls to the tree hold a write, a clear, a
close and one more in any order, and let one aborted write stand between working
ones, or two in a row, while the transaction of a call in front is still to be completed;
the proofs cover more.  One subscription suffices
for the three properties checked of `LocalSession`, which relate a subscription
to the source and not to another subscription; two parts let a commit fall
between two scans.  Two requests race to make and to remove a stream; the
safety properties were also checked with three requests and one selection.
Frames of three bytes with a header of two let a chunk end in a header, behind
it and between frames, and two frames per push and two pushes let a pull read
across a frame that another push is writing.  Two transactions of three
instructions suffice to upsert over a value asserted in the same transaction
and in an earlier one, and to remove the record of the first and bring it back; values to
tell one from the other are two at least, besides null.  Four hybrid
calls let a failed job stand between two others with a local call beside them.
Five keys of two values, or absent, are 243 contents, of which the hash function of
`MCIdbWriter` makes trees of 160 shapes, with none to three levels of boundaries,
several of them on one level, so that nodes split and merge in the middle, at the
end and below the root; the proof covers the other hash functions.  Three requests let two
race while a third looks on or takes the channel's last fork away; all
properties of the service speak of one content or one query, and a second query
is there for the one that cannot be encoded.  The three edits make up what the handlers
look for, take it away, and put something empty beside it; the proofs are about all edits.  Two instructions that are logged
meet in a place, in an entity or not at all; more do so in pairs.  Six items
exhaust the minors of the least and the greatest major, so that only patches are
left, and reach the next major, and the gap between the digits is crossed by the
first increments already.  Five keys of
ranks 1 to 4 make ranked trees of one to four levels of nodes, in which a new key
falls in front of, between and behind nodes that end with ranks above and below its
own; the proof covers the other ranks.  Ranges begin in every way, and end in front of
the second key, in front of the fifth or nowhere.

`CHECK_DEADLOCK FALSE` stands in those configurations whose system comes to
rest when the bounded number of calls is spent or when all clients have gone.

**Fairness.**  Weak fairness is assumed of steps the event loop takes by itself:
resuming a task, running a promise callback, copying a chunk.  It is not
assumed of clients (who may never call, read or leave), of data changing, or of
failures.  Four assumptions come from outside: the work handed to a queue
ends; IndexedDB ends a transaction in which no more requests are made, one way or the
other (the code waits for `complete` and not for `abort`, so that a commit that fails
leaves the call waiting: `Stuck`); file writes return; the consumer of a
subscription, which is a broadcast, always reads.

## Divergences

| Run | The text | What the code does |
| --- | --- | --- |
| `sync_log_dropped` | `codec.js:54`: "If we have enough bytes to decode we decode a transaction" | a chunk that ends inside a header drops the complete frames before it |
| `ranked_tree_in_vain` | `node.rs:227`: "this will at most read one unnecessary segment" | a read whose first segment has no entry in the range reads that segment over and over and never ends |

The second needs no rare schedule: a range between two neighbouring keys, or one
that excludes its start where the start is the last key of a segment.

Others that the models show, without a run of their own:

- `store/idb/store.js:222` says of `getRoot`: "Returns the leaf anchor node if the
  tree is empty."  `clear` removes the anchor too, and every later write fails in
  `getRoot` (`RootMissing` after `ClearCompletes`).  A tree whose last entry is deleted
  keeps an anchor on level one as its root, so that its root differs from that of
  a new tree; `HistoryIndependent` names this exception.
- `store/idb/tree.js:63` says of `close`: "Closes the tree, making it unusable for
  further operations."  It waits for the calls in front of it and not for their
  transactions: the edits of a write that threw, and a clear that returned, may reach the
  store after `close` has returned (`LeftBehind`).  A write whose commit fails never
  returns, and neither does anything behind it (`Stuck`).
- Clients may retract or replace the record of a commit, so that facts name a cause which
  is not there (`erased`); make up what the service says of a blob, whose content it does
  not have (`claimed`); and register a query without its bytes, after which putting that
  query stores nothing and the redirect leads to 404 (`Tampered`).
- `replica/session/local.js:82` says of a subscription: "It queues up commit signals
  while it is being consumed".  The channel queues nothing; a commit announced
  during an evaluation is missed, and the selection stays old until another commit.
  `AnnouncementAnswered` speaks of the announcements that are heard.
- `service.js:403`: "Remove the subscription when the channel is closed."  When two
  requests raced, closing one's channel removes the entry of the other, which is
  open (`Leave` of `Service` and of `LiveQueries`).
- `query` of the remote session sends an `Accept` header that `get` does not know,
  gets 404 and takes its body for a selection (`GetQueryAsBlob`).
- `dag.js:22` takes "an **acyclic** data" structure, but `encode` refuses one that
  uses an object twice, as if it were circular.  Such a query is stored and
  redirected to, and following it as a stream gives 400 (`Repeating`).
- Putting content that is stored already cuts its file to nothing before writing
  it again, while others read it (`reopened`; `blob/disk.js:24`).
- `importQuery` writes to the source behind the session's back, so that
  subscriptions are not told of the queries (`OnlyQueriesUntold`).  Over an
  IndexedDB source it could keep half of what it writes.
- A body that breaks off rejects outside of every `catch` of `importQuery`,
  `importJSON` and `importBlob`; nobody handles the rejection, and the process ends.
- An instruction whose value is falsy is lost between client and log, because
  `decodeTransaction` tests values by `if`; instructions of one transaction that
  share a place of the patch replace each other (`Loggable`).
- Of a single entry, `set` makes a bare segment and `from_set` a branch above it:
  their roots differ, though `tests/tree.rs` expects equal roots (`SameRoot` names
  this exception).
- `source/store.js:398` says of a scan for an entity and a value that it will "filter out
  the ones that do not match the value".  Null is a value (`CHANGELOG.md:176`), but
  `value != undefined` does not take it as given, though the search path does: a scan for
  an entity and null finds all facts of the entity (`IsCoarse`).  `ScansSelect` says so of
  these scans (`Unfiltered`), and of all others that they are exact.
- Position keys may come out of order, in the cases that the lapses of `Siblings` name
  and, as `KeysInOrder` says, in no others:
  - `digits.js:191` says: "We do not need to find the intermediate digit for the rest of
    the digits as position will fall in range."  At a borrow it does not: between `b19` and
    `b21` is `b15` (`Falls`).
  - `patch.js:61` says of a bias behind the lower of two consecutive positions: "This will
    ensure that the patch is always greater than the `lower` and less than the `upper`
    position."  The upper one may continue the lower one with less: between `a1` and `a11`
    is `a1V` (`LapsePatch`).
  - `before` with a bias continues digits that were trimmed: before `a1` with bias `5` is
    `a5` (`Overtakes`).
  - At the ends of the majors, where only patches are left, `before` and `after` compare a
    bias and a patch by one digit (`LapseDecrement`, `LapseIncrement`), and `before` of
    the least key of all returns that key, so that two items share it.

## What is proved

TLAPS checks the following for all values of the constants allowed by the
assumptions of the modules.

- `IdbTree_proofs`.  Of the queue: `QueueTypeCorrect`, `SerialWork`,
  `MutualExclusion`, `CallOrder` and `Refinement`.  The inductive invariant
  (`QueueInv`) says that the queue holds the last task spawned, that task *t*
  popped task *t - 1*, and that a task that is past its wait has a settled
  predecessor; mutual exclusion follows by going back along predecessors.  Of
  the tree: `TreeOnQueue` shows that a tree takes only steps of its queue, so
  that `TreeSerial` and `TreeCallOrder` need no proof of their own;
  `SettledStored` and `ClosedStays` rest on `TreeInv`: a transaction is begun with the
  work of its call and over only when nothing more is asked of it (`Fated`), the list of
  those under way has them once and in the order of the calls, and none of them is over
  before one of a call in front of it that was ordered with it (`Listed`, `TxsOrder`); the
  store holds edits of stored transactions alone, and behind a close only calls of close
  are queued.  So a clear that is stored came behind every write it was called behind,
  whichever call returned first.
- `IdbTree_proofs`, of the writer: `TreeOfEntries`, `OneTreePerContent` and
  `EveryEntryFound`.  Between calls the tree is well formed (`WriterInv`): the leaves
  are the entries, a level has the boundaries of the one below, its hashes are those
  of their children, and each level up to the root has its anchor.  This is not so
  within a call, which repairs one level after the other; there (`Climbing`) the only
  wrong hashes from some level on are those of the last nodes up to the place *p*
  of the change and those of anchors.  An update carries this one level up,
  to the parent of *p* (`ReplaceCarries`, `DeleteCarries`), so that the change arrives
  at the anchor in `MaxLevel` steps at most (`ClimbsOut`), and `UpdateAnchor` sets the
  anchors right (`AnchorsRight`).  Row by row, a well-formed tree is the tree of its
  leaves (`TreeOfLeaves`; `EmptiedTree` has the exception named below), so that it does
  not depend on history.  For the descent, the children of the nodes of a level are
  all the nodes of the level below (`OwnAll`), none of them twice (`OwnApart`).
- `LocalSession_proofs`: `TypeCorrect`, `WokenCorrect`, `NewSelections`.  The
  invariant ties the phase of a subscription to its stream (a full stream is
  idle), its revision to what was delivered last, and the commit a parked
  subscription may be told of to the number of commits made.
- `LiveQueries_proofs`: `TypeCorrect`, `SingleEvaluation` and `ForksLevel`.  An
  evaluation whose end is not handled yet is the one in the replica's map, so
  that no second one is made and none loses its entry to another's handler.  That
  forks are in step needs to follow a selection on its way (`ForkInv`): what an
  evaluation made, what is in the pipe from it to a channel, the chunk the
  channel keeps for those who join, and what its forks were given are runs of
  numbers that meet without a gap, whoever joins or leaves.
- `SyncLog_proofs`: `NothingSkipped`, `WholeFramesRepeat` and `OrderKept`.  What a
  reading pull has passed on ends at its position, a connected pull has passed on
  everything up to the offset, and the offset is at most one frame behind the
  file.  For repetitions (`RepeatInv`) the offset is the end of the file or the
  beginning of the frame whose write has not returned, a pull that has read past
  it stands at the end of the file, and what it was given breaks off only once it
  is connected.  For the order of the log (`OrderInv`) the places a frame can be
  at (decoded, queued, being written, in the file) are put in one line, in which
  the frames of a push keep its order; what is on the way was decoded, a frame on
  the way has all those decoded before it on the way too, and torn frames are as
  many as ends of the process at most.
- `FactStore_proofs`: `TypeCorrect`, `IndexesInStep`, `ScansAnswer`, `OneValue`,
  `CausesKept`, `ReplicasInStep` and the refinement `SetRefinement`.  `IndexesAgree` is
  inductive by itself, since the three keys of two facts are equal only together; that
  scans are exact, and what those for an entity and null find, follows from it without
  induction, and with that each action of the
  store is the one of `FactSet`.  For `CausesKept` the invariant (`CauseInv`) keeps
  apart what a writer sees and what is stored: a transaction writes its record first, and
  the cause of every datum either has its record or lost it to the last instruction about
  it (`Recorded`), be that a retraction or the upsert of another fact about the commit.  For `ReplicasInStep`, the patch of a transaction holds each
  instruction in a place of its own, so that what is read off it, in whatever order, are
  the instructions whose value is not falsy.  What becomes of a fact is up to the last
  instruction that touches it; those that are logged are kept apart, so that their order
  does not matter and the replica has the same entries.
- `Siblings_proofs`: `WellFormedKeys` and `OrderedKeys`.  A key is compared as the
  list of its digits continued without end by least digits, which is what trimming
  means and makes keys of different lengths comparable digit by digit; for
  well-formed keys that is how strings sort (`SortsIsLower`).  From the arithmetic
  of one digit in an alphabet with gaps (`IncrementGives`, `DecrementGives`,
  `IntermediateGives`) follows that of lists of digits, of minors and patches, and
  then that `before`, `after` and `between` give well-formed keys, and that these are in
  their place if and only if the insertion is not a lapse (`BeforeIs`, `AfterIs`,
  `BetweenIs`).  The equivalence needs each comparison both ways: where decremented digits
  and what is put behind them stand to what was there (`DecrementedOrder`), where a
  found digit leaves the lower list (`MiddleDigits`), where a continued patch stands to
  another (`ContinuedPatch`).
- `Service_proofs`: `TypeCorrect`, `ContentStored`, `QueriesServed`, `Acknowledged`
  and `OthersTold`.  The invariant says what each request may count on from where
  it stands: a blob whose facts are about to be committed was put, or is being
  put again (`Put`); a query that is in the source, or was, or has a channel, had its
  bytes stored with it unless an edit had made it known (`Stands`, `Paired`, `ChannelOf`);
  what a request asserted and retracted has been entered, and what is no longer so was
  changed by a later edit (`Kept`, `Entered`).  Hence facts about blobs stay true through
  failures and ends of the process, and redirects are served though channels come and go,
  however other facts are edited.
- `Hybrid_proofs`: `TypeCorrect`, `OneOrder`, `RootCurrent` and the refinement
  `SerialRefinement`.  The invariant says that tickets are given once and
  without a gap, that a job waits for the one with the ticket before its own,
  and that all in front of a job that was begun have settled; hence both
  sources are in the order of tickets, and a job that works is behind all that
  the durable source holds.
- `Siblings_proofs`, of the ranked tree: `SameTree` and `ReadsInOrder`.  A level of the
  tree is given by its cuts: the keys of a rank above the level and the greatest key.
  The invariant (`RootIs`) is that the tree is the one of these rows for the entries
  it holds (`Rows`, `TreeOf`), up to the level that has one node (`HasHeight`).  That
  the root is that of `from_set` is not inductive by itself: `insert` uses the nodes beside its
  path as they are, and so relies on each of them being the one of the rows
  (`NodesStay`).  It takes up the new segments, and on each level what it made anew and
  the siblings it had are that level of the tree with one entry more (`RaiseIs`), whether
  the tree grows, stays as high as it is, or a node is cut in two (`InsertIs`).
  For reads (`StreamIs`), a stack of nodes is a way down from the root, each node at the
  boundary its parent visited last (`StackIs`); what is left to read are the entries
  behind the last one yielded, and they begin where the stack says (`AfterEntry`,
  `BeforeNode`).  An end for want of nodes, or for an entry behind the range, is then
  behind the last entry in it (`AllSeen`).

The proofs assume of the constants only what the `ASSUME`s of the modules say; the
bounds (`Calls`, `MaxCrashes` and the like) are arbitrary.  The refinement of the
queue assumes in addition that no task is abortable.

The library's induction theorems take an operator as a parameter, which the
provers cannot instantiate.  Where a proof needs induction (on levels of the tree, on
the instructions of a transaction), the recursion is a function on numbers, and the
proof looks at the least number at which a claim about it fails (`UpTo`, from the
minimality lemma `WFMin` of the library).

Only model-checked: all liveness properties, since TLAPS 1.4.5 has no support
for fairness and `ENABLED`.  That reads of the ranked
tree end (`ReadsEnd`) is such a liveness property.  Every safety invariant and action
property that a passing run checks is the subject of a theorem.

## Not modelled

Formats (`dag.js`, `query.js`, CBOR, hashes, the encodings of the Rust crates) are
pure translations; where one of them refuses its input, the models have the
refusal.  Decoding event source messages (`selection.js`) turns a stream into
another chunk by chunk.  The WebSocket adapter copies bytes, and of `http.js` the
models have what a rejected response does (`Crash`) and that a client's departure
cancels its stream (`Leave`).  The memory and LMDB stores and the direct
connection delegate to a library or to the source.  `compute_rank` is any
function; its batches that cross a byte have fewer bits than it says, which
changes how likely ranks are and nothing else.  Block stores and caches of the Rust
tree return what was written.  `HybridSource.scan` joins two scans, and what
`differentiate` computes of two trees is left out: a merge changes the durable
source or it does not.  Bindings and entry points are wiring.

The external libraries are modelled by what the code relies on: `okra` runs one
write at a time, all or nothing; `datalogia` queries by scans; web streams deliver
chunks in order; IndexedDB serves transactions in the order they were made.  A
crash is modelled where something is read back after it: in the sync log and in
the service.

## Plan

Done: work queue, IndexedDB tree and its writer, fact store, codec, hybrid source,
local session, shared queries, service with blob stores and redirects, sync log,
position keys, ranked tree.

Next, in this order:

1. `Hybrid` composed with `LocalSession`: announcements of merges that have not
   committed, and a merge that waits inside of an IndexedDB transaction.
2. A fork of a channel that has ended and is not yet out of the map.
