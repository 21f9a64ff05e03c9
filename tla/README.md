# A TLA+ model of HierarchicalCache

HierarchicalCache is a cache written in Rust: a concurrent hash map, a set of
CRDTs, a gossip service that spreads updates between nodes, Redis-like value
types with a database of expiring keys, and the beginnings of an in-process
cache. This directory holds specifications of its parts, the configurations with
which TLC checks them on small instances, and proofs checked by TLAPS. Paths
below are relative to the crate's `src/`; `PROJECT.json` gives for every
definition the lines it models.

1. [The system](#1-the-system)
2. [The modules and the code](#2-the-modules-and-the-code)
3. [What each run checks](#3-what-each-run-checks)
4. [Fairness](#4-fairness)
5. [What is proved](#5-what-is-proved)
6. [What is only model-checked](#6-what-is-only-model-checked)
7. [Where the code disagrees with its words](#7-where-the-code-disagrees-with-its-words)
8. [What is not modelled](#8-what-is-not-modelled)
9. [Plan](#9-plan)
10. [Running it](#10-running-it)

## 1. The system

| Part | State | Operations | What is hard | What makes it correct |
|---|---|---|---|---|
| `chashmap/map.rs`: tables | `table`, `next_table`, `transfer_index`, `size_ctl`, `count`, all atomics | `init_table`, `try_presize`, `add_count`, `help_transfer`, `transfer` | every step is one atomic access; any number of threads join, claim bins and sign off; what a thread compared may be of another resize | one resize at a time; the new table is complete when it is swapped in; a resize that began ends; nothing stays open |
| `chashmap/map.rs`: list bins | bins, nodes, the lock of each head | `get`, `put`, `replace_node`, `compute_if_present`, the transfer of a bin | readers take no lock while a transfer splits the list under them; an update may be sent on from table to table | every call takes effect at one moment between its start and its end; no key twice; the count is right at rest |
| `chashmap/node.rs`: tree bins | `lock_state` (READER count, WRITER and WAITER bits), `waiter`, the mutex, tree and list | `find`, `find_or_put_tree_val`, `remove_tree_node`, `contended_lock` | a hand-made read/write lock with parking; readers that cannot enter walk the list instead | no search in a tree that is being rebalanced; no lost wakeup; a search finds what was there all the time |
| `chashmap/node.rs`: red-black tree | the tree of a bin | rotations, `balance_insertion`, `balance_deletion`; `treeify_bin`, `untreeify`, the split of a tree bin | a long case analysis | the invariants of a red-black tree; no key lost when a bin changes its form |
| `chashmap/iter`, `clear`, `retain` | a stack of tables; a bin index | `NodeIter::next`, `clear`, `retain`, `retain_force` | a traversal crosses a resize; what it saw may be replaced or copied before it acts | each element that stays is met once; what is cleared is counted once; nothing is removed that was not rejected |
| `crdts/map.rs` | an entry clock and a nested CRDT for each key, deferred removals | `update`, `rm`, `apply`, `merge`, `reset_remove` of the nested value | what one side removed has to be taken out of the other's nested values | as for the other CRDTs |
| `crdts` | one state per data type, vector clocks | operations (`CmRDT`), merges (`CvRDT`), read contexts | operations arrive late, early or twice; states are merged in any order | replicas that have seen the same are equal; the value read is what the operations mean |
| `crdts/vvwe.rs` | version vectors with exceptions and a buffer | `ingest`, `expel` | a deletion overtakes the insertion it follows; operations come twice | what comes out adds up to what was inserted and not deleted |
| `gossip/gossip.rs`, `update.rs` | active updates with what is left of their life, digests of expired ones | `submit`, rounds, the handlers of three kinds of message, `shutdown` | messages in any order and lost; an update expires between a request and its answer; the nodes' memory of expired updates is bounded | an update is delivered once, does not come back after it expired, and reaches every node if it lives |
| `gossip/sampling.rs`, `peer.rs` | a view of aged peers; a queue of peers for the application | exchange of views, `get_peer` | selection in four steps; messages keep refilling the queue; shutdown with the receiver still at work | the view is bounded, has no duplicates and not the node itself; the oldest go first; every peer is handed out; the nodes come to know each other |
| `svalue/dict.rs` | two tables, the bucket a rehash has come to | `add`, `replace`, `delete`, `find` | each call moves a bucket; a key may be in either table | the dict is a map; a rehash ends before the next is due |
| `svalue/int_set.rs` | a byte array with its encoding | `add`, `delete`, `find` | a wider encoding is written over the narrower one in place | ascending, nothing lost |
| `svalue/skip_list.rs` | linked nodes with levels and spans | `insert`, `delete`, ranges | spans on every level | a sorted set; spans are distances |
| `svalue/zip_list.rs`, `linked_list.rs` | entries packed in bytes, each with the length of the one before; nodes with two pointers | insertion, deletion, iteration both ways | offsets and lengths that describe each other | the same sequence from either end |
| `svalue/object.rs` | a list as a zip list or a linked list; a set as an int set or a dict | push, pop, index, set, trim, delete; add, delete, members | the encoding changes under a call | a plain sequence, a plain set |
| `db/db.rs` | a dict of values, a dict of expiry times | `look_up_key`, `set_expire`, `expire_if_needed`, `delete` | two dicts that must agree | a key expires with its value |
| `lcache` | store, expiration buckets, TinyLFU | `get`, `insert`, cleanup, admission | | does not compile as it is, see section 8 |

The parts meet in few places. The tree bins are bins of the hash map: an update
finds the bin under the table protocol and then works by the bin's own lock. The
database is built from two dicts; a list or a set object is one of two containers at a time. The gossip service stands on peer sampling for
the choice of a peer and on `network.rs` for messages. The CRDTs and the cache do
not yet call the gossip service: the repository holds the pieces of a replicated
cache and not the whole.

## 2. The modules and the code

### The concurrent hash map: `ResizeCtl`, `CHashMap`, `AtomicMap`

`ResizeCtl` is the protocol by which threads agree on the table. A table is named
by its length, since each is twice as long as the one before; the null pointer is
0. The five atomics are variables (`sizeCtl` is one integer as in the code, with a stamp that
leaves `MaxResizers + 1` negative numbers to each length), and the locals of each thread are functions of
the thread. One action is one atomic load, store or compare-and-swap, in the
order of the code. A thread enters through `CallInitTable`, `CallTryPresize`,
`CallAddCount` or `CallHelpTransfer`, with what a caller in `map.rs` can have: a table
that was current when it loaded it and, for `help_transfer`, one with a Moved bin. What bins hold
is abstracted here: a bin is moved or not. The code lets a thread join a resize whose stamp it never compared with
the table it will move (map.rs:673 and 724). The specification makes these joins like any other, and the history variable
`lateJoin` remembers that there was one (`Remember`; it is read by properties only). What the code keeps until then, and what
it keeps in spite of them, are different properties, and section 7 tells what comes of a late join.

`CHashMap` extends it with the bins. `bins[n][i]` is the head of a list of
nodes; a bin whose index is in ResizeCtl's `moved` is the code's Moved bin.
`get` walks the list one node a step and follows Moved to the next table. An
update looks at the bin, installs a node into an empty bin by compare-and-swap,
or locks the head, checks that it is still the head, and makes its one store; that
critical section is one action because only the one store is visible to readers
and any other thread that wants it is kept out. The transfer makes three stores
under the lock and is three actions (`plan` holds the two lists in between); it
reuses the tail of the list as the code does. After the store, `count` is changed
and the resize routines are called as in `put`, `replace_node` and
`compute_if_present`. An iteration is one action a bin and one a node; `Traverser`
says where it goes next, with the stack of the tables that sent it on. `clear` is one
action a bin and one for the critical section; where it meets Moved it
helps with the transfer and begins again at bin 0 of the next table. `retain` is an iteration that loads the
value of each node it meets (`RetainLook`) and, if it rejects it, goes through the steps of `remove` for that key
(`Removing`), which compares the address of the value it finds with the one it saw (`AsSeen`). A new value gets an
address that no node of its key and no thread in `retain` still has (`NewAddress`), which is what the epochs promise.

`AtomicMap` is what the map promises: a call starts, takes effect in one step
and returns; only `clear` and the retains take effect in several steps, each of which takes out some keys, for
`retain` one key that holds the rejected value at that moment. `clear` is weaker still: keys it has taken out may be
there until a resize goes on, even after it has returned. They are the `doomed` of `AtomicMap`: nobody writes
them any more, and the next thing that happens to them is that they are gone. In `CHashMap` (`Doomed`)
they are the keys whose lists a transfer has stored in the next table and a `clear` has emptied there, before the transfer
has marked the old bin Moved (map.rs:512-514).
`CHashMap` implements it. An update takes effect with its store. A call
that changes nothing answers with what its key has held at some moment of the call, which
the history variable `seen` collects, so the mapping needs no prophecy. Iterations are hidden
from it; the history variable `during` collects the keys that are there at all times
and at any time of an iteration.

### A tree bin: `TreeBin`

`TreeBin` is one bin that has become a tree. `lockState` is the record of the
two bits and the reader count; `find`, `contended_lock`, `find_or_put_tree_val` and
`remove_tree_node` are followed access by access, with `park` and `unpark` as a
token that is set and consumed. The tree is the set of nodes a search can find; colours and shape decide
only whether an update rebalances and whether a removal turns the bin into a list again,
and either may happen. That nobody searches a tree that is being rebalanced is
`WriterAlone`.

### CRDTs: `Replication`, `CRDTs`, `VClock`, `Registers`, `Orswot`, `MapCRDT`, `ListCRDT`, `CausalityBarrier`

`Replication` is the same for all data types: replicas issue operations from a
read context, receive those of others in the order their actor issued them
(`CmRDT` asks no more), receive them again, or merge another replica's state. What that does to a state
is in the other modules, one operator to one method: `VClock` (clocks, `GCounter`, `PNCounter` through
`Registers`), `Registers` (`LWWReg`, `MVReg`), `Orswot`, `MapCRDT` (a map whose values are
Orswots), `ListCRDT` (`Identifier`, `List` and `GList`; a rational is an integer over
`Unit`). `CausalityBarrier` is `ingest` in front of a set: what comes out of the barrier adds or
removes an element. `CRDTs` gathers them as kinds, and
gives to each what its operations mean, from the history and not from
the state: an element is in an Orswot if some addition of it was not seen by any removal, a
register holds the values that no other Put saw, and so on.

### Gossip: `Gossip`

The state of a node is `active` (its updates, oldest first, with the pushes
left), `removed`, two queues of messages, and where its threads are in their
life. An update is its digest. A round builds the header message and expires
updates (`UpdateDecorator`; `Parted` divides the updates in those that go
and those that stay), the handlers are `header_receiver` and
`content_receiver`, one message a step under the write lock of `updates`. Messages are
taken in any order, since three sender threads of one node run side by side; a
bounded number is lost. `shutdown` is the sequence of the code, from the flag to
the last thread.

### Peer sampling: `PeerSampling`

A view is a function from peers to ages: the code shuffles it and merges through a `HashSet`, so that its order
is chance, and `select`, `head` and `permute` are the sets of views or buffers they may give. The sampling and the receiving
thread hold the lock of the view for a whole cycle or message and are one action each. `queue` is what `get_peer` hands
out next. Nodes in `here` run the service; those in `elsewhere` are known only by their messages, and
send any that such a node may. The configuration (`Worlds`) is chosen in the initial state.
`Gossip` takes its peer of a round from here: `get_peer` hands out the queue in order, then any peer.

### Sequential containers: `RedBlackTree`, `IntSet`, `SkipList`, `SetObject`, `Containers`, `SortedSet`

The first three are operators, one for a method or for a branch of a long one, on a value that
holds the whole container: the links and colours of a tree, the bytes and the encoding of an
int set (a byte with few bits in the run, so that few integers need every width), the levels and spans of a skip list. What the
code of the tree writes twice, for left and right, is written once with the side as a
parameter. `Containers` calls them in any order: additions and removals, for a tree bin also
the move to a table twice as long, which makes a tree of each half, a list of a short one, or keeps the bin.
`SortedSet` is what each is from outside, and `Containers` implements it; the call with its element or range and the
answer are a variable of both, so a step of the one is matched by the same call of the other. A node's level
in the skip list and the order of a list that becomes a tree are any. `SetObject` puts an int set, until it is
given a word, and then a `Dict` behind one set of calls and is another kind of container.

### Lists: `LinkedList`, `ZipList`, `ListObject`, `PlainList`

`LinkedList` is nodes with pointers to both neighbours; a node that is freed leaves the function of nodes, so that a
dangling pointer has no value. `ZipList` maps offsets to entries, an entry being the length of the one before and its item,
with the header's tail offset and count; what follows an insertion or deletion moves, and the entry after it gets its previous
length. `ListObject` is the calls of `object.rs` on either, with `list_upgrade_push`, which reads
the zip list from its tail. `PlainList` is a sequence with the same calls, and `ListObject` implements it, call by call: end, place, item and
range of a call are in the variable of its answer.

### Values and the database: `Dict`, `DB`, `KeySpace`

`Dict` holds the two tables, the rehash index and the operators `Add`, `Replace`,
`Delete`, `Find` with every `rehash_step` and `expand_if_needed` they make. `DB` is
the database, one action a call, with its answer. `KeySpace` says what it is from
outside: a map of values and a map of times. `DB` implements it, which says of the
dict that it is a map at every moment of a rehash and of `DB` that its two
dicts move together.

`Storage` puts `DB`, `Containers` and `ListObject` side by side: a behaviour is that of one of them, since one thread
uses each and they share nothing.

## 3. What each run checks

| Run | Instance | What it asks |
|---|---|---|
| `resize` | two threads; tables of 1, 2 and 4 bins, so two doublings; claims of one bin; counts -1..2; weak fairness of each thread | `TypeOK`; `FirstTableOnce`: the first table is stored over null only; `SwapComplete`: every bin has moved when the tables are swapped; `ForwardAgrees`: who marks a bin of a table Moved agrees on the table that follows it; `TableDoubles`: the table is only replaced by one twice as long. And until a thread joins the wrong resize, of which the run has many behaviours: `OneResizeAtATime`: a thread that allocates the next table finds `next_table` null; `ThresholdAtRest`: at rest `size_ctl` is the load threshold of the current table; `ResizeCompletes`: a resize that began is committed |
| `resize_rest` | as `resize`, without fairness and with symmetric threads | finds the violation of `NothingOpenAtRest` (section 7) |
| `map` | two threads, three calls; two keys, both in one bin until the table doubles and each then in a bin of its own; two values, both keys inserted with the first, one of them also with the second, which `try_insert`, `remove` and `compute_if_present` then meet, each on one of the keys; iterations, `clear`, and `retain` and `retain_force` of all but the first value; tables of 2 and 4; a list of 2 is already too long | `MapTypeOK`; `KeysOnce`: no reachable list has a key twice, and a key is in one place; `CountAtRest`: `count` is the number of elements once nobody is in a call; `WalkMeetsOnce`: an iteration meets each key that is there all the time exactly once and none that never was; `Linearizable`: the calls implement `AtomicMap`; `retain` removes no value but the one it rejected, though the value is stored again or its bin transferred between the look and the removal |
| `map_fair` | get, insert and remove, one value; tables, claims and keys as in `map`; weak fairness of each thread | `CallsReturn`: a call that began returns, through head locks, spinning and helping |
| `tree_bin` | two readers that search for ever and a writer; two keys; three nodes; weak fairness | `TypeOK`; `WriterAlone`; `WaiterSlotFree`, which `contended_lock` asserts; `SleeperHasWaker`: a parked writer without a token has a reader inside or on its way out who will wake it; `FindRegular`: a search finds a key that is in the bin during the whole call and does not find one that is not, though it changes between list and tree on its way; `ListIsTree`: list and tree hold the same nodes when no update is under way; `WaiterServed`: a writer that has set WAITER gets the lock |
| `gossip` | two nodes, two updates, seven configurations (push, pull or both; no expiry, by push count, by number, by age), two calls of `submit`, one node that may shut down, one lost message, one remembered digest | `TypeOK`; `ActiveOrExpired`: no digest is both; `DeliveredOnce`: an update reaches the application once while its digest is remembered; `NewestStay`: expiry by number drops the oldest; `NodesAgree`: with no expiry the running nodes come to have the same updates and keep them |
| `gossip_push` | two nodes, one update pushed once, nothing lost | finds the violation of `SubmittedIsBroadcast` (section 7) |
| `sampling` | six configurations: three nodes in a line or a ring with room for each other (push, pull or both) or with too little, and one node that hears from three others and has room for two, healing or not; one lost message; one node that may shut down | `TypeOK`: no view names its own node or outgrows its size, the queue names peers of the view once; `HealingForgets`: a node forgets only what is too much, the oldest first if it heals; `QueuedIsHandedOut`: a queued peer is handed out or leaves the view, though messages queue others; `EveryoneKnown`: where messages have room for everyone, running nodes come to know each other |
| `crdts` | three actors, three operations, two members or values; every kind; `MVReg` by states only, `List` by causally delivered operations; the map with one key, by operations without removals inside an entry and by states with them; the causality barrier by operations, in order for each actor and in any order between them | `TypeOK`; `Convergence`: replicas that have seen the same operations are equal, for the orders and the ways of exchange named on the left, which are fewer than traits.rs:50 allows (section 7); `ReadsItsMeaning`: what is read is what those operations mean |
| `crdt_mvreg` | two actors, operations only | finds the violation of `Convergence` (section 7) |
| `crdt_map` | two actors, two keys, states only | finds the violation of `ReadsItsMeaning` (section 7) |
| `storage` | one of: a DB with three keys, two of which share every bucket, two values, one key that expires, first table of one bucket, one tick of the clock; a bin of up to eight keys, some with equal hashes, that becomes a tree from the fifth on and moves once; integers of three widths; a skip list of four elements, two with one score, and three levels; a set object of integers and one word; a list object of up to four items, two of different lengths that a zip list takes and one it does not | `TypeOK`: the tables of the DB, their counts and the bucket of every key; `RehashKeepsUp`: a rehash is fast enough, no table is more than one entry over its limit; `SearchesFind`: a search finds what a container holds and nothing else; `ContainerSound`: the tree is red-black, the integers ascend, every level of the skip list is a sublist and every span the distance it stands for, a set's dict is sound; `IsKeySpace`: the database is a map of values and one of times; `IsSortedSet`, `IsList`: each call of a container or list, with its element, end, place or range, changes and answers what that call does on a set or sequence |

Why these bounds are enough to be interesting.

* *Tables.* Three lengths are needed for a thread that is late by a whole
  resize: it holds the old table of the first doubling while the second runs. In the table of two bins a stride
  of one makes two claims, so that two threads work on one resize and either may sign off
  last. The first table of one bin makes the first
  doubling happen after one or two elements. `CountRange` bounds what threads may
  add and so how often they pass the threshold.
* *List bins.* Three calls and the nodes they need give: two nodes in a bin that a transfer
  splits into both halves, one that is reused and one that is copied, with a
  reader on each and a removal waiting for the lock. The tables of 2 and 4 make a resize of two claims: with fewer bins no call
  could come to the next table by the forward of one bin while another is being moved, which is what `clear` does. The keys
  fall into different halves, so both images of the bin are non-empty when both are
  there, and one is empty when one is.
* *Tree bin.* Writers take turns by the mutex of the bin, so one that comes again and
  again is every writer to the readers; the proofs are for any number. Two readers are needed for one
  to leave last while another enters. Three nodes:
  both keys are there from the start, and one can be removed and inserted again.
* *Gossip.* Two updates make the oldest differ from the newest, one remembered
  digest (`MaxRemoved`) makes forgetting happen, and one loss is repaired or
  not: a second one adds no new situation, since a round starts from the state alone.
  `MaxWaiting` lets a round begin only when the last one's messages between
  the two nodes have arrived, which bounds the queues; rounds of the two nodes still cross.
* *CRDTs.* Three operations by three actors hold every pattern of two concurrent
  operations and a third that has seen one or both of them.
* *Containers.* The state is all of the container and the calls are not counted, so the run visits every content
  that any sequence of calls leads to. Eight keys make trees of up to four levels, on which every
  branch of both rebalancings is taken, and both a tree and a list as the halves of a tree.
* *Lists.* Zip lists give way to linked lists at three items, or at the item longer than eight bytes; a linked list
  goes on to four. Two lengths of item make offsets that no other order of the items has, and repeated
  items are what the filtered deletions are about.
* *Sampling.* Three nodes in a line or a ring have to learn of one that nobody told them of. One message under
  way at a time (`MaxWaiting`) is enough for a request to cross a change of the view, since the answer takes what
  the view is by then; views of two with four peers to hear of make every step of `select` remove
  something. Ages stop at 1 or 2: what matters is which is older.
* *Dict.* From one bucket, three keys make the dict grow twice, and a rehash of
  two buckets is left half done by any call.

In `map` and `resize` some schedules are out of the bounds. With three threads a late join leads to two open resizes
(section 7); the runs have two, and the proofs are for any number, which is why their statements end at the first late join. `map` has one
doubling, in which nobody can be late by a resize; what a second one does to the tables is in `resize`, what it does to lists, calls and `count`
in the proofs. `MaxResizers` (2^32 - 1 in the code where a word has 64 bits, map.rs:31) is 8 in the runs and is not reached.

## 4. Fairness

* `CHashMap!FairMapSpec` (run `map_fair`) and `ResizeCtl!FairSpec` (run `resize`): weak fairness of every step
  of a thread that is inside a routine. A thread that runs is given the processor
  again; nothing obliges it to make a call. The steps of a spinning thread
  (`init_table` yields and retries) are steps of it like any other, so weak
  fairness says no more than that it is scheduled. The mutex of a bin is granted
  under the same assumption: its holder is scheduled, and in these instances no
  two threads take turns for ever since `MaxCalls` bounds the calls.
* `TreeBin!FairSpec`: weak fairness of each search and of each update's steps. Nothing is asked
  of park's spurious returns nor of who gets the mutex. `WaiterServed` holds against
  readers that keep coming because WAITER sends them to the list; a writer that spins
  before it has set WAITER may starve, and the property is only about one that is setting it.
* `Gossip!FairSpec`: weak fairness of the handlers and of the steps of a
  shutdown, each a thread in a loop, and strong fairness of a round of a node with a given
  peer. A round is a thread that sleeps for the gossip period, and its peer is what `get_peer` gives: the next of the
  queue, in which no peer stays for ever (`QueuedIsHandedOut`), or one drawn at random.
* `PeerSampling!FairSpec`: weak fairness of the receiver and of the application that asks for peers, each a loop,
  and strong fairness of a cycle of the sampling thread with a given peer, which it draws at random from
  the view: with probability one a peer that is there again and again is drawn again and again. Nothing is asked
  of which peers a message names: where it has room for everyone there is nothing to choose.

## 5. What is proved

All theorems are for every value of the constants that satisfies the module's
named assumptions: any set of threads, any lengths of tables that double up to a
largest one, any stride; any finite set of readers and any set of writers; any keys and hashes.

**`ResizeCtl_proofs`**: `TypeCorrect`, `FirstTableOnceCorrect`, `SwapCompleteCorrect`.

The three follow from one inductive invariant, `IInv`. `SwapComplete` is not
inductive: it speaks of the thread that has signed off last, and one has to know
that this thread sweeps the whole table once more. That is the argument: the
thread that takes itself for the last sets `i` to the length of the table and
`finishing`, and walks down; every bin above `i` has moved and
stays moved, because a bin that is Moved never becomes anything else; when `i` has passed
below 0 all have. This holds for any thread that believes itself the last, however many
there are, so it does not depend on the counting of threads in `size_ctl`, nor
on claims: `transfer` claims `[next_bound, next_index)` and works from
`i = next_index`, one too high, and only the sweep makes up for the bin that a claim
misses. `FirstTableOnce` needs that only a thread that has put -1 into
`size_ctl` stores a first table, that -1 is replaced only by that thread, and
that before the first table there is no next table and no thread past the loads
that need one. There is one lemma per routine, with one step per access, and a conjunct
of `IInv` for what each place in a routine knows.

**`ResizeCtl_proofs`**, second part: `OneResizeAtATimeCorrect`, `ForwardAgreesCorrect`, `TableDoublesCorrect`,
`ThresholdAtRestCorrect`, `NothingOpenAtRestCorrect`, of `Spec`, for any number of threads and tables.

The code does not keep these for ever: after a thread has joined a resize whose stamp it never compared with its table they may fail, and
section 7 tells how, for `NothingOpenAtRest` with two threads and for `OneResizeAtATime` with three. The theorems say when they
hold: in every behaviour of the code as long as `lateJoin` is FALSE. So each failure has a late join before it, and the comparison
that the Java original makes (`(sc >>> RESIZE_STAMP_SHIFT) != rs`) is all that is missing: not a second
one, not an order of the loads, not a bound on how late a thread is.

The invariant is `IInv /\ (lateJoin \/ CInv)`: a step without a late join keeps `CInv` (`StepsMatch`). While `size_ctl` holds the stamp of `n` it counts the threads that move `n` and
have not signed off (`Resizing`), no thread moves another table, and somebody sweeps exactly when nobody is counted:
so the last to sign off is the last, and it alone clears `next_table`. Above -1 nobody transfers and `next_table` is null
(`Quiet`); from 0 on the value is the threshold of the table (`AtRest`); -1 has one holder, who will put that threshold back (`Held`).
The hard part is what a late thread knows (`Knows`). One that would start a resize has a threshold of its table or an earlier one,
so its compare-and-swap fails once the table has grown; one that would join has read a stamp, and if the very value is
still there, then the resize of that stamp is open and the `next_table` it read is the one being filled. Two stamps are further apart
than the threads they can count (`StampGap`), which is where `MaxResizers` comes in.

**`CHashMap_proofs`**: `MapTypeCorrect`, `ListsEndCorrect`, of `MapSpec`, for any threads, keys, values, hashes, tables, calls and nodes.

The type invariant of a heap with pointers needs what a list is. `Linked` says that a next pointer is null or a node that was
allocated, `Ranked` that the nodes can be numbered so that the numbers fall along every list; `Reach(nd, h)` is the smallest
set with `h` and, with each node, the next one. A heap so ranked has a function that follows its lists (`ChainExists`, `HoldingExists`),
so that `Chain` and `ChainHolding` are what their recursive definitions say (`ChainIs`, `HoldingIs`), and `Chain(h)` visits `Reach` of `h`,
each node once (`ChainWalks`). Then each store of the code is a lemma about heaps: a value replaced (`ValueStored`), a node appended
(`NodeLinked`, `NodeBehind`), one taken out (`NextStored`, `NodesSkipped`), a list copied up to its last run (`SplitNodes`, `SplitRanked`, `SplitLists`).
The last is the transfer: the copies, each in front of what is there, are ranked above all old nodes, so that no cycle closes whichever
nodes go to which half. `MapTyped` adds what the place in a call says of the call (`Control`), e.g. that a call about to
lock has a node and a table and is in no routine of the resize. It holds on top of `IInv`, since a step of a call is a step of `ResizeCtl`, a call
of one of its routines, or nothing to it (`MapResizes`). `MapTypeOK` itself says only that no node points at itself; that no list comes back
to a node at all is `ListsEnd`, which is `Ranked`. Neither needs to know of late joins.

**`CHashMap_proofs`**, second part: `KeysOnceCorrect`, of `MapSpec` until a late join, for any threads, keys, hashes, tables, calls and nodes.

`KInv` says where the entries of a bin are. A bin is `Live` if it is of the current table, has moved, or is where one that has moved
went; a live bin has a list of its own keys, each once (`LiveBins`), and is empty once it has moved (`MovedEmpty`). Any other bin is empty or a draft:
the half of a list that a thread has stored in the next table and not yet marked (`OtherBins`, `Drafts`). What a thread
that holds a bin has made of it stays right (`PlanFits`) because the bin's first node stays locked and no two threads hold one bin
(`PlansApart`): an update of the same bin waits for the lock, and one of another bin has no node in common with it (`RootsApart`), although
the two halves share the last run with the old list. A call that is about to read or lock a bin aims at a live one (`Aims`), which is
the argument against an update that comes late: the table it loaded may have been replaced since, but then all its bins have moved
(`MovedWhole`) and are seen to have; a bin that has not moved is the current table's. Where a bin has moved, the next table's is live at once
(`NextLive`), and whether the call follows the pointer or helps first it comes to that one.
Lists then only shrink (`ListsShrink`), grow by a key they lack (`ListsGrow`), or split (`SplitTwoLists`), whose halves are of the right keys because the
bit that decides is the one by which the two indices differ (`BiniHalves`).

**`MapAtomic_proofs`**: `LinearizableCorrect`, the refinement, and `CountAtRestCorrect`, for any finite set of threads, any keys,
values, hashes, tables, calls and nodes. Every step of `MapSpec` up to the first late join is a step of `AtomicMap` or changes nothing it sees, and
so a behaviour without one is a behaviour of `AtomicMap`.

The mapping takes `Contents` for the map, what the list of a key's home bin holds, and what a caller sees for the calls (`CallSeen`, `EffectSeen`,
`ResultSeen`; `seen` is a history variable of both). The invariant, `LinInv`, is `KInv` with the values added to the keys:

* `ValuesAt(node, x, k)` is the set of values of `k` from node `x` on, at most one in a live list. By `HomeFits` it is what `Contents` says in the home bin,
  and a call that has come to a bin that is not Moved has come to the home bin of its key (`AimedAt`). So one store of a critical section
  changes `Contents` at one key, and to what `AtomicMap` says (`RewriteContents`, `PutLockedMeans` and its like).
* `PInv`: the two lists a transfer has made hold for each key of its bin what the old list does, until it ends (`SplitWhole`). The copies
  and the shared last run make this true when they are made (`SplitMeans`); the lock keeps it true. The stores of the two lists change nothing (`StoresMeans`).
  The mark makes the new lists the home (`ListBinMeans`): where `clear` has emptied one meanwhile its keys vanish, and these are the
  keys `Doomed` held (`DoomedKnown`, by which a `doomed` key is one of a bin that some thread still moves and that
  nobody can lock, so nobody writes it).
* `RInv`: a search without a lock is under way in a list that may be cut, copied or unlinked behind and under it. What it will still find is
  a value its key has held since it began, and if it will find nothing then there was a moment with nothing (`Sees`).
  Every store keeps that (`ReadsStay`): from any node on, the values reachable only become the new value, or go when the key has gone; a node that
  was unlinked still leads to what came behind it. This is why `get` needs no lock and no second look, also in a table that has been replaced.
* `AInv`: two nodes of one key with one address have one value (`SameAddress`), and so has the node that a `retain` is about to remove the
  value it rejected, if the address is still the one it saw (`SightFits`). A copy made by a transfer has the address of
  its original, so the removal finds it; a new value has another.

Each step then is one of `AtomicMap`'s or changes nothing that a caller sees (`StepFine`): the store of an update, the read that answers,
an entry that `retain` takes out, a bin that `clear` empties, the mark under which doomed keys vanish, the beginning and the end of a call.
`CountAtRest` stands on the same invariant. `Balance` says what is true in between: `count`, with the puts that are stored and
not yet counted (`Uncounted`), is the number of keys that stay, with the removals and the bins' worth of a `clear` that have
gone and are not yet counted (`Departed`). A key stays if it is there and no `clear` has doomed it: a doomed key is still found but already
counted out, and the mark that makes it vanish changes no account. Of each step one shows what its thread's share changes by
(`StepTallies`); the hard one is `ClearLocked`, where the number of nodes that `clear` walks has to be the number of keys that stop staying, in a bin
that is live (`ClearLive`) or a draft of another thread's transfer (`ClearDraft`). At rest nobody has a share and nothing is doomed.

Besides the assumptions on tables and hashes it takes `ThreadsAssumption` (finitely many threads, so that there is a new address) and `NoneAssumption`
(an absent entry is no value), which TLC evaluates on the runs of `CHashMap`.

**`TreeBin_proofs`**: `TypeCorrect`, `WriterAloneCorrect`, `WaiterSlotFreeCorrect`,
`SleeperHasWakerCorrect`, `FindRegularCorrect`, `ListIsTreeCorrect`, for any readers, writers, keys and first nodes.

The first four are about the lock. `IInv` adds to the types that the mutex has one holder (`MutexHeld`); that
`lock_state.readers` is the number of threads inside the tree
(`ReadersCounted`, by cardinality lemmas for a thread that enters or leaves); that the
WRITER bit is set exactly while an update is between taking and releasing the root lock
(`WriterBit`); that WAITER is set exactly while the holder of the mutex waits
(`WaiterBit`) and the handle is stored only by it (`WaiterSlot`); what a writer
about to compare-and-swap expects (`Expected`); and who will wake a sleeper
(`Sleepers`). `WriterAlone` then is: the writer took the lock from a state
without readers, and with WRITER set no compare-and-swap of a reader succeeds.
`SleeperHasWaker` is the argument against a lost wakeup: the writer parks only after
it saw readers with its handle in place, and the last of them sees the WAITER
bit in the value its `fetch_add` returns, and reads the handle after it.

The last two are about the nodes, and rest on `FInv` (`ListInvariance`): there is a set `L` of nodes that is the list. Insertions
are made at its head, so the nodes have an order (`Rank`: the first ones by index, later ones before all of them) in which every `next`
leads forward and none leads past a node of `L`, **also from a node that has been unlinked** (`Chain`): that is why a search that stands on an
unlinked node meets what is still there. Tree and `L` differ only by the node the holder of the mutex is at, which is linked into the
list before the tree and taken out of it before the tree (`TreeAgrees`, `WriterAt`), and the keys of `L` are what the finished updates
left, but for the one under update (`PresentAgrees`). Of a search it says that the answers it may give follow the updates
(`AnswersAt`) and that its walk leads to one of them (`WalkAt`): if it may not miss, its key is still `Ahead`; if it may not hit, it is in a
set of nodes without the key that no link leaves (`Clear`). `FindRegular` is read off at the end of the walk, on either of its ways. For
`ListIsTree` the recursive function that follows the list from `first` is shown to exist (`WalkExists`) and to
be `L` at `first` (`WalkIsList`, by a least counterexample); with the mutex free `L` is the tree.

**`Gossip_proofs`**: `TypeCorrect`, `DeliveredOnceCorrect`, `ActiveOrExpiredCorrect`,
`NewestStayCorrect`, for any nodes, updates, configurations, numbers of messages and losses, and any bound on
what is remembered.

The inductive invariant `IInv` is about what becomes of a digest in one node. Active updates are distinct
and so are remembered ones, and no digest is both (`ListsApart`); what ever came to a node is active, remembered or
forgotten (`Remembered`), and is counted once as long as it is not forgotten. The step that matters is expiry: whichever
of the four kinds chose them, the updates that stay and those that go divide the list and have nothing in common
(`ExpiredDivides`), so what leaves `active` enters `removed` in the same step; what is trimmed off
`removed` enters `forgotten`, which is the only way for a digest to become new again. Messages do not
matter at all: a content is taken only if its digest is new when it is handled, whatever was true when it was
asked for, and that is why late, lost and repeated messages are harmless. Of the bound on `removed`, what holds is that
a node over it has left out `Forget` updates: a bound where there are no more than `MaxRemoved + Forget`, and none beyond (section 7).

**`PeerSampling_proofs`**: `ViewsSoundCorrect`, `TypeCorrect`, `HealingForgetsCorrect`, for any nodes, sizes, contacts and losses.

`IInv` says of views, and of the views in messages, that they map peers to ages (`ViewsSound`), and that only nodes
that run the service here have any (`OnlyHere`). Merging leaves out the node itself; selecting then leaves
exactly the size of a view when there was more (`SelectedSize`, by the cardinality theorems), so a view
outgrows it only by the contacts it began with. For `HealingForgets`, a step after which a node knows less is the end of
the service or a selection (`ForgettingIsSelecting`), and a selection that heals has taken the oldest of the
merged view. `TypeCorrect` adds the queue (`QueuesSound`): what is left of it when peers leave the view is a recursive function,
shown to exist and to keep the rest in order and once each (`KeptExists`, `KeptTyped`, by least counterexamples), and the peers queued
behind it were not in it (`ConcatQueued`).

**`DB_proofs`**: `TypeCorrect`, `RehashKeepsUpCorrect`, `KeySpaceCorrect`, for any finite set of keys,
any hashes, values and times, any initial size and any number of calls. The one assumption about arithmetic
is that powers of two outgrow their exponents up to twice the number of keys (`PowersAssumption`): the prover
knows nothing of exponents, and `next_power` doubles until it is large enough.

The first part is about tables as buckets that hold a set of entries (`Holds`): what joins, leaves, empties or fills a
bucket leaves buckets that hold the set one expects. A dict is `Good` when both tables count what they hold, no key has two entries,
the buckets before `rehash_idx` are empty and, outside a rehash, the second table is. Each step of a call
keeps `Good` and says what it does to all the entries: a step of the rehash nothing, whichever bucket it
moves, so a caller finds the same before and after it (`SameContents`).
`RehashKeepsUp` is not inductive. What is, is `Tight`: an entry still to be moved counts twice (`Weight`), and the weight is at
most one more than the size of the table being filled (`Capacity`). A new table is given room for
twice the entries, hence for their weight; each call first moves a bucket that has entries, which takes
at least one off the weight, and then adds at most one. The swap at the end changes neither.
The second part has a lemma for each call: from `IInv`, which is both dicts being `Good` and `Tight`, the call keeps `IInv`
and is the step of `KeySpace` that it stands for, with its answer. That is the refinement: `DBSpec => KeySpace!Spec`.

**`CRDTs_proofs`**: `ConvergenceCorrect`, `ReadsItsMeaningCorrect`, `TypeCorrect`, and about clocks and merged
members `MergeIsLeastUpperBound`, `MergeIsJoin`, `MergedEntryOfAbsent`, `MergedEntryCovered`; for any actors, members and values and
any number of operations. The data types are `GSet`, `GList`, `GCounter`, `PNCounter`, `LWWReg` and `Orswot`, by operations and by states, and
`MVReg` by states (`ConvergingKinds`): by operations it does not converge (section 7). What is assumed of the constants is that the
steps of a counter are unsigned and that actors are ordered, which makes markers unique (`Registers`).

Convergence is no invariant that a step could preserve: it compares two replicas. What is, is that the state of a replica
is determined by the set of operations it has seen (`Reflects`): the clock of a counter is the clock of its dots, nothing newer
and nothing invented (`IsClockOf`); a register holds the newest update, or the puts that no other has seen; an `Orswot` has of each
actor's newest addition of a member what no removal has seen, and defers exactly the removals that have seen more than it
has. Two such states of the same operations are equal (`ReflectsIsUnique`), so convergence follows, and so does what is read
(`OrswotMeans` and its like). Then each data type has three lemmas: the new replica reflects nothing, to apply
an operation adds it, seen before or not, and to merge adds what the other has seen.
The one that took the most is `OrswotMerges`. A member's merged clock has at each actor the dot of both, or the one that the other side has
not seen; why that is the newest addition that lives needs that what a replica has seen of an actor is what came first
(`CameFirst`), which is what `CmRDT` asks of delivery and what merging keeps.
Of the logs the invariant says that an actor's dots ascend, that a marker or the clock of a put is never used twice, and
that no clock is ahead of what was issued (`LogsSound`): each because an actor has seen all it has issued.

## 6. What is only model-checked

* Liveness (`ResizeCompletes`, `CallsReturn`, `WaiterServed`, `NodesAgree`, `QueuedIsHandedOut`, `EveryoneKnown`):
  liveness under fairness is out of the proof system's reach.
* `CHashMap`'s `WalkMeetsOnce`; and `KeysOnce`, `Linearizable` and `CountAtRest` after a late join, of which the run `map` has none to
  offer, since it has one doubling. `resize` has: `ForwardAgrees` and `TableDoubles` are checked there without condition.
* The convergence of the CRDT map, of `List` and behind the causality barrier, which fold over sequences or recurse; and that the value
  of a counter is the sum of its steps, which is an induction over them (that its clock is theirs is proved).
* The containers, the lists and the CRDT map, most of which recurse over what they hold.

## 7. Where the code disagrees with its words

Four runs end in a violation of something the repository states:

* `resize_rest`. `help_transfer` (map.rs:673) compares `table` and `next_table`
  with the map's and only then loads `size_ctl`, whose stamp it never compares with
  that of its table. A thread that is delayed between the two joins the next
  resize with the table of the last one. It finds nothing to move, and if it is the
  last to sign off it does not recognise itself (map.rs:426) and leaves: nobody commits
  the resize. `Drop` asserts that `next_table` is null (map.rs:1617).
* `gossip_push`. A push is counted, and an update on its last push dropped
  (gossip.rs:269), before the header is sent; the peer asks for the content and it is no
  longer there. With `PushCount(1)` no update ever leaves its node.
* `crdt_mvreg`. `Put` keeps only the values whose clock is *greater* than its own
  (mvreg.rs:138) and so drops concurrent ones, where the comment says that the
  dominated ones are dropped. Exchanged as states, registers converge, and the
  `crdts` run checks that.

* `crdt_map`. When only one side of a merge has an entry, what the other side has deleted is taken to
  be its clock less the entry's clock (map.rs:294). A clock keeps one counter for each actor: if an actor added
  one member to the entry and then another, and the other side saw the first removed, the
  entry's clock holds the second dot, the first is not subtracted, and the removed member is back.

Seen while modelling; the models do what the code does:

* `add_count` with a negative `n` computes the old count plus `|n|`
  (map.rs:685), so a removal by `compute_if_present` may start a resize early.
* The same missing comparison with three threads ends at another assertion, that `next_table` was null when it was allocated (map.rs:371).
  The CAS of `add_count` (map.rs:724) may join from -1, the mark of a late claim in `init_table`, if the
  loads of `table`, `next_table` and `transfer_index` fell into a resize that was over by then. It turns -1 into 0, a threshold, by which
  the second thread starts a resize; the third, whose claim it was, puts its own threshold back over the stamp of that resize and may
  start it once more. `tlc -config MCResizeCtlThree.cfg MCResizeCtl` shows it as a violation of `NextTableFree`, in 48 states. With two threads there is nobody to be the third, and the
  assertion holds in `resize` without the condition too. `TypeOK`, `FirstTableOnce`, `SwapComplete`, and `ForwardAgrees` and `TableDoubles` without
  condition, hold in that instance of three threads.
* `init_table` may store back a `size_ctl` that is stale when the claim comes after
  the table exists (map.rs:255). Its holder puts the right one back, so `ThresholdAtRest` holds until a late join; after one, a resize
  that nobody commits leaves the stamp in `size_ctl` (the trace of `resize_rest`).
* `clear` that meets Moved starts again at bin 0 of the next table (map.rs:871). By then `help_transfer` has
  moved what it could claim, but bins another thread is moving may come in behind it; `AtomicMap`
  therefore lets `clear` leave keys, and asks only that each one is taken out and counted once. It may also empty the
  lists that another thread has stored there of a bin not yet marked Moved (map.rs:512-514): `clear` has counted them and returned,
  and the keys are still found through the old bin until the mark is stored and they disappear, with no call at work that
  removes them. TLC finds this after three calls (a `clear` passes a bin while it is empty, two insertions fill that bin and double
  the table); hence the `doomed` keys of `AtomicMap`. No comment says what `clear` promises under concurrency.
* A removal inside an entry of a CRDT map that is delivered before what it has seen stays deferred in the nested
  Orswot with a clock that was reset meanwhile, so equal histories leave unequal states even under causal
  delivery. The `crdts` run exchanges such removals by states only. Mixing operations and
  merges on one map may bring a nested member back.
* An insertion into a `GList` between two elements whose identifiers start alike may land outside them
  (identifier.rs:64, against identifier.rs:16), and `insert_before(None)`, `insert_after(None)` have no bound to keep.
* A skip list whose last node is deleted takes one from a span of zero (skip_list.rs:326): a build with
  overflow checks stops there; otherwise the sum wraps back to the right span, which is what the run shows (`WordSize`).
* `ZipList` with entries of 254 bytes or more (by reading; the model keeps them shorter): `inner_delete` sets the tail
  offset without the change of width of the next entry's previous length when that entry is the tail
  (zip_list.rs:826), so that popping the head of a long and a short item and then the tail reads four bytes off;
  `force_write_large_prev_length` writes five bytes that are later read as one (zip_list.rs:265). List objects
  let a zip list have items of up to 65536 bytes, and `list_set` of any length (object.rs).
* `list_del_n` with `n = 0` subtracts one from it as soon as it finds the item, and `list_trim` stops at an
  assertion when the range ends beyond the list. Integers in a zip list or an int set lose their spelling: `007`
  and `+5` come back as `7` and `5`.
* `removed_updates` drains `margin_size` digests once it is over its bound (update.rs:158), and stays over it
  when more expire at a time.
* Peer sampling: the swapping factor decides which peers of the front of the view go, but the view has just come out of a
  `HashSet` and its order is chance. `update_queue` queues every peer of the view that is not queued, also one just handed
  out. With a view size below 2, `c / 2 - 1` has no value (sampling.rs:366), and with 2 or 3 a node tells of nobody but
  itself. `shutdown` clears the view while the receiver is still at work and may fill it again.
* The causality barrier takes operations of one actor in order only. Of a version from the future it records the gap
  without moving on (vvwe.rs:50), so it takes that version again and lets it out twice; and the version that is next is
  itself not among the exceptions while those behind it are, so that when they come one by one they stay
  exceptions, and what follows them waits for ever. A dependent operation is stored over another that waits
  for the same one, and an operation whose dependent waits is dropped with it, which is right for
  insertions and their deletions only.
* `TreeBin::find` is a regular read and not an atomic one: two searches, one on the list
  and one in the tree, may see an insertion in different orders.
* `shutdown` of the gossip service stops the listener first; the message with which
  the sampling service stops its own receiver then finds it closed, `shutdown` returns
  an error and the updates are never cleared. The `error` flag is captured by
  copy (gossip.rs:331-336). `on_update` is called under the write lock of the
  updates, so a handler that calls `submit` would wait for itself (gossip.rs:209).
* A digest dropped from `removed_updates` is forgotten, and the update is delivered
  again if a peer still has it.
* `MVReg`, `Orswot` and `Map` build maps keyed by reduced clocks in `reset_remove`,
  where equal keys overwrite each other (orswot.rs:221).
* `Identifier::between` has no bounds when one path's rationals are a prefix of the
  other's (identifier.rs:64). `List` needs causal delivery, not only the order of each actor
  that `CmRDT` asks for: a deletion before its insertion is lost.
* `DB::delete` refuses a key without a time to expire and leaves its value. A
  time set on a key with no value waits for the next value of that key. A failing
  `Dict::add` may still expand. `slot` counts the table that is being
  drained. `set_hash_function_seed` would break a dict that has entries; nothing calls it.

## 8. What is not modelled

* `lcache`: `store.rs` moves out of borrows and returns references to guards, and does
  not type-check; its insertion of a new key unwraps a missing old item.
  There is no behaviour to be faithful to. `DBCache` is built on it.
* Tree bins within `CHashMap`: tables shorter than 64 bins grow instead, and all tables of the
  instances are shorter. `RedBlackTree` has their transfer, treeification and untreeification as sequential
  steps, for a table long enough; that searches go on meanwhile is modelled for insertions and removals only (`TreeBin`).
* Epoch-based reclamation (`crossbeam_epoch`): memory is never reused in the models while a guard may see it. A node
  that is retired keeps its fields, which is what a guard promises a reader.
* Entries of a zip list from 254 bytes on, where the code fails (section 7), and operations of one actor out of order
  at the causality barrier, for the same reason.
* `zset.rs`, `util.rs`: a constructor, and parsing. `append` and `clone` of a linked list, and
  intersections of sets: no caller, or they change nothing.
* `SeqCst` is interleaving; the few weaker orderings of `node.rs` (Acquire and
  Release on links) are read as interleaving too.
* TCP, CBOR, hashing, formatting, logging, metrics, the rayon and serde adapters,
  wrappers without state (`HashSet`, `map_ref.rs`, `set_ref.rs`), `main.rs`,
  `server.rs`.
* The parts the plan lists.

## 9. Plan

In the order of their importance; each joins the module it composes with.

1. Done: `ResizeCtl`, `CHashMap` over it with `Traverser` and `AtomicMap`, `retain` included; `TreeBin`; `Gossip` and
   `PeerSampling`; `Replication` with the CRDTs, `MapCRDT`, `GList` and the causality barrier among them;
   `RedBlackTree`, `IntSet`, `SkipList`, `SetObject` in `Containers`; `LinkedList` and `ZipList` in `ListObject`;
   `Dict`, `DB` with `KeySpace`; the proofs of section 5.
2. The transfer, the iteration and the clearing of a tree bin that is being searched, on top of `TreeBin`.
3. `List` under the order that `CmRDT` asks for, and where an identifier between two others lands: both fail (section 7), each
   wants a run of its own.
4. The expiration buckets and TinyLFU windows of `lcache`, which stand on their own; the rest when it compiles.
5. Proofs: `WalkMeetsOnce`, for which an invariant of what a traverser has still to visit is needed; and what of `KeysOnce` and
   `Linearizable` outlives a late join.

## 10. Running it

`tlc -config <run>.cfg <module>` for each line of `runs` in `PROJECT.json`;
`tlapm ResizeCtl_proofs.tla`, and the same for `CHashMap_proofs`, `MapAtomic_proofs`, `TreeBin_proofs`, `Gossip_proofs`, `PeerSampling_proofs`,
`DB_proofs` and `CRDTs_proofs`. The longest runs take about three minutes with two workers.
