# The block library in TLA+

A verification project for the library of IOTA block types in this repository
(`include/block/*.hpp`, `src/*.cpp`). Paths are relative to the repository;
the specifications are in this directory.

The library is sequential C++ over Qt: no threads, no sockets, no files. Its
objects are built by a client, written to bytes (`serialize`) or to JSON
(`get_Json`), and built again from bytes or JSON that came from somewhere else.
What can go wrong is therefore not a race of threads but

* two pieces of code that must agree about a format and are written separately,
  once per class: a writer and a reader;
* bytes that are not the ones that were written: cut, or of a newer program. No
  read looks at the state of its stream, so there is no error path: a short
  stream gives an object;
* sizes that do not fit the width they are written in;
* long sequences of legal calls on one mutable object that is an output of the
  ledger, then its successor, then the successor of that.

## Inventory

| component | state | operations | used by |
|---|---|---|---|
| byte arrays, streams, containers (`carray.hpp`, `carray.cpp`) | bytes; a `pset` of pointers ordered by what they point to | `<<`, `>>` of `c_array` and `fl_array`, `serializeList`, `deserializeList`, `from_object`, `to_object`, hex strings | everything |
| addresses, unlock conditions, features, native tokens, token scheme | immutable objects with a kind | factory, `from_`, `serialize`, `get_Json`, `operator<` | outputs |
| inputs, signatures, unlocks | immutable objects with a kind | the same | payloads |
| outputs (`qoutputs`) | an amount, four lists and the fields of a class, public and mutable; a private identifier | factories, `from_`, `serialize`, `clone`, `set_id`, `get_id`, `consume`, `min_deposit_of_output` | clients, essences |
| essence, payloads (`qessences`, `qpayloads`) | shared pointers to the objects above | factories, `from_`, `serialize`, `get_hash`, `get_id` | blocks, clients that sign |
| block (`qblock`) | version, parents, payload, nonce | constructors, `set_pv`, `set_parents`, `set_nonce`, `serialize`, `operator<` | clients, tests |
| output metadata (`qoutput_metadata_response`) | what a node says of an output | constructor from JSON | clients |
| JSON forms | none | `get_Json` and constructors of every class | clients |

Components interact by calls only: a block writes its payload into a buffer of
its own, whose length goes first; a transaction payload writes its essence, the
essence its inputs and outputs, an output its lists, a list its elements. The
readers nest in the same way on one stream, and each consumes what it likes of
it. Outputs are shared: the essence holds pointers to objects the client can
still change.

What makes each part correct:

* *streams*: a value written and read is the value, and no more and no less of
  the stream is consumed; past a width, and on a short stream, what happens is
  silent, so it must at least be bounded and must not look like the real thing;
* *elements, outputs, blocks*: reading what was written gives an equal object
  and leaves the stream where the next object begins; nothing that was read
  makes a later call fail;
* *output chains*: the identifier of an NFT or alias is the hash of the output
  that began the chain, whatever the client called and how often; a foundry
  keeps its token; a successor carries nothing it was not given;
* *signatures*: what was hashed and signed is what is sent, although the essence
  keeps pointers to outputs the client can still change, and the identifiers
  computed from a transaction name what a node books;
* *JSON*: reading what was written gives an equal object, up to the widths of the
  conversions, and one strange key costs no more than the field it stands for;
* *deposit*: the product of 64-bit words is the price of the output, or it wrapped.

## Modules

    Wire            bytes, integers, arrays, psets
      Elements      the classes that hold no list
        OutputCodec   one output written and read        implements Clone
          BlockCodec    a block written and read, through OutputCodec's steps
        ElementsProofs  what is proved of Elements
          PsetProofs      of the lists
            OutputCodecProofs   of the outputs
              BlockBytesProofs    of the texts of blocks
                BlockProofs         of the blocks, whole and cut
          Deposit       the storage deposit of what OutputCodec wrote
            DepositProofs
    OutputChain     outputs and their successors on the ledger
      OutputChainProofs
    Signing         essences, signatures and identifiers       implements Transfers
      SigningProofs
    JsonForms       every class written to JSON and read
    MCOutputCodec, MCBlockCodec, MCOutputChain, MCSigning, MCJsonForms: instances for TLC

**Wire.** A stream being read is the byte string that is left; every read is an
operator that answers `Got(value, rest)`. `ReadInt` and `ReadRaw` are Qt's
behaviour on a short stream (zero; a partial copy), `ReadArray` is `fl_array`'s
`>>`, in which memory shows through when the stream is short: `Junk` is what it
may hold. An integer the library does not compute with is its little-endian
bytes; a count or a tag is a number, cast to its width by `UInt`.

**Elements.** One `Write...` and one `Read...` operator per class family. `Read...`
is `from_<QDataStream>` with the constructors it calls: the kind is read first,
and an unknown one gives `nullptr` with only the kind consumed. A hash, an identifier, a
key or a signature is a byte array, which keeps any number of bytes (`c_array`): from
JSON it has as many as its string, and none when the key is missing. It is written as it
is and read as the number of bytes it should have. `AddressFits`, `TokenFits`, `InputFits`,
`SignatureFits` and what is built from them say that an object can be read back.

**OutputCodec.** `WriteHead`, `WriteItem`, `WriteNext` and `WriteNull` are the steps of
`serialize`; `Deliver` gives the reader a stream; `ReadHead`, `ReadItem`, `ReadNext`
are the steps of `from_`, and `Insert` is `std::set` with `ptrLess`. The fields of one class (`WriteOwn`, `ReadOwn`) come
between the native tokens and the other lists. `"crash"` is the place of a call
that followed a null pointer. `CloneReceived` then clones what was read, the way
a client goes on with an output it got from a node.

**Clone.** What `Output::clone` promises: in one step, an equal object. `OutputCodec`
implements it when the whole stream is delivered (`ImplementsClone`), with fairness.

**BlockCodec.** The client's constructor and setters, in any order and not
necessarily all of them; `WriteBlockHead` ... `WriteNonce` are `operator<` and
`Block::serialize`; `ReadBlockHead` ... `ReadNonce` the constructor. For a
transaction the outputs of the essence are written and read by the actions of
`OutputCodec`, of which `BlockCodec` is an extension: `WriteOutput` and `ReadOutput` enter
it, `TakeOutput` leaves it. Then `Forward`: the client that read a block serialises it
in its turn and the next program reads it (`round` 2). The stream may also be one of
another program (`ForeignStreams`): a transaction as the payload of an essence, which the
same constructors would read again, is where the reader ends (`ReadNested`, the place
`"nested"`); a payload of an unknown kind is dropped without its content, any other object of an unknown kind is a null pointer, which the
writer of the next round follows (`bat`, `wat` = `"crash"`).

**OutputChain.** Pointers to outputs (`heap`), for each one the ledger output it was
taken from, how far the client is with it (`stage`) and what the client added
(`added`, a history variable); the ledger as a sequence. `set_id`, `get_id` and
`consume` are operators on outputs that follow the class's override. The ledger
is external: it takes an output without a predecessor, or the successor of an
output that has none yet, made by a client that called `set_id` and `consume` on what
it took, in either order and any number of times. An output's identifier is its
place in the ledger. Pointers do not share an object here: two pointers to one
object would see the same calls.

**Signing.** The client's pointers (`ptr`), the objects they point to (`heap`), the
transactions as the library holds them (`txs`: identifiers of inputs, pointers to
outputs) and what went out (`sent`). `get_hash`, `get_id` and `PayloadBytes` read the
heap anew on each call, as the code does; `Sign`, `Send` and `Learn` (the client calls
`get_id` and names its outputs by it) are in any order the client's discipline
allows. There are two disciplines: `"clone"`, never to change an output that was
given to an essence, and `"share"`, to change it only after the transaction was
booked and not to send it again. The disciplines are the client's, the library
demands neither: they are the two ways of using it that the code admits. Two
things the client must do itself are in the guards and so not in question here: it
takes the commitment to an output before it changes it (`MayChange`; `get_inputs_Commitment`
hashes whatever it is given, `src/qblock.cpp:9`), and it asks for the identifier of a
transaction once and names all its outputs by it (`Learn`). A hash
is known by what was hashed, and bytes are the value they are the bytes of.

**Transfers.** What a client takes a transaction for: a value that is made, signed
as it was made and sent as it was signed. `Signing` with `"clone"` implements it
(`TransactionsAreValues`).

**JsonForms.** For each class a table of the keys `get_Json` inserts, with the
conversion of each (`Writes`), and a table of the keys the constructor reads, with
theirs (`Reads`). `Write`, `Read` and `SetId` are the client's calls; `Edit` is another
program, which changes one key: it is gone, of another type, a number that its field
may not hold or that was a string, in another order, of an unknown kind, or of a kind that
agrees in the low byte only. To the JSON of a block it may also add the keys that the
constructor looks for and `get_Json` never writes: `"outputs"` and a `"type"`. Each number is
read by the conversion of its constructor (`toInt`, `toInteger` or `toULongLong`) and then
cast to its field (`quint8` ... `quint64`), so that a protocol version of 258 is 2.
The class of 256-bit numbers belongs to another library and its string is external.

**Deposit.** `min_deposit_of_output` in words that wrap (`Wide` values in a word), applied to
the length of what `OutputCodec` wrote with the weights and prices of some nodes
(`Prices`): `DepositExactIfFits`.

Some definitions come with a second one, named after it and placed before it,
that is the same code with a slip in it (`ReadNonceRaw`, `consumeBase`, ...). They
are used by no action; exchanging one for the original breaks the property that
`PROJECT.json` pairs it with, which shows that the property can see that slip.

## Runs

All runs check deadlock; a finished call stutters (`Finished`, `BlockFinished`), and
`OutputChain` and `Signing` never stop.

| run | question | states |
|---|---|---|
| `CloneWhole` | Is an output of every class, with every kind of element, read to its last byte, and is `clone` one step that gives an equal object? | 236 |
| `CloneLimits` | Up to which sizes? Exactly to the largest the prefix counts: one more token, or byte of a tag, or an immutable feature put into a Basic output, and the copy is another output, and so it is with an identifier, address hash or token id that is shorter or longer than it is read, as of an NFT that came from JSON without its `nftId`. Is the deposit the price exactly when the price fits a word? | 930 |
| `OutputCut` | What is built from a stream cut at any byte, or of a newer program? Numbers whole or zero, an object and no null pointer when the stream was only cut, psets in strict order, and what was read clones to its equal unless it holds a null pointer. Every call ends. | 4 650 |
| `BlockTrip` | Is a block read as it was written, whichever setters were called, and forwarded unchanged? And with counts at and past their widths, hashes, identifiers, keys and signatures of other lengths, and a payload whose length is cast to zero? It is then another block, in silence. | 41 149 |
| `BlockForeign` | What becomes of the blocks of another program? A payload of an unknown kind shifts what follows it; other unknown kinds crash the reader beside another element of a pset, otherwise the writer that forwards them; nothing else does. | 11 952 |
| `BlockCut` | Can a cut block be taken for the whole? Only if zeros were lost from a block whose nonce is zero (or memory happened to hold the bytes lost). Reading it ends, without following a null pointer, and if the block fits its nonce is zero and nothing is left, wherever it was cut. | 70 173 |
| `TestVector` | Does the model write the bytes `tests/serialization.cpp` asserts, with the widths of the program? | 14 476 |
| `EssencePayload` | Is a transaction with a payload in its essence read as it was written? It is not: see below. | violation |
| `Chains` | Do identifiers, foundries and contents survive every order of calls on two pointers? | 572 999 |
| `SignClone` | Does a client that changes only clones of what it gave send what it signed, name what is booked, and see its transactions as values? | 115 692 |
| `SignShare` | And one that goes on with the objects it gave, after the transaction was booked? | 33 284 |
| `JsonTrips` | What comes back from JSON, with numbers on both sides of `2^31` and one key changed, what is lost in silence, and what crashes? | 556 405 |

*The violation.* `Transaction_Essence::serialize` (`src/qessences.cpp:95-104`) writes
the payload with its length and then four zero bytes more: line 104 has no `else`.
The constructor (lines 76-82) does not read them, takes two of them for
the count of the unlocks, loses the unlocks and reads the nonce from the wrong
place. `RoundTrip` leaves out such blocks, and those that do not fit: `BlockFits` for
the counts, arrays and hashes, and `PayloadSeen` for the length of the payload, which is
cast to 32 bits (`src/qblock.cpp:88`) while zero says that there is none (line 29).

*What JSON loses.* `JsonRoundTrip` states it as `Survives`: a block keeps its version
only (its parents are read from `"outputs"`, its payload from the block's own
object, its nonce as a number where a string was written, `src/qblock.cpp:39-44`), and an
essence loses its network (`src/qessences.cpp:51`). No line of the repository says
otherwise, so these are results of the model and not findings. Numbers of 32 bits
survive on both sides of `2^31`: they are written as negative and read back modulo
`2^32`.

What is strange in JSON costs only its own field (`EditIsLocal`), but silently: a number is
taken modulo the width of its field, or is zero where `toInt()` reads it and it is no `int`.
A network or a nonce that another program gave as a number is read; it is written as a string,
which is then read as zero. So `NextTripKeeps` does not say that a second trip changes nothing,
but that it keeps what survives a trip at all (`Survives`).

### Bounds

* `Radix` is the number of values of a byte. 17 is the least that holds every tag
  (an NFT address is 16) and makes the limits of one byte (17) and of two bytes
  (289) small enough to be crossed. `CloneWhole` and `TestVector` use 256.
* `HashLen` is the length of a hash: 2, 4, or 32 in `TestVector`. A hash is only
  copied and compared.
* `Junk` has two values, one of them zero: what uninitialised memory shows must be
  told from what the stream said.
* Four-byte counts are crossed once: `Huge` sends a payload of `17^4` bytes in all, whose
  length is written as zero, and one of a byte less. A tagged data payload whose data
  alone is that long is left to the proof. Two-byte vectors (inputs, outputs) are not either: the cast is
  the one of the two-byte arrays that are.
* The outputs and blocks of an instance hold each class and each element at least
  once. In the cut runs the stream is cut at every byte. What is not about a cut is
  proved for outputs and streams of any size.
* Each setter is called at most once: each assigns one field, and a second call
  could only repeat it.
* `Chains`: `MaxOutputs` 3 is a creator, its successor and the successor of that, or two
  chains side by side; two pointers give clones that diverge. The proofs lift it.
* `BlockForeign` sends one strange object per block, in each place where a kind is
  read; a second would be read after the first has ended or shifted the reading.
* `Signing`: two pointers, and as many objects as can be in use at once with two
  transactions (3 with `"clone"`, 2 with `"share"`); two transactions, so that the second
  spends what the first made; one input, and one (`"clone"`) or two (`"share"`) outputs.
  The proofs lift all of these.
* `JsonForms`: `Half` 64 is the program's `2^31`, `Short` 16 its `2^16`, `Long` 1024 its `2^64`, and `Kinds`
  20 its `2^8`, which holds an NFT address and an unknown kind; every number occurs on
  both sides of its limit, and `Numbers` puts one past each width, and negative ones, where
  another program may. One key is changed, since no field is read from two. Two
  trips (`MaxTrips`) show what a trip loses of an object that was read (`NextTripKeeps`).
* `Deposit`: a word has 4096 values, and the prices of `NodePrices` lie on both sides; the
  proof is for any width and any prices.
* The payload of an essence is tagged data, or one of an unknown kind; at a transaction
  inside a transaction, which `BlockForeign` sends, the reader ends in the place `"nested"`.
* Identifiers, hashes, keys and signatures have none, one less, one more or as many bytes
  as they are read with; the proofs are for any length.

### Fairness

`WF(Next)` in `OutputCodec` and `BlockCodec`: there is one thread, and a call that was made
runs to its end. For blocks it also says that the client goes on to send what it
began. Only `Termination`, `BlockTermination` and `ImplementsClone` use it. `BlockTermination` is
`<>[]BlockEnded`: the block was written, read, forwarded and read again, or a null
pointer ended the program. `OutputChain`, `Signing` and `JsonForms` have no fairness: a
client may stop at any time.

## Proofs

### Output chains

`OutputChainProofs`: for any sets of pointers, addresses, features, tokens and
identifiers and for a ledger of any length.

| theorem | statement |
|---|---|
| `Invariance` | `Spec => []ChainInv` |
| `TypeCorrectness` | `Spec => []TypeOK` |
| `ChainIdentity` | `Spec => []IdIsHashOfCreator` |
| `Distinctness` | `Spec => []ChainsDistinct` |
| `FoundryIdentity` | `Spec => []FoundryIdKept` |
| `Succession` | `Spec => []SuccessorCarries` |

Assumptions: an identifier is not zero when it is the hash of an output
(`IdAssumption`), made outputs have the zero identifier the factories give and at
least one unlock condition (`MadeAssumption`), and, for `Distinctness` only, two outputs
do not hash to one value (`HashAssumption`).

*The argument.* What the ledger holds is not inductive alone: `Publish` copies an
object a pointer has held through any number of calls. `ChainInv` adds `Held`, which
says of every pointer what its object is at its stage. An object that was made
has a zero identifier. An object that was taken from `o` continues `o` (`Continues`):
it has the class and the immutable features of `o`, the same `get_id` if it is a
foundry, and if it is an NFT or alias its identifier is the hash of the output that
began the chain, or is still zero, and then `o` began it. Once the object was
consumed its contents are what was added since. The lemmas
`SetIdContinues` and `ConsumeContinues` say that the two methods keep this, in whatever
order, one lemma per action carries it to every pointer, and `PublishInv` then finds
in it what is wanted of the successor. That
`set_id` does nothing when the identifier is not zero is what carries an
identifier down the chain, and that a hash is not zero is what makes it do nothing.

`TypeOK`, `IdIsHashOfCreator`, `FoundryIdKept` and `SuccessorCarries` are also checked by `Chains`.

### Signing

`SigningProofs`: for any number of pointers, objects, transactions, inputs and
outputs, and for both disciplines.

| theorem | statement |
|---|---|
| `SigningInvariance` | `Spec => []SigningInv` |
| `SentIsValid` | `Spec => []SentValid` |
| `OriginsAreValid` | `Spec => []OriginsValid` |
| `IdsBegin` | `Spec => []IdsBeginChains` |
| `SignedStays` | `Spec => SignedFrozen` |
| `SigningImplementsTransfers` | `Discipline = "clone" => (Spec => TransactionsAreValues)` |

Assumptions: outputs begin with a zero identifier (`MadeAssumption`), the null pointer
is no object (`NullAssumption`), and the discipline is one of the two. That hashes do
not collide is how they are represented.

*The argument.* `SentValid` is about bytes that went out; that they stay right needs
to know which calls can still change an object of a transaction. `Unshared` says that
no two pointers share an object and that `given` records every place in a
transaction where the object of a pointer is; so a change the discipline allows
does not touch a transaction that can be sent again, and `SignatureCovers`, the
invariant of the signatures, holds through it. The commitment to the inputs is
taken from a pointer some time after the output came: `Faithful` says that the
pointer holds that output until its hash was taken, and the hash afterwards.
`InUseProper` carries the shape of identifiers through `set_id`. The refinement maps
the book of transactions to the bytes `PayloadBytes` gives; `SignedFrozen` and its counterpart
for what is not signed yet show that no change of an output is seen in it.

### Deposit

`DepositProofs`: for words of any number of values (`WideAssumption`), any weights and prices
(`PricesAssumption`: they are naturals) and any output, whatever its class, its lists and
whether it fits.

| theorem | statement |
|---|---|
| `DepositIsPrice` | `min_deposit_of_output` of a size is the price of that size if and only if the price fits a word |
| `DepositExact` | `Spec => []DepositExactIfFits` |

*The argument.* If the price fits, no step before the last wraps, because each is at most the
price; if a byte costs nothing the price is zero, and so is the product, however the
weight wrapped. If the price does not fit, a word cannot be equal to it. That the size is a natural
in every state is `OutputsTyped`: what is in `wire` are bytes.

### Elements

`ElementsProofs`: for bytes of any number of values (more than 16) and hashes of any
length. `Sizes`: a size cast to one, two or four bytes is read as itself exactly as far
as it fits. `ArrayBack`: an array that fits its prefix is read as it was written.
`AddressBack`, `ConditionBack`, `FeatureBack`, `TokenBack`, `SchemeBack`, `InputBack`,
`SignatureBack`, `UnlockBack`, `TaggedBack`: for every object `x` of the class and every
continuation `s` of the stream, reading `Write(x) \o s` gives `x` and leaves `s`, under the condition
that its arrays fit their prefixes and its hashes, identifiers, keys and signatures have their lengths. So the composition of
objects in a stream needs no lengths: each class knows where it ends.

*The argument.* `Split` says what the front and the rest of a concatenation are; a
stream that is met piece by piece is described by `Follows(z, x, s)`, and `Two`, `Three` and
`FourParts` regroup a written object into such pieces. The members are then read
by `IntBack`, `RawBack` and `ArrayBack`. The digits of sizes come down to `Division` and
`DivisionUnique`. The lemmas that end in `Read` say what a read gives of a stream that
nobody wrote.

### Outputs

`PsetProofs` and `OutputCodecProofs`: for any set of outputs, with lists and arrays of any
length, fitting or not, and any set of foreign streams, whole or cut.

| theorem | statement |
|---|---|
| `Invariance` | `Spec => []Inv` |
| `OutputsTyped` | `Spec => []TypeOK` |
| `OutputsOrdered` | `Spec => []PsetsOrdered` |
| `WholeOutputConsumed` | `Spec => []WholeStreamConsumed` |
| `CloneExact` | `Spec => []CloneEqualIffFits` |
| `ReceivedCloned` | `Spec => []ReceivedClones` |
| `CutNumbers` | `Spec => []CutNumbersWholeOrZero` |
| `CutObject` | `Spec => []CutGivesObject` |
| `CloneRefined` | `Spec => Abstract!Init /\ [][Abstract!Copy \/ Abstract!Again]_<< src, Result >>`, if no stream is cut or foreign and every output fits |

Assumptions: an output has the fields of its class, and its lists, as psets, are in
strict order (`OutputsAssumption`, which `TLC` evaluates on every instance); their objects
may lack an address, a list may be a single null pointer, and identifiers and hashes may have
any length. Foreign streams are
bytes (`ForeignAssumption`). The null pointer is no address and no signature (`NullHeldAssumption` of `Elements`), and no
object at all (`NullAssumption`), which only the two theorems on cut streams need; TLC evaluates both.

*The argument.* A list of any length needs an induction. `Remains` gives the bytes from
each element of a list on; that it exists (`RemainsExist`) is shown by `Upward`, from the least
number principle of the library. The invariant has three parts.
`WriterInv`: what was written, and what is still to come from this place on, are
together `Text(src)`, the bytes of the output; no null pointer has been passed.
`ReaderInv`, of any stream: each list read so far is an ordered pset whose arrays fit
their prefixes, and has no more elements than its count allowed, so what is read at the
end is an output that could have been written (`Built`). `CopyInv`, when the whole stream of
an output that fits is read: what has been read is the front of each list, and what
is left of the stream is what was written from there on. The reader keeps it because an
element is read as it was written (`ElementBack`) and inserting it into the pset puts it
last (`Grown`): the source was in order. That the elements of the source are in strict order is
what makes this true, and that the lists are shorter than `Radix` is what makes
the count right. The converse in `CloneExact` is `BuiltFits`: an equal copy was read, so
the source fits.

For a cut stream there is a second invariant, `CutInv`: the reader reads along with a reader of the
whole stream (`Short`: it holds what `Copied` says of some stream that its own is the front of), until
a read wants more than there is. Then nothing is left and nothing will be (`NoneLeft`), and the
rest of the output is read from no bytes at all: `Spent` says what can still be said, that each
number is as it was sent or zero and that no list has a null pointer. The second is not
obvious, and is what the theorem is about: where a kind is missing it is read as zero, and zero is the tag of an address, of
an address condition, of a sender and of the simple token scheme, so that each `from_`
finds a class (`AddressShort`, `ConditionShort`, `FeatureShort`, `SchemeShort`). It is not the tag of an
output, so a stream of no bytes gives a null pointer (`ReadHeadShort`). The steps of the reader are stated
for any stream (`HeadFrom`, `ItemFrom`, `NextFrom`), which lets the lemmas about a whole stream serve for
the stream it reads along with.

### Blocks

`BlockBytesProofs` and `BlockProofs`: for any set of blocks a client may mean, with any number of
parents, inputs, outputs, unlocks and elements, fitting or not, any order of the
setters, any set of foreign streams, whole or cut, and both rounds.

| theorem | statement |
|---|---|
| `BlockTyped` | `BlockSpec => []BlockTypeOK` |
| `BlockRoundTrip` | `BlockSpec => []RoundTrip` |
| `BlockLimits` | `BlockSpec => []BlockEqualIffFits` |
| `CutBlockRead` | `BlockSpec => []CutBlockIsRead` |
| `CutNonce` | `BlockSpec => []CutNonceZero` |

Assumptions: a block has the fields of its class (`WantedAssumption`, which TLC evaluates
on every instance); any pointer in it may be null, parents, commitments, identifiers, keys and signatures
may have any length, and outputs are in the state their psets give them. Foreign streams are
bytes (`ForeignAssumption`), and so is what memory holds (`JunkAssumption`). The two theorems on
cut blocks need `NullAssumption` too.

*The argument.* `BlockBytesProofs` gives the texts: `BlockText(b)` is the bytes of a block, and
`Chain(w, s)` the bytes from each element of a list of written objects `w` on, with `s` after the last.
That it exists is an induction on the places of the list from its end (`ChainIs`). Each list of a block (parents,
inputs, outputs, unlocks) is such a chain that ends where the next one begins. The invariant
`BlockInv` has four parts. `BlockWriting`: what is in `out` and `wire`, and what is still to come
from this place on, are together the text of the block; within an output it is `WriterInv` of
`OutputCodecProofs` with what follows the output (`Writing`). `BlockReading`, of any stream: what has
been read is a part of a block whose counts fit. `ClientInv`: each setter that was called has set its field to what
the client meant. `CopyOfBlock`, when the whole stream is delivered: what has been read is a front of the
block and what is left is the rest of its text. It has three cases, because the parts
of a block fail one by one: if the parents fit they are read as written whatever the
payload is; if all of the block fits so is the rest; if the parents fit and the length of the payload is cast to zero,
then there is no payload in what is read. The first and the last are for the harder half of `BlockLimits`: an equal block
was read, so its parents are hashes in a number that fits and its payload has counts
and lengths that do, and a payload that is not seen does not come back. The second is for `RoundTrip`, and for the other half. Reading an output within a block is the reader of
`OutputCodec` on a stream that goes on after the output (`CopyStep`, which needs no more than that
an element is read from the front of a stream and the rest is left), so the
proofs about outputs are used here and not repeated.

For a block that was cut there is a second invariant again, `BlockCutInv`. Its first part, `Along`, is for
blocks whose counts fit: at each place the reader of the cut stream has before it the
front of what a reader of the whole one would have (`FrontOf`), with as many parents, inputs or
outputs to come as were written from there on, or nothing is left. Within an output it
is `Short`, with the rest of the block as the `tail` that follows the output. What a reader of the whole
stream meets at each place is said once, in the lemmas that end in `Here`, which both
invariants use. The point is that outputs are to come only where some were written: a count that was
cut is read as zero. So `from_` is called on the front of an output, which `DeserializeShort` carries
to its end, or on no bytes at all, and then zero is no kind of an output: it answers a null
pointer, which nobody follows while the block is read. Hence `CutBlockRead`.

The second part, `AlongEnd`, goes on to the unlocks and the nonce, of blocks that are also seen and whose essence has no
payload (after one the reader is four bytes behind, see *The violation*). To know at the end that the nonce is not
whole, `FrontOf` counts the bytes that are missing, `Lost`, and every read keeps the count unless it runs out:
seven bytes of a nonce are not read in part but as zero, with nothing left (`EndNonce`). `EndPayload` excludes what would break
it: that the length of a payload or its kind, partly lost, is taken for that of another payload and the bytes that follow for
its content. Hence `CutNonce`: a cut block whose nonce was not zero is not taken for the whole one.

`PayloadSeen` came out of this proof: without it neither `BlockRoundTrip` nor `BlockLimits`
is true, and `BlockTrip` now sends a block on each side of it.

`BlockInv` and `BlockCutInv` pick their chains with `CHOOSE` over functions on sequences of bytes, which TLC cannot
enumerate, so no run checks them as they stand; their consequences are checked by `BlockTrip`,
`BlockForeign` and `BlockCut`.

### What is proved and what is only checked

`TypeOK`, `IdIsHashOfCreator`, `FoundryIdKept` and `SuccessorCarries` are also checked by `Chains`;
`SentValid`, `OriginsValid`, `IdsBeginChains`, `TransactionsAreValues` and `SignedFrozen` by `SignClone`
and `SignShare`; `TypeOK` of `OutputCodec`, `CloneEqualIffFits`, `WholeStreamConsumed`, `PsetsOrdered`,
`ReceivedClones`, `CutNumbersWholeOrZero` and `CutGivesObject` by `CloneLimits`, `CloneWhole` and `OutputCut`; `BlockTypeOK`, `RoundTrip` and
`BlockEqualIffFits` by `BlockTrip` and `BlockForeign`; `CutBlockIsRead` and `CutNonceZero` by `BlockCut`;
`DepositExactIfFits` by `CloneLimits`.

Only model-checked:

* liveness (`Termination`, `BlockTermination`, and the fairness in `ImplementsClone`, whose safety
  is `CloneRefined`), which is out of the prover's reach;
* the JSON forms (`JsonRoundTrip`, `EditIsLocal`, `IdSettable`, `NullsCrash`, `NextTripKeeps`): objects nest, so
  `JsonForms` reads and writes them by `RECURSIVE` operators, about which the prover can say nothing;
* what is about one instance: `TestVector`, and the kinds another program knows in
  `UnknownPayloadShifts` and `UnknownKindCrashes`;
* `CutBlockDiffers`, of which `CutNonce` is the part about blocks that fit and whose nonce is not zero. The rest
  would need that the copy of a block is equal to it only if none of the lost bytes
  counted, while lost numbers are read as zeros and a `pset` drops what it holds already.

## Not modelled

* What is read of a transaction that is the payload of an essence: the reader would
  nest without a bound, which the protocol forbids and the code does not. The model
  gets as far as its kind (`ReadNested`).
* `qbigint` (external): 32 bytes that are copied, or a string in JSON.
* Proof of work is the client's; `operator<` gives it the bytes without the nonce,
  and `WritePayload` ends there.
* The getters, which return what a constructor stored.
* `orderList` is called by nothing in the repository.
* Doxygen, CMake, CI.

## Plan

Done, in this order: `Wire`, `Elements`, `OutputCodec` with `Clone`, `BlockCodec`, `OutputChain` and its
proofs, `Signing` with `Transfers` and its proofs, `JsonForms`, blocks of another program and
forwarding, `Deposit` and its proof, the proofs that every class without a list is read
as it is written, those of the outputs and of the blocks, whole and cut, and the
deposit of every output. What is left:

1. A transaction as the payload of an essence, with a bound on the nesting.
