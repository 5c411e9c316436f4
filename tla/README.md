# Verification of the yunpan web drive

yunpan is a web drive.  Its server is written in Java: Struts actions
(`fileactions`) receive uploads, downloads, listings, renames, deletions and
searches; files live in HDFS (`hdfs.hdfsOperation`); documents are encrypted
block by block with ElGamal before they are stored (`EndeFilePackage1`), and
their text is put in a Lucene index that is itself kept in HDFS
(`luceneSearch`, `hdfs.HdfsDirectory`).  A package taken from Solr
(`solrblockcache`) supplies the index's buffered streams and a block cache.
Its pages (`WebRoot`) are a table of files and a few buttons, driven by
`AjaxConn.js` and `FileOperation.js`; beside them lie jQuery 1.8.0 and json2.

Java paths below are relative to `src/src/`, scripts to `src/WebRoot/resource/`.
This directory holds TLA+ modules translated from the code, TLC configurations
that check them on small instances, and TLAPS proofs of the properties that hold
for every instance.

- [Inventory](#inventory) · [How the parts interact](#how-the-parts-interact)
- [Modules and the code](#modules-and-the-code) · [Runs](#runs-and-what-they-show)
- [Proofs](#what-is-proved) · [Where code and intent part](#where-the-code-and-its-intent-part)
- [Not modelled](#not-modelled) · [Plan](#plan)

## Inventory

| component | state it keeps | operations | hard behaviour | correct when | status |
|---|---|---|---|---|---|
| file cipher: `EnDeFile`, `encodeThread`, `decodeThread` | static tables `encoded_list`, `decoded_list`; a pool and a read buffer per call | `fileEncode`, `fileDecode`, the worker tasks | tables shared by all requests; tasks finish in any order; a block the cipher rejects leaves a hole that kills the write loop before `clear()` | the output is the file's blocks, each once, in order; every call returns | `EnDeFile`, proved |
| key file: `EnDeFile.initKey` | `Keydir\mo.txt`, static `publicKey`, `privateKey` | read the pair, or generate and write it | first requests race; crash between creating and filling the file | what was stored can be decrypted for ever | `KeyFile`, proved |
| drive files: `hdfsOperation`, `FileOperation`, the file actions | the HDFS namespace, the local `tmpEnDeDir\<name>`, the shared `FileSystem` object | upload, create a folder, delete, rename, download | check-then-act on HDFS, shared temporary file, a search closes everybody's `FileSystem` | a reported upload is whole, downloads are readable | `FileStore`, proved |
| text index: `LuceneOperation` | the committed index, writers' and readers' snapshots | `indexAdd`, `indexDel`, `queryByContent` | writers take no lock; the index hears of uploads and of deletions of files only | it names the drive's text documents, and else only what went with a folder | in `FileStore`, proved |
| buffered streams: `CustomBufferedIndexInput`, `ReusedBufferedIndexOutput`, `BufferStore`, `HdfsIndexInput`, `CachedIndexOutput.writeInternal` | per stream a buffer, its start, length and position; a pool of buffers | read, seek, clone, write, flush, close | four cursors that every path updates differently; partial failures; buffers change hands | nobody can tell there is a buffer; no two streams hold one | `IndexStreams` refines `PlainFile`, proved |
| block cache: `BlockCache`, `BlockLocks`, `BlockCacheLocation` | map, lock bits, counters, banks, locations | `store`, `fetch`, eviction | no lock over map, bits, counters and bytes | no block with two owners or none, a free block is found | `BlockCache`, proved |
| block directory: `BlockDirectory`, `BlockDirectoryCache`, `CachedIndexInput/Output` | names and numbers of cached files | open, create, delete, rename | names renamed and deleted while readers are open; blocks stored part by part | a read returns the file's bytes | planned |
| HDFS directory, file reader and writer: `HdfsDirectory`, `HdfsFileReader`, `HdfsFileWriter` | the shared `FileSystem`; positions | open, create, list, close | `close()` closes the object of every request | streams stand where Lucene thinks | partly, in `FileStore` and `IndexStreams` |
| HDFS lock factory | lock files | obtain, release | crash with the lock held | one writer | planned; nothing in the repository uses it |
| upload progress: `FileUploadListener`, `FileProgressState`, `FileProgressBarAction`, `FileUploadMultiPartRequest` | a progress object in the session | update, poll, remove | two uploads in a session, a poll after the removal, a failed upload that leaves 100% behind | the bar shows the page's own upload; the result is reported | `UploadProgress`, its safety proved |
| the page: `js/AjaxConn.js`, `js/FileOperation.js`, `download.html` | the table, the path label, check boxes, the one message box, requests in flight | list, open, search, new folder, rename, delete, download, upload with its polling task | answers in any order over shared label and table; rows replaced under a prompt; answers lost | the rows belong to the label; requests go to the folder of their row | `DrivePage`, `UploadProgress`, proved |
| listings, search by name, folder creation | the namespace | `add2Array`, `searchFile`, `FolderCreate` | | | partly, in `DrivePage`; folder creation in `FileStore` |
| navigation bar: `js/effect.js` | the slide and its animations | hover | the pointer crosses items while the slide moves | the slide ends where the last item has it | in `Animations` |
| jQuery's callback lists and deferreds | lists with flags, indices of running loops; states and values | `Callbacks`, `Deferred`, `then`, `when` | callbacks that change the list that calls them; promises returned by handlers | every handler of the outcome is called once, none of the other | `Callbacks`; `Deferreds`, proved |
| jQuery's queues and animations | a queue and hooks per element, the timers | `animate`, `delay`, `stop`, `show`, `hide`, `promise` | callbacks that start and stop others from within the tick | one at a time, all end, sizes come back | `Animations` |
| jQuery's ajax | requests, the counter `active`, JSONP callback names | `ajax`, `abort`, its handlers and transports | timeout, abort and answer race; handlers make, abort, refuse and throw | each request ends once; the counter is exact; an answer is the request's own | `Ajax`, proved; `AjaxData` |
| jQuery's events and data | `cache`, `deletedIds`; handlers by type, `delegateCount` | `on`, `off`, `one`, `trigger`, `data`, `remove`, `detach`, `clone` | handlers that bind, remove and trigger while an event is on its way | an entry per element that needs one; each handler meant is called once | `Events` |
| jQuery's selectors and traversal | marks on elements, compiled selectors with their runs, global `dirruns`, `cachedruns`, `done` | `$`, `find`, `filter`, `not`, `has`, `is`, `closest`, `add`, `addBack`, `end`, `index`, the relatives | what earlier queries left is read by later ones, on a page that has changed; a query within a query | a set holds the elements its call means, each once, in order | `Sizzle`, `Traversal` |
| json2 | `gap`, `indent`, `rep`, shared by all calls | `stringify`, `parse` | a text is accepted by replacing its parts one after the other, then evaluated | what is written reads back; what is accepted is only data | `Json` |
| accounts, text extraction, ElGamal coder, splitting tools, metrics, other parts of jQuery, Ext JS | see [Not modelled](#not-modelled) | | | | not modelled |

## How the parts interact

An upload (`hdfsOperation.uploadDocFile`) runs on its request's thread: it
calls `EnDeFile.initKey`, then `fileEncode`, which splits the file into blocks,
hands each to a task of its own thread pool and collects the results from the
static table `encodeThread.encoded_list`.  The encrypted bytes go to
`tmpEnDeDir\<name>`, from there to HDFS, and the text of the plain file to the
index (`LuceneOperation.indexAdd`).  A download runs the same way back through
`decodeThread.decoded_list`.  A deletion takes documents out of the index and
then out of HDFS; a rename touches HDFS only; a search opens the index over
`HdfsDirectory`, looks every hit up in HDFS, and closes the directory, and with
it the one `FileSystem` object that `FileSystem.get` has given to all requests.

Requests share, without any lock: the two static tables, the two static keys
and the key file, the temporary file, the namespace, the index, and the
`FileSystem` object.  Each of these is a variable some module's actions read
and write in the order the code does, one step per access that another thread
can observe.

`HdfsDirectory` reads through `CustomBufferedIndexInput`.
`ReusedBufferedIndexOutput`, `BlockDirectory` and `BlockCache` are in the
repository but no request reaches them (`LuceneOperation` uses `HdfsDirectory`
directly, with `NoLockFactory`): what is shown about them is about the library
as it stands beside the application.

The page posts its requests with Ext's `Ext.Ajax.request` and `form.submit`; the
server's answers come back in any order, and each handler reads and writes the
label `#path`, the table and the message box as it finds them.  The progress of
an upload goes from the multipart parser's listener into the session, where the
page's polls find it.

The pages load jQuery 1.11, Ext JS and the three scripts of `js/`.  The
repository also has `jsonp/jquery-1.8.0.js` and `jsonp/json2.js`, which no page
loads: the modules about them, `Callbacks` to `Traversal`, say what these two files
do as they stand.  Of jQuery the pages use `hover`, `stop` and `animate`
(`effect.js`), which is why `Animations` has that script as one of its users.

## Modules and the code

**EnDeFile** (`EndeFilePackage1/EnDeFile.java`, `encodeThread.java`,
`decodeThread.java`).  `Calls` are invocations of `fileEncode` and
`fileDecode`.  `pc[c]` walks a call through submitting blocks (`Submit`),
waiting for its pool (`AwaitDone`), writing (`WriteBlock`, `WriteFails`) and
clearing the table (`Clear`).  `queued` and `running` are its pool; a worker
takes a task (`Start`) and puts its result in `table[dir]` (`Run`, `RunFails`)
at any moment in between, which is how calls that overlap disturb each other.
A block is told by its call, its number and its kind: what the cipher makes of
its bytes (plain, rejected, or "wide", text that decodes to fewer characters
than it has bytes and makes the task's constructor throw).  Reading the file
may throw as well (`ReadMayFail`): the call is left with its tasks in the pool,
which run on (`SubmitThrows`).

**KeyFile** (`EnDeFile.initKey`).  A call finds the key file or not
(`FindKey`), sets the static fields (`SetPublic`, `SetPrivate`), opens the file
for writing, which empties it (`Open`), and closes it (`Close`); then blocks
are encrypted with whatever the static holds by then (`Encrypt`), stored
(`Store`), or decrypted (`Decrypt`).  `Crash` loses threads and statics and
keeps the files.

**FileStore** (`hdfs/hdfsOperation.java`, `fileactions/FileOperation.java`,
`luceneSearch/LuceneOperation.java`).  Each request is a user with a `pc`; one
action per access to HDFS, to the index or to the temporary file.  A path is
the sequence of its components; `files` and `folders` are the namespace.  A
deletion or rename of a folder takes along what is `Within` it, a deletion
unindexes a file only (`AfterDelete`, the `isFile` test), and `create` and
`mkdirs` make the folders above.  A file's bytes are the upload they came from,
whether they are whole, and whether they are encrypted.  `Attr` says what the code reads off a path, because it reads
it in four ways: `docCheck` of the whole path on upload, of the name on
download, the text after the last dot when indexing and after the first when
unindexing.  What `EnDeFile` can do to an output appears here as an output that is
whole, mixed with other blocks, cut off or missing (`Encode`, `WriteBlocks`,
`WriteCut`).  It is known to be whole only when the upload did not share
`encoded_list` with another encryption at the same time or with the remains of
one that threw (`stale`); nothing tells the upload when it did.  `spoilt` is a
history variable: the uploads that shared the table, failed to encrypt, or had
their temporary file truncated by a namesake before they copied it.  A document
that is decrypted while other requests are in progress may come out wrong in the
same way through `decoded_list` (`Fetch`).

**IndexStreams** and **PlainFile**.  `PlainFile` is the promise: an input
stands at a point and returns the file's bytes from there, an output writes
where it stands.  `IndexStreams` is the code: `buffer`, `start`, `len`, `pos`
are the fields of both stream classes, `FromBuffer`, `ReadThroughBuffer`,
`ReadDirect` and `PastEnd` are the four ways through `readBytes` and `refill`,
`WriteFits` and `WriteOver` those through `writeBytes`, and `pool` is
`BufferStore`'s queue.  `clone` is the flag of `HdfsIndexInput` that its `close`
asks, `ended` the HDFS streams that were closed; `origin` says which input the
stream of a clone was opened with.  A stream has one user, so a call is one step, and the
calls of different streams interleave over the pool and the shared HDFS stream
of clones.  `Implements` is the refinement: `point` is `start + pos`, `text` is
what the destination has got and what is buffered.  Calls that throw for any
reason but the end of the file leave a stream "broken": then the bytes an input
returns, and everything about an output, are no longer promised, but its buffer
still must be nobody else's.

**BlockCache** (`solrblockcache/BlockCache.java`, `BlockLocks.java`,
`BlockCacheLocation.java`).  Every line of `store`, `fetch`,
`findEmptyLocation` and `releaseLocation` that touches shared state is a step.
The concurrent map is external: it evicts within the calls that find it over
capacity, and tells the listener later (`Evict`, `Notify`, `Drain`).  The exception
for a wrong length in `store` and the access counters (`touch`) are left out:
no caller passes a wrong length, and nothing reads the counters.

**DrivePage** and **UploadProgress** (`js/AjaxConn.js`, `js/FileOperation.js`,
the actions they call).  A script runs one handler at a time, so a click and an
answer are a step each: `AllList`, `OpenFolder`, `NewFolder`, `Search`,
`DeleteChecked`, `DeleteRow`, `Prompt` and `Rename`, `Judge` and `Check` are the
page's buttons and boxes, `ListAnswered` to `DeleteAnswered` its success
handlers, `Lost` its failure handlers, `ServeList` to `ServeDelete` what the
server does in between.  A row remembers where it came from, which no code
reads: the properties do.  `UploadProgress` extends the page by the upload
window, the bar and the task, and by the server's side of it: `Parse` makes the
listener and the progress object, `Update` looks it up in the session on each
step, `Copied` and `NotCopied` end the action, `ServePoll` answers the task.

**Callbacks**, **CallbackList**, **Removing** and **Deferreds**
(`jsonp/jquery-1.8.0.js`, 912–1240).  A list is its functions, the flags it was made with, and the
variables of the closure (`firing`, `index`, `length`, `memory`, the queue of
`lock`).  `run` is the stack of lists whose loops are running; while a callback
runs, any method of any list may be called, up to a depth.  `Deferreds` gives
some lists the callbacks jQuery puts there itself, which settle a deferred, shut
the other lists, pass values on, count down; `todo` is the code jQuery has still
to run: the calls of a row, and of `when` one entry per argument and its end.
`CallbackList` is the promise of a list: what it has called, what it has yet to
call, in order; `CallsInOrder` is the refinement, of a list nobody empties while it
fires.  `Removing` holds what both say of `remove`: a sequence without a value.

**Animations** (`jsonp/jquery-1.8.0.js`, 1850–1990, 8337–8970, and
`js/effect.js`).  `queue[e]` holds numbers of animations and delays, `timers`
is jQuery's array, which `Tick` goes through entry by entry while callbacks add
and `Stop` removes entries under it.  An animation is how far it is and what it
does at its end; a step of the interval may or may not be its last.

**Ajax** (`jsonp/jquery-1.8.0.js`, 7398–7780, 7943–8330).  A request is its
`state`, its transport, its timer, whether its deferred is settled, and for JSONP
its name, with `window` and `oldCallbacks` beside it.  JSONP comes by a script
element or, from the page's own domain, by an `XMLHttpRequest` whose text is run.
Handlers are steps of their own in which the page may make or abort requests,
refuse one, change its `global` option, or throw.  An answer with data has two
steps more between `state = 2` and the deferred, `dataFilter` and `Convert`:
what throws there leaves the deferred unsettled.
**AjaxData** is what happens to data without a step in between: `Extend` and
`AjaxSetup` on a heap of objects, `Inspect` for prefilters and transports,
`HandleResponses` and `Convert` for the answer.  **Json** is json2 on symbols: a
word, a number or an escape is one.  `MC_Ajax` puts samples for the last two
beside the states of the first.

**Events** (`jsonp/jquery-1.8.0.js`, 1514–1850, 2640–3100, 3495–3616,
5607–6265).  `page` is what jQuery and the browser keep: `id`, `cache`,
`deletedIds`, `uuid`, who is above whom, the document's capturing listener.  An
event on its way is a record on `stack` with the elements and handlers still to
come, taken when the code takes them: the path at `trigger`, the handlers at
each element's `dispatch`, which goes up from the target once more for the
delegated ones (`Below`) and runs one for each element its selector matches.

**Sizzle** and **Traversal** (`jsonp/jquery-1.8.0.js`, 3640–5126; 97–288 and
5142–5436).  A selector is its groups, a group its tokens; text and regular
expressions are left out, their effect on the tokens is not (`Trim`,
`Tokenize`, the selectors that `filter` negates).  `engine` is what Sizzle
keeps between queries: `marks` (`elem[expando]`, `sizset`), the compiled
selectors with `runs` and `dirruns`, and the three counters.  Matching reads
and writes it element by element, so `Matches`, `Walk` and `Query` take it and
return it with the answer.  `Fits` and `Meant` are what a selector means, of
which `querySelectorAll` is taken to be the browser's own implementation.
`Traversal` is a script that makes sets and goes on from them while classes and
elements on the page change.  `Answered` asks that a set holds what `Meaning`
says, for calls that are `Steady`: what `Steady` leaves out is known to go wrong
and listed [below](#where-the-code-and-its-intent-part).  `MC_Animations` runs
it as `Q!Next` in the states whose setting is empty.

`EnDeFileProofs`, `KeyFileProofs`, `FileStoreProofs`, `BlockCacheProofs`,
`IndexStreamsProofs`, `UploadProgressProofs`, `AjaxProofs` and
`DeferredsProofs` hold the theorems; `MC_*` name the inputs, symmetries and views
of the small instances.  Operators named in comments as mutants are slips the code might have
had; each property is known to fail under at least one of them.

## Runs and what they show

| run | instance | checks |
|---|---|---|
| `ende_one_at_a_time` | three calls, one at a time; files of 0 to 3 blocks, with and without a tail, a rejected block first, in the middle or last; disks that fail | `OwnBlocksFirst`: a plain file reported encrypted is written whole and first, whatever earlier calls left in the table. `SuccessIsExact`: and nothing after it, as long as no call of its direction failed |
| `ende_concurrent` | two calls at once, every kind of block, reading that fails, fairness | `BlocksInPlace`: entry n is always some file's block n. `EveryCallReturns` |
| `ende_together` | two plain files at once | finds `SuccessIsExact` violated: blocks of two files in one output |
| `key_first_alone` | three requests, two crashes, with an old key file or none; one request at a time generates | `StoredReadable`, `DownloadReadsUpload`, `KeyKept` |
| `store_all` | eight paths of every shape, folders among them. Four requests in turn, the key missing, encryption failing before or half way, folders made, deleted with the documents in them and filled again; or three of four at once, two documents encrypted together under one name or two, files and folders deleted and renamed under them, a search closing everybody's `FileSystem`; or two of four at once with HDFS failing at any call | `IndexExact` in turn: every text document is in the index, and what else is there went with a deleted folder. `DownloadReadable` whenever nobody renames, in turn. `ReportedWhole` always, but for the three causes it names |
| `streams_all` | two streams of any kind, files of 0 and 3 bytes, buffers of 2, calls of up to 3 bytes | `Implements`, `Exclusive`, `BreaksWithReason` |
| `cache_all` | two stores, a store beside a fetch, or one thread alone; two banks of one block, three keys | `OneOwner`, `BitsAreOwned`, `CounterFollowsBits`, `LiveFetchIsOwn`, `AloneFindsRoom` |
| `page_all` | three requests and no upload, one of each, or two uploads of a session; two names, folders one deep | `RowsUnderLabel`: rows come from the label's folder and requests go there. `WaitingUserSeesDrive`: who waits for answers sees the drive. `ProgressIsOwn`, `UploadIsReported` |
| `deferreds_all` | lists of six sets of flags, or two deferreds with one `then` or `when`; four calls, from outside or from two levels of callbacks | `HandlersHeard`, `SettlesOnce`, `Answers` (of `when` and `then`), `CallsInOrder` |
| `animations_all` | the slide under the pointer; chains of animations and delays with stops; callbacks that stop others; show, hide and toggle with stops. And, in states of their own: a page of five elements, with and without `querySelectorAll`, some thirty calls of `$`, `find`, `filter` and the rest with selectors of every kind, three calls or changes of the page | `OneAtATime`, `SizeComesBack`, `PromiseAfterAll`, `ComesToRest`; `AnswersMeant`: a set holds the elements its call means, however old the marks and compiled selectors the engine meets |
| `ajax_all` | two requests of ten sets of options and five kinds, three antics of their handlers; and all samples of settings, registrations, answers, JSON values and texts | `ToldOnce`, `CounterExact`, `NamesReturned`, `OwnAnswer`; `DataPassedOn`, `JsonReadsBack` |
| `events_all` | a document, a box, a field and its clone; six bindings, five unbindings, six events, five calls in all | `CacheExact` (and the document listens while somebody needs it), `HeardExactly` |

Why the bounds are enough.  The interesting cases of the cipher need a block
before and after a rejected one, a tail, an earlier call that left something
behind and a later one that meets it after another: three blocks and three
calls.  Two workers run in any order, which is every order.  A key pair is lost
in the window of one generating call against one reader and one crash; a second
crash meets what the first left.  The paths of `store_all` differ in every
attribute the code reads, two share a temporary name, and one lies in a folder
that is deleted, renamed and renamed onto.  `atOnce` bounds the requests in
progress together.  A buffer of two bytes
and calls of three make a call fit, straddle, fill the buffer exactly and go
around it; a file of three bytes makes a refill full, partial and empty.
`MaxOpen = 2` takes every pair of streams in turn, and the pool holds one buffer
(as `BufferStore` does by default), so that the second stream meets an empty
pool and the second close a full one.  The cache has fewer blocks than keys, so
that stores evict; two banks make `findEmptyLocation` go around; parts of a
block do not interact in `BlockCache` itself and one is enough.  `Rounds` is two
where the code has ten: a thread that would be lucky in a later round is lucky
or gives up.  On the page, a row, an answer that replaces it and a request that
still carries it make three requests; a progress object is replaced and removed
by two uploads.  Loops over callbacks, timers and handlers go wrong at the
current entry, the one before and the one after: lists come to three and more
entries.  A JSONP name is used again by the second request.  Answers are
converted through up to three types, and values are written two deep.  A query
that leaves marks, a change of the page and a query that reads them make three
calls of a script; the page has an ancestor, a sibling and a descendant to mark,
and the cache forgets its oldest selector at six.
Symmetry is used where the instance treats names alike and no liveness is
checked; the views of `MC_BlockCache`, `MC_IndexStreams` and `MC_UploadProgress`
leave out what no later step reads.

`CHECK_DEADLOCK FALSE` stands where every call may be done and nobody has to do
anything more.

Fairness.  `EnDeFile`: the caller of each call and the workers of its pool keep
taking steps once the call has begun; these are threads that the JVM schedules,
blocked only in `awaitTermination`, which the model's guards express; nobody is
obliged to begin a call.  `UploadProgress`: the server goes on with an upload it
has got, and the browser runs the handler of an answer that has come; nobody has
to click, and no poll has to be made or answered.  `Animations`: code that is
running goes on, and the browser fires intervals and timeouts that are set;
users do nothing they need not.  No strong fairness is assumed anywhere, and the
other specifications have none.

## What is proved

For every value of the constants, with the assumptions the modules name:

- **EnDeFileProofs.**  `TypeCorrect`; `BlocksStayInPlace`
  for any number of overlapping calls, from `PlaceInv`, which adds to the
  property that every queued or running task carries its own number.
  `PlainFileWritten` and `PlainFileExact` under `OneAtATime` (`MaxActive = 1`)
  and `NoThrow` (every file can be read, and no block makes the constructor
  throw): these are the hypotheses without which TLC finds them false, since a
  call that throws while it submits leaves tasks behind that fill the table of
  the next.  `OwnInv` says that only the
  active call has tasks, that the tasks and the table's entries account for every
  submitted block, and that none of a plain file's is lost; `ExactInv` adds
  that the table of an untroubled direction holds nothing else.
- **KeyFileProofs.**  `StoredFilesReadable`, `DownloadsReadUploads` and
  `KeyIsKept` for any number of requests, blocks and crashes, under
  `FirstAlone` (`MaxFirst = 1`).  `KeyInv` relates the statics, the keys each
  request has read and the file: while two requests are active the file holds
  a pair, and every key in use is that pair or belongs to the one that writes it.
- **FileStoreProofs.**  For any number of requests, any paths and any settings of
  faults.  `Invariance`: `Inv` is the types, what each phase of a request knows of
  it, and that a request that has its temporary file open finds it there, which
  is where Windows' refusal to delete an open file is needed.
  `DownloadsAreReadable` (`DownloadReadable`): temporary files are always
  encrypted (`TempsSealed`), and so, as long as nobody renames, a path in HDFS is
  encrypted exactly when `docCheck` says so of it (`AsPathSays`).
  `ReportedUploadsWhole` (`ReportedWhole`) has no hypothesis: `WholeInv` follows an
  upload's bytes from the temporary file into HDFS, says what may have happened
  to the path and the folders above it meanwhile, and that whoever can still touch
  the temporary file of an upload has made it `spoilt`.  `IndexNamesTheTexts`
  (`IndexExact`) under `DotsAgree` (the deletion, which looks after the first dot,
  knows every text document that the upload, which looks after the last, has put
  in the index): `IndexInv` gives the difference between index and drive in each
  phase of the one active request, where `Orphans` are the entries of documents
  that went with a folder.
- **BlockCacheProofs.**  `BlocksAreExclusive`, `NoBlockLeaks`,
  `CountersFollow` and `Types` for any number of threads, keys, banks and
  blocks.  `OwnInv` says where each location is referred to from (the map, a
  pending eviction, one thread's variable), in one place only, and that a set bit
  belongs to exactly one location in use or one thread about to take it.
  `CountInv` adds that a counter is the number of its bits corrected by the
  threads between bit and counter; its bound comes from an injection of those
  threads into the bits that are set.  `LiveFetches` (`LiveFetchIsOwn`) for any
  number of threads of which one stores.  What a fetch copies is safe for three
  reasons, and `LiveInv` holds each: a location that is not marked removed still
  owns its block (`Marked`, `LiveOwned`); whoever has it has it for one key
  (`OneKey`); and a location that stands for a key holds bytes of that key only
  (`Unfilled`, `Bytes`).  The last needs that the store which writes is never
  the second owner of the block (`Undisturbed`), and that is where the single
  storing thread is used: the parts up to `Unfilled` hold for any roles.
  `RoomForOne` (`AloneFindsRoom`): for a thread whom nobody disturbs, `RoomInv`
  says that the map is within its capacity and nothing is left to be released
  between its calls, and that the banks a search has looked into are full.  When
  it has looked into all, every block has an owner, all owners are in the map, and
  an injection of the blocks into its entries contradicts the capacity.
- **IndexStreamsProofs.**  `BuffersAreExclusive` for any number of streams and
  buffers.  A step leaves the buffers alone, takes one from the pool or a new
  one, or gives one back, and each of the three keeps `HandInv`.
  `IndexesInRange`, for any sizes of buffers, files and calls
  (`BoundAssumption`): types, and `InRange`, by which a position never leaves
  the buffer or, for an input, its valid part.  `Moves` is the one way start,
  length and position change, and `StepOf` reduces every action to it.
  `OriginalsEndClones` (`BreaksWithReason`): `OriginInv` says that an input that
  does not carry the clone flag is an original, that an HDFS stream is closed only
  when its original is, and that an original was opened before its clones.
  `BuffersCannotBeTold` is the refinement of `PlainFile`: `BytesInv` says that
  the valid part of an input's buffer is the file's bytes from `start` on, and
  that an output has sent exactly `start` bytes, so that what it sent followed
  by its buffer is what was written.  It rests on the other two invariants: a
  step writes to one buffer only, and no other stream holds it.  Each action is
  then shown to be one of `PlainFile`, or to leave what it sees unchanged.
- **UploadProgressProofs.**  About the page and its uploads together, for any
  numbers of rows, names, requests and uploads; `NoneAssumption` says that the
  null value is none of the others, and `StartsAssumption` types the drives.
  `TypeCorrect` and `RowsBelong` (`RowsUnderLabel`) from `RowsInv`: the entries of
  an answer are those of the folder its request asked, whichever request is
  answered first, and a request that was aimed at a row asked the row's folder.
  `ProgressBelongs` (`ProgressIsOwn`) from `OwnInv`: in uploads one after the
  other, the session's object, and whatever a question found in it, belongs to the
  upload of the last bar, and while a body is parsed nobody removes it.
  `WaitingSees` (`WaitingUserSeesDrive`) from `WaitedInv`: as long as the user
  waits there is one request, and the table differs from the drive by what that
  request will do, before it is served (`Waiting`), or has done there and not yet
  here (`Granted`).
- **AjaxProofs.**  For any number of requests of any kinds, with handlers that
  make, abort and refuse requests, change options and throw, any number of
  times.  `ChainInv` says what the code that is running has still to do: which
  calls may stand in `todo` in which state of their request, that no request is
  at two stages, that what jQuery does at once stands first, that the conversion of a
  request that has a name stands last (`LastOnly`), and that a request which is
  done and not settled is to be converted still, or a `dataFilter` or a converter
  of it threw (`Midway`).  `TypeCorrect`,
  `AnswersOwn` (`OwnAnswer`: of requests whose own script called the callback and
  came to its end; one whose script did not call takes what is there) and `NamesComeBack` (`NamesReturned`) need
  `NamesInv`: a request holds its name until its clean-up, which runs as soon as
  its deferred is settled, `window` knows it
  under no other, and a name nobody holds is in the list once; the number of names
  is bounded by an injection into the requests.  `EndsAreToldOnce` (`ToldOnce`)
  and `CounterStaysExact` (`CounterExact`) need `EndInv`: what was heard of an end
  is a beginning of it, the rest stands in `todo` in the order of the code,
  and `active` counts the global requests that are not settled and those whose
  count down is still to come, as long as nothing threw.  These two assume `~AbortInSend`; without it they are false, as told
  [below](#where-the-code-and-its-intent-part).

- **DeferredsProofs.**  For any deferreds, lists, handlers and values, any number
  of calls and any depth, with a `then` or a `when` of several arguments and handlers
  that settle, add, throw and return promises while lists fire.
  `HandlersAreHeard` (`HandlersHeard`) and `OutcomesAreKept` (`SettlesOnce`) from
  one invariant.  `IInv` has four parts.  What a list may hold (`ListOK`): the
  three callbacks jQuery puts first, untouched, until its first firing ends, and
  nothing that settles or shuts anything after them.  How far a deferred has got
  (`Fate`): pending with both lists open, or one list is calling its first
  callback or its second, or has done with them and the other can never fire:
  between the first callback and the second the state is set and the other list
  still open, which is harmless only because no handler runs in between.  How
  often a handler is still to be called (`Counted`): what was given is what was
  heard and what is beyond the place of the loop.  And the stacks (`RunOK`,
  `Fits`): no list is on the stack twice, only the last may be between two
  callbacks, and what jQuery has still to call waits at a depth where a callback
  is running, in order of depth.  When users have plain lists, nothing is done
  with the deferreds (`Untouched`).
  `AnswersFollow` (`Answers`) adds `Wired`, which says how an outcome travels as long
  as nothing has thrown.  No outcome of the deferred of `then` or `when` is invented
  (`NoneInvented`): it has fired, or is about to, only if a list that is passed on to
  it has.  None is lost (`NoneLost`): until the outcome is known, the link is still to
  be made by `when`'s loop, or its `add` waits in `todo`, or the callback is in the
  list beyond the place of its loop, or the call it led to waits.  The count is exact
  (`CountOK`): `remaining` is the number of arguments the loop has not passed over or
  that have not answered, and when it is 0 the resolution is asked for or done.  And
  each argument answers once, with the value its list remembers (`AnswersOK`,
  `DatasOK`).  `AsksOK` is what makes the settling of an argument in the middle of the
  loop harmless: the end of `when` stays in `todo` below the arguments still to be
  looked at.
  `CallsStayInOrder` (`CallsInOrder`) is the refinement of `CallbackList` by all
  lists, the plain ones with any flags included: every step of the system is, for
  each list, one of the abstract ones or none.  `TurnsInv` is what it takes: in a
  list nobody has emptied while it fired, the loop's end is the end of the list, and
  its place is in the list, or before its first entry when the callback that runs and
  all before it were removed; and no loop but the innermost is between two
  callbacks, so that a call of users', or one in `todo`, meets none that is.  That
  `remove` moves the place by as much as it takes away before it (`LessIs`, `WithoutSplits`) is a
  fact about sequences of any length; `Without` is a recursive function, and
  what it computes is proved with the least number for which it would fail
  (`Least`, `UpTo`), which needs no theorem about operators.

Only model-checked: liveness (`EveryCallReturns`, `UploadIsReported`,
`ComesToRest`); jQuery's animations and its events; and what
selectors, conversions and json2 compute (`AnswersMeant`, `DataPassedOn`,
`JsonReadsBack`).  The prover does not reason about fairness or ENABLED, nor
about the recursive operators of `AjaxData`, `Json`, `Sizzle` and `Traversal`.
The invariants of the proofs were checked on the instances of the runs before
they were proved.

## Where the code and its intent part

Shown by a run: two uploads at once mix their blocks in `encoded_list`, and
`fileEncode` returns true all the same (`ende_together`).

Met while modelling; the models have them, and properties are stated around them.

Server:

- Two first requests both find no key file (`EnDeFile.java:40`), generate a pair
  each and overwrite each other's statics and file: stored blocks cannot be
  decrypted.  `KeyFile` shows it with `MaxFirst = 2`.
- Index writers take no lock (`HdfsDirectory.java:59`): one that opened before a
  deletion and commits after it brings the entry back, although
  `LuceneOperation.java:111`–`114` has logged it deleted.
- `FileRename` does not tell the index (`hdfsOperation.java:99`): the old path
  stays in it, and every search that hits it fails (`LuceneOperation.java:149`).
- `BlockCache.fetch` looks at the removed flag before it copies (133, 141) and not
  after: a block that is evicted and given away in between is returned as the
  key's own, where `Cache.java:42`–`44` promises the key's content.
- A call that dies in the write loop never reaches `encoded_list.clear()`
  (`EnDeFile.java:225`): the next call of that direction, alone in the server,
  returns true with the failed file's blocks behind its own.  This is why
  `SuccessIsExact` asks for an untroubled direction and `OwnBlocksFirst` says
  "first".
- Deleting a folder deletes everything in it (`hdfsOperation.java:138`, the
  recursive `delete`), but only a file is taken out of the index (129): the entries
  of the documents in the folder stay, and a search that hits one returns false
  (`LuceneOperation.java:149`).  `IndexExact` excepts exactly these entries, and
  TLC finds it false without the exception.
- An exception of `fileEncode` is logged and the upload goes on
  (`hdfsOperation.java:240`), to be reported successful at line 272.  So is an
  upload whose blocks were mixed with those of another document encrypted at the
  same time (`encodeThread.java:6`), or whose temporary file was truncated by a
  document of the same name from another folder (237).  `ReportedWhole` excepts
  these (`spoilt`), and TLC finds it false without the exception.
- A new folder whose name is taken gets the time appended, and whether that name
  is taken is not asked (76).  A rename reads no answer (99): one that HDFS refuses
  is reported done, and one onto a folder made since `exists` moves into it.
- `exists` and `create` are two calls (lines 187 and 199): uploads of one path
  at once overwrite each other.
- `docCheck` looks at the whole path on upload and at the name on download
  (`FileOperation.java:73`, `:107`): a file in a folder whose name contains a
  document's extension is encrypted and delivered encrypted.  `DownloadReadable`
  excepts such paths.
- A deletion looks at what follows the first dot of the path
  (`hdfsOperation.java:130`), an upload at what follows the last: `a.b.txt` stays
  in the index when it is deleted.
- The first search before any upload fails, because the index has no commit.
- `BlockCache.store` into an existing location looks at the removed flag before
  it writes (112 to 119); with two storing threads the bytes may be another
  key's.  `LiveFetchIsOwn` is claimed for one storing thread.
- `ReusedBufferedIndexOutput.flush` takes the output to the end of the buffer:
  after a seek back the file pointer jumps.  A seek to the very place the output
  stands at is outside the buffer, and fails under `CachedIndexOutput`.
- A refill that fails half way leaves overwritten bytes that still count as
  valid; a seek back within the buffer reads them.

Page:

- The server answers a refused rename, deletion or folder with `false` or `null`
  and status 200; the page takes any answer for success, says so, and patches
  the table.  `WaitingUserSeesDrive` asks that nothing was refused.
- A listing that is answered with `null` sets the label and then throws.
- After a search the toolbar's deletion takes the hits' names under the label's
  folder; a prompt answered after the table was replaced renames in the new
  folder; `delcheck` removes the rows checked when the answer comes.
- The task's counter of failures is set to 0 by each run, so it never reaches its
  limit; an answer of `null` throws in the handler; the end of the upload does
  not stop the task.  A page that misses the 100% asks for ever.
- A failed upload leaves its progress at 100% in the session: an early poll of the
  next one stops its task at 99%.  A second upload in the session replaces the
  progress object and may remove it under the first one's listener, which ends
  in a `NullPointerException`.

jQuery 1.8.0:

- `empty()` from within a callback makes the loop call `undefined`; after
  `disable()` it enables the list again; a callback that throws leaves `firing`
  set for good.  A fail handler's value given to `then()` rejects.
- `stop()` of an element in its own callback takes two entries off its queue;
  `stop(…, true)` whose callback stops another element splices the wrong timer;
  `clearQueue` during an animation, or `stop(true)` during a delay, let two run at
  a time; `stop(false, true)` of an element that waits in its queue while an animation
  beside the queue runs leaves the queue behind its sentinel for good: the delay is
  gone, and the callbacks which the comment at 8854 has go on with the queue are
  those of an animation that is not in it.  `OneAtATime` is of scripts that do none
  of this, and so has no theorem for all scripts.  `show()` after an interrupted
  `hide()` does nothing.
- An abort in an `ajaxSend` handler ends in `done()` running twice, against the
  comment at 7508 ("Called once"): the state is set back to 1 by line 7767 and
  the missing transport throws.  So does an abort in the `ajaxStart` handler of a
  request without `beforeSend`, since line 7733 looks at the state only if there is
  one: the request is sent all the same, its end is told a second time to the global
  handlers and counted down a second time, and its JSONP name is free meanwhile.
  `AbortInSend = FALSE` excludes both; with it TLC finds `ToldOnce` and
  `CounterExact` violated.
- A `dataFilter` that throws (7870), or a converter under `throws: true` (7925),
  leaves the request done and its deferred unsettled for ever: no handler is told,
  the request stays counted, and a JSONP callback stays in `window` with its name
  taken for good.  That is so for every `throws: true` JSONP request whose script
  did not call (7991).  `NamesReturned` gives such a name to that request.
- A JSONP request whose script does not call the callback takes what a late script
  of an earlier request of that name left there.  `OwnAnswer` is of requests whose
  script called.  A handler
  that throws leaves `active` too high.  The script transport has no handler for
  errors: without a timeout a JSONP request stays pending.  The script of a JSONP
  request that timed out may call the name that another request has by then.
  A prefilter that redirects has the list of all types run before the rest of its
  own type's.
- `off("focus", selector)` undoes the special events of focus, not of focusin: the
  document's capturing listener is never removed.  `one` handlers run twice when
  a handler before them triggers the same event, and delegated ones once for each
  element that matches.  `clone(true)` shares the objects
  in the element's data.  A global `trigger` uses one event object for all
  elements, so that `stopPropagation` in one silences the others.

- Sizzle's marks and counters answer for more than they know.  The numbers
  `:nth-child` gives to children are kept in `sizset`, which the matcher of a
  combinator overwrites with true or false (4145, 4826), and are not renewed when
  the page changes.  A query that `:has` makes in the middle of a match changes the
  global `dirruns` (4285, 4976), so that marks of an earlier page are believed:
  `filter(".a ~ p:has(> p)")` asked twice.  `:not(…)` of more than one element, and
  `not(".a p")`, share the compiled matcher, and with it the marks, of the selector
  they negate (4226, 4817).  Of `#a.c .b` the class `c` is dropped (4932–4941).
- `filter("p:first.a")` tests the whole seed again (4721); what follows a position
  may be found twice (4732); `p :first` is read as `p:first` (4912).  `index()` of a
  set of several elements counts what is before any of them (5256).

json2: `gap`, `indent` and `rep` belong to all calls, so a `toJSON` method or a
replacer that itself calls `JSON.stringify` changes the layout and the members of
the outer call.  `parse` accepts some texts that are not JSON ("1,2"), which eval
then evaluates or rejects; they are data all the same.

## Not modelled

- *Text extraction* (`FileReadFactory`): third-party parsers of txt, pdf and
  doc, pure input.  *ElGamal coder*: a library's cipher; `EnDeFile` says what it
  makes of a block.
- *Accounts* (`LoginAction`, `LoginInterceptor`): one session attribute and one
  test of it.
- *Splitting tools* (`Split`, `Integration`, `Ttest`): test programs nothing
  calls.  *Metrics*: counters nothing decides on.
- *Block directory*, *HDFS lock factory*, *HDFS file reader and writer*: planned,
  below.
- *Ext JS*: a minified library, its loader and its words in Chinese.
- *jQuery's attributes, css and manipulation*: they read and write the document and
  work around browsers, in one step and without state of their own.
- In the models: sizes, dates and the look of the table; folders deeper than one
  level; a lost request that is served later (`DrivePage`).  `when` of nothing, which
  is resolved at once, and of one deferred, which is that deferred (`WhenArgs`).  Callbacks that stop
  their own element, `clearQueue` alone, empty animations (`Animations`).
  Headers, `ifModified`, urls, the shorthands, two requests that name one JSONP
  callback, JSONP with `async: false` (`Ajax`); what `dataFilter` makes of the data,
  and converters that throw (`AjaxData`, where a broken one gives an error).  Special events but focus, submit and change in old browsers,
  inline handlers, the window at the end of the path, clicks on disabled elements or
  with another button (`Events`).  Attribute and form
  selectors, names, XML, elements outside the document (`Sizzle`).  `toJSON` and
  replacers that call JSON, and what eval makes of texts that are not JSON
  (`Json`).

## Plan

Done, in this order: `EnDeFile` and its proofs (the drive's data), `KeyFile` and
its proofs (the means to read it back), `FileStore` and its proofs (what users see),
`BlockCache` and its proofs, `IndexStreams` over `PlainFile` with proofs,
`DrivePage` and `UploadProgress` with proofs, then the scripts the repository
carries: `Callbacks`, `Deferreds` with proofs, `Animations`, `Ajax` with proofs, `AjaxData`,
`Json`, `Events`, `Sizzle` and `Traversal`.

Next, in order of weight:

1. **Animations**: `OneAtATime` as a theorem, of the scripts that have it
   ([above](#where-the-code-and-its-intent-part)).
2. **FileStore**: an abstract drive (a map from paths to whole files and the set of
   indexed documents) that it refines when requests come one after the other.
3. **Events**: `CacheExact` as a theorem.
4. **BlockDirectory**: `BlockDirectoryCache`, `CachedIndexInput` and
   `CachedIndexOutput` over the parts of a block; a file deleted or renamed under
   an open reader, two numbers for one name, a block stored in parts with an
   eviction in between.
5. **HdfsLockFactory**: obtain and release with crashes, composed with the index's
   lost update.
