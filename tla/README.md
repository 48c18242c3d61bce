# A specification of apub

This directory specifies the programs of `olowe.co/apub` in TLA+,
checks them with TLC and proves most of what it checks with TLAPS. apub is mail
for ActivityPub: activities arrive over HTTP and are filed as mail; mail is
submitted over SMTP and posted as activities. Beside that, the repository has a
client of Lemmy with its file system and acme windows, and a reader of Mastodon's
event streams.

The reference is the Go code. `PROJECT.json` maps each definition to the lines it
stands for, and lists the runs, the mutants that show each property can fail, the
hazards of the code and the findings.

## Inventory

    remote server --POST--> apserve --exec, stdin--> apsend --> Maildir/new
    mail client  --SMTP--> apsubmit --exec -F, stdin--> apsend --> outbox, POST, Maildir/new
    acme windows --> lemmy.Client + cache --> Lemmy instance
    any program  --> lemmy/fs.FS --> lemmy.Client

| Component | State it keeps | Operations | What makes it correct |
|---|---|---|---|
| `cmd/apsend`, with `Inboxes`, `Send`, `Finger` and `sys.AppendToOutbox` | a process's variables `remote`, `gotErr`, `bmsg`; Maildirs and outboxes, shared by all processes | one execution per message: sort the arguments, deliver locally, publish to the outbox, resolve, post, file a copy, exit | exit status 0 is truthful; no inbox is posted to twice; what is filed stays; what is posted can be fetched, until its author's next activity of the same second; it ends |
| `cmd/apsubmit` | a `Session` per connection: its `recipients` | the SMTP commands; DATA runs apsend and waits | 250 is truthful; a message goes to its transaction's recipients, all of them and nobody else |
| `cmd/apserve`, inbox | nothing on disk; a goroutine per accepted request | `handleInbox`, then `relay`: dereference, unwrap, look up, convert, execute apsend | what is accepted becomes mail, edits on their own excepted; refused requests have no effect, mail is of what was posted |
| `cmd/apserve`, rest | nothing | actors, WebFinger, nodeinfo, files | pure reads |
| package `apub` | nothing | `Unwrap`, `MarshalMail`, `UnmarshalMail`, signatures | threads hold together; an answer reaches those the activity named, and nobody else |
| package `lemmy` | a cache of posts and communities, under a mutex for writers only | lookups and listings by several goroutines, expiry, retry after 503 | hits are true, and overdraw max-age by no more than an answer's delay; expired entries go |
| package `lemmy/fs` | per open file: buffer, listing, offset | `Open`, `Read`, `ReadDir`, `Close` | each entry once, in order, all of them |
| `cmd/Lemmy` | acme windows, a goroutine with an event loop per window | open a list, a community, a post with its thread; delete; exit with the last window | windows that react are whole, threads are whole, the client is ready before it is shared |
| package `mastodon` | a stream's scanner, error and last post | `Next`, `Post`, `Err` | each post once, in order; without an error, posts are missing at the end only, and only if the connection broke or a line was too long |
| `apget`, `webfinger` | nothing | a lookup and a print each | |

The hard behaviours are these. apserve and apsubmit start an apsend for each
message, so that several work on the same Maildir and outbox at once with no
lock, and name files by the second. Each step may fail, each process may die.
apserve answers before the relay begins. A Session of apsubmit outlives its
transactions. An activity comes to its readers as mail, late, twice or not at all,
and their answers go through a second translation and a directory that may name
somebody else. Goroutines read the Lemmy cache without the lock its writers hold,
and open windows while others are deleted.
Every one is a hazard in `PROJECT.json`, with the properties that cover it, or the
reason why none does.

## Modules

| Module | Models | Uses |
|---|---|---|
| `Dispatch` | what a mailer promises its caller: each delivery settled at most once, one truthful report | |
| `Apsend` | `cmd/apsend` and the library calls it makes; any number of concurrent runs over one file system | implements `Dispatch` |
| `Apsubmit` | go-smtp's connections and the Sessions of `cmd/apsubmit` | `Dispatch` as its mailer |
| `Apserve` | `handleInbox`, `relay`, crash and restart | `Dispatch` as its mailer |
| `LemmyClient` | `LookupPost`, `LookupCommunity`, `Posts`, the cache, `get` | |
| `LemmyFS` | `FS.Open`, `lFile`, `dummy`, `dirInfo` | |
| `MailHeaders` | `MarshalMail` and `UnmarshalMail` as far as recipients and threads go; operators only | |
| `Correspondence` | users who write and answer through apsend and apserve, actors elsewhere who do so in their own way | `MailHeaders` |
| `Stream` | `mastodon`'s `Stream` and its connection | |
| `Windows` | `cmd/Lemmy`: opening, looking, deleting, exiting; the thread printer | |
| `MC*` | constants for TLC | the module named; `MCReaders`: `LemmyFS`, `Stream`, `Windows` |
| `ApsendProofs` | theorems about what a run of `Apsend` does, and the refinement of `Dispatch` | `Apsend`, TLAPS |
| `ApsendFiles` | theorems about the files that its runs share | `ApsendProofs` |
| `ApsubmitProofs`, `ApserveProofs`, `CorrespondenceProofs`, `LemmyClientProofs`, `WindowsProofs` | theorems about the module named | that module, TLAPS |
| `ReadersProofs` | theorems about `LemmyFS` and about `Stream` | both, TLAPS |

`MCReaders` and `ReadersProofs` extend several modules at once, for which reason
some names in `LemmyFS` and `Stream` have a prefix (`FSInit`, `StreamNext`).

Callers are checked against the abstract `Dispatch`, and `Apsend` is checked to
implement it, so that nobody has to multiply their states.

**Apsend.** `pc[r]` is the step of `main()` run `r` is at, `todo[r]` the arguments
its current loop has yet to reach. Deliveries are numbered by argument position;
0 is the sender's copy (`-F`). A local delivery is three actions (`PickName`,
`OpenMail`, `WriteMail`), as `time.Now` and the open, truncate and write of
`os.WriteFile` are to other processes; each file of `AppendToOutbox` is two
(`CreateFile`, `Encode`). File contents are sequences of blocks, and writing is
`Overlay`, since a write does not shorten what is there. Every call may fail:
`Fatal` is `log.Fatal`, `DeliverFails` leaves any prefix written, `SendFails`
covers an answer lost after the inbox took the activity in. `Kill` is a signal,
a panic or a reboot. `slot` and `outcome` are history: the name chosen for a
delivery and what became of it. An address ending in `+followers` is one more
remote argument, as it is to `main()`'s loop.

**Apsubmit.** go-smtp orders the commands and counts recipients (`phase`,
`asked`); `recipients` is the Session's field. `Reset(c)` has an empty body in
the code and is `UNCHANGED` here. `Data` starts the mailer with the Session's
recipients, `DataReturns` is the return of `cmd.Run`. A message cut short by a
broken connection reaches apsend as an ordinary end of input (`input[x]`).

**Apserve.** A request shares nothing with others until it is answered, so
`HandleInbox` is one step and its status the first check that fails. `relay` is
one action per lookup, unwrapping or execution. `Unwrap` is what the code does:
a JSON string starts with a quote, so the test for `https` never succeeds and
only embedded objects unwrap. `Inside[a]`, what unwrapping `a` to any depth may
give, is the smallest set that has `a` and the object of each of its members. An
edit on its own, that is an Update of a Note or Page posted as it is or
announced, is answered 202 and then not a type that `relay` takes: `TakenIn` is
what is answered so, `IsEdit` tells the edits, `OfKind` is the rest. `Panic` is
either of two nil dereferences that take the process down: the `Published` of an
undated activity in `marshalMail`, and the activity that `relay` logs after it
failed to fetch it. `Crash` and `Restart` surround it.

**MailHeaders.** An activity is its author, its recipients and the two IDs of a
thread. A recipient is an actor, a followers collection, the public, or the empty
ID of a collection that its owner lacks; an address is a mail box, with or without
`+followers`. `Line` is one header line as `marshalMail` writes it: the people,
then the collections of those looked up so far. `Kept` picks the elements of a
line that are in a set; it is a recursive function and not `SelectSeq`, since
nothing can be proved of an operator that takes an operator. `Resolves` is WebFinger, which
need not agree with `AddressOf`. `CanMarshal` and `Readable` are the lookups
without which each translation fails as a whole.

**Correspondence.** What `Apsend` and `Apserve` show step by step is one step
here, so that several people and their answers fit: `Send` is a run of `apsend
-F` from reading the header to filing the copy, `Relay` the mail made of one
POST and its delivery. Arguments are addresses with a host, as apsubmit hands
them on; a local one is posted to like any other. `wire` keeps every POST for
ever and `Relay` may take any, never, now or twice: POSTs are lost, delayed,
reordered and repeated. An outbox file is named by the ID, so `Outbox` puts an
activity in the place of an earlier one of its author and second: `published` is
what can be fetched now, and the history `written` all that ever could.
`mailbox` is what was delivered, as Maildir names are the subject of `Apsend`.
Filing the copy may fail. `Answer` is external: what a mail client puts into an
answer to the author or to all, to received mail or one's own. `replies` is
history.

**LemmyClient.** A lookup is `Read` (no lock), `Lock` and `Delete` if it found
an expired entry, an answer of the instance (`Answer`, `AnswerOnce`, `Garbled`,
`NotFound`, `GetFails`, with `Busy` and `Wake` for 503), then `Lock` and
`Store`. The data race is `Race`: a read while a writer is in the map may end
the process, or see the map as it was. Deleting goes by what the entry holds,
not by the key looked up, and storing a community also stores the zero Post
under 0, since `Name()` of a zero Post is `"0"`: both are as in `cache.go`. A
listing is any page of up to `MaxPosts` posts. Three histories are about what
the instance permitted: `until[v]` is when its longest leave to reuse `v` ends,
counted from the step in which it answers; `answered[c]` is when that was; and
`late` is the longest that any value took from there to the cache. `Expiry` is
the code's own reckoning, which starts at the store.

**LemmyFS.** Per handle: `kind`, `buf` and `listed` (whether the fields are nil),
`length` and `entryp`. Entry *i* of a listing is the number *i*. What the instance
answers is any length up to `MaxList`. `given` is history: what ReadDir returned
from this listing.

**Stream.** The server sends lines; `Finish` is its regular end, after which all
of them can be read. `Break` is the end of the connection before that: any
number of the last lines sent may be lost, and what is left may end within a
line (`Remains`). Both look the same to `Next`, which does not ask the scanner
for its error. `Next` is `Skip`, which is the call of itself, then `Take`,
`Refuse` or `End`. The scanner is external and modelled as `bufio.Scanner`
documents it: its last line may lack its end, a line longer than its buffer
stops it, and it can be asked again. Closing the body leaves it what it has
buffered, which is `Remains` again. `sent`, `seen` and `announced` are history.
`Posts`, which picks the posts out of lines, is a recursive function for the
same reason as `Kept`.

**Windows.** `job[g]` is what goroutine `g` is opening and how far it is: looking
the name up, making the window, loading it, loading the comments, starting its
loop, and the deferred `clean`. A loop that opens a window takes no other event
(`Looking`). `known` and `autoExit` belong to the acme library, which is external:
a Del is handed to the loop and comes back, the loop then ends and the library
forgets the window, and exits after the last one if asked to; a window without a
loop is deleted without the library's noticing, until its name is shown.
A listing is a sequence of comments; `children` and `Roots` are the positions in it
that the code's loops pick, and `Lines` prints those of a set in the order listed,
each followed by what is below it. What is below each comment is a recursive
function over the generations left (`printThread`), where the code calls itself; no
comment has more below it than there are comments. `ListingsAssumption` is what
the instance is taken to keep: IDs are distinct and not 0, a path leads from 0 to the
comment itself, and goes on from that of each comment in it that is listed
(`lemmy.go`: a path "Holds ordered comment IDs referenced by this comment for
threading"). Which comments are listed, and in which order, is left open.

## Runs

| Run | Instance | Shows |
|---|---|---|
| `apsend_one` | one run, six kinds of message, eight argument lists, with and without `-F`, two seconds; fair | `BooksKept` (the inductive invariant), `OkMeansDelivered`, `PostedAtMostOnce`; `KeepsPromise`: Apsend implements `Dispatch!Spec`, liveness included; `EachStepCounts`: each step of `main()` leaves fewer of them |
| `apsend_two` | two runs that meet in the Maildirs or that publish (other message, same message again, other user), two seconds | `MailIntact`: a mail in a second no other delivery to that user chose stays whole; `SentIsFetchable`: no inbox learns of an activity that cannot be fetched, unless another run has opened its file |
| `apsend_stays` | two runs that meet in the Maildirs | **violated**: a delivered mail is truncated by another of the same second |
| `apsubmit` | two connections, one with two transactions; fair | a 250 is truthful, sessions do not mix, no recipient is dropped, DATA is answered |
| `apsubmit_reset` | the same | **violated**: recipients of an earlier transaction get the message too |
| `apserve` | two requests of each of the kinds other servers send; fair | no effect of refused requests; mail is of the post; for every accepted Note or Page that is not an edit on its own, apsend is started, unless a lookup failed or the server died, of a panic included (`AcceptedIsMailed`); until then a goroutine has it, and what is dropped is an edit on its own and never mailed (`OnlyEditsAreDropped`) |
| `apserve_accept` | the same | **violated**: an Accept or Reject is accepted and dropped |
| `apserve_reference` | the same | **violated**: an Announce by ID is refused without a lookup |
| `lemmy_client` | two goroutines, a post and a community under two names, listings of up to two posts, three seconds, max-age 1 | entries are true; a hit is used after the leave that the instance gave by less than the longest delay between an answer and its store (`HitsArePermitted`); expired entries are gone before the instance is asked |
| `correspondence` | two users here, four actors elsewhere, one of them with another's address and one without any that resolves; three activities in one thread, two seconds | `ThreadsHold`: an answer's parent is what its author has as mail, and whoever fetches it by its ID gets that activity, or the one of the same author and second that replaced it; `ReplyReachesAll`, `NoStrangers`, `OneMail`, `Answerable` |
| `readers` | a file with up to four entries and counts up to five; a stream of up to four lines of eight kinds; three windows and five listings of comments; fair | the files: entries in order, once; uncounted reading sees all and never panics. The stream: `PostsInOrder`, `NextReturns`, and `SilentEnd`: an end without an error is after all posts, or after the first of them if the connection broke or a line was too long. The windows: `LoopsAreWhole`, `ThreadIsWhole`, `DirtyIsBeingOpened`, `ReadyBeforeLoops`, `ExitLosesNothing`, `EndsWithLastWindow` |
| `lemmy_fs_counted` | one file | **violated**: each counted ReadDir skips an entry |

`readers` is three systems that share nothing; the variable `reader`, chosen at the
start, says which of them moves.

Findings quote the line of the documents each violated property comes from.

Why the bounds are enough. Runs of apsend interact through files only, and a
conflict involves one file and two runs; two seconds give the same and another
name; messages of one and two blocks give a shorter overwriting a longer one and
the reverse. Inboxes include one shared by two actors, one's own, and none. A
second transaction is all it takes for a Session to carry something over. A
relay's state is its own, so that two show interference if there is any. The
Lemmy cache has one entry per key, hence two callers and three seconds: stored,
expired, stored again. The clock bounds (`MaxSecond`, `MaxNow`), edits (`MaxRev`),
`MaxTxn`, `MaxRcpt`, `MaxPosts`, `MaxList`, `MaxCount`, `MaxNotes`, `MaxThreads`,
`MaxLines` and `MaxWindows` are the only bounds, and are named in the modules. A thread of three
activities is an answer to an answer, in which both translations have happened
twice; two seconds give two activities of one ID and of two. Open files share
nothing, so that one is enough. Four lines hold a post, something refused, and
posts after it. Three windows hold one that is deleted while another, opened from
it, opens a third. The listings are none, a deep thread newest first, siblings
among descendants, and comments whose parents are missing at either depth.
`CHECK_DEADLOCK FALSE` is right everywhere: programs end, clocks stop at their
bound, and nobody has to send anything. Symmetry is used in `lemmy_client` only,
whose callers are interchangeable and where no liveness is checked.

## Fairness

Only what runs of itself is fair. `Apsend!FairSpec`: `main()` goes on, so each of
its calls returns. There are no timeouts in the code (`http.DefaultClient`), so
about the network this is an assumption, listed as a hazard. `Apsubmit!FairSpec`:
the goroutine in `Data` goes on and apsend reports, which is `KeepsPromise`.
`Apserve!FairSpec`: the same, and Go runs every goroutine. Requests, commands,
failures, kills, crashes, restarts and the clock are never fair.
`Stream!StreamFairness`: whoever called Next is running it; what the server sends, its
end, a break and further calls are not. `Windows!Fairness`: goroutines go on opening, main goes
on to `AutoExit`, and a loop whose window is gone ends; looking and deleting are
the user's. `LemmyClient`, `LemmyFS` and `Correspondence` state safety only: whether
`get` ever stops retrying depends on the instance, and a lost POST is not sent
again.

## Proofs

All safety invariants that the passing runs check are proved, for every value of
the constants that the `ASSUME`s of the modules allow; so are the action properties
`HitsArePermitted` and `EachStepCounts`, and the safety half of the refinement of
`Dispatch`. `FSTypeOK` and `StreamTypeOK`, which other proofs need, are proved and in
no run. The assumptions say that tables have their types, that sets which the
code keeps apart are disjoint, that bounds are numbers, and of an instance's
listings what `IsListing` says. None says that anything but a bound is finite.

| Module | Theorems | of the property |
|---|---|---|
| `ApsendProofs` | `TypeCorrect`, `BooksAreKept`, `OkIsDelivered`, `NobodyPostsTwice` | `TypeOK`, `BooksKept`, `OkMeansDelivered`, `PostedAtMostOnce` |
| | `RunsGetShorter` | `EachStepCounts` |
| | `PromiseIsKept` | `Spec => Promise!SafeSpec` |
| `ApsendFiles` | `MailStays`, `SentCanBeFetched` | `MailIntact`, `SentIsFetchable` |
| `ApsubmitProofs` | `TypeCorrect`, `AnswerIsTrue`, `NobodyElse`, `NoneDropped` | `TypeOK`, `AnsweredMeansDelivered`, `OnlyAcceptedRecipients`, `AskedIsSuffix` |
| | `MailerIsRespected` | `Spec => Mailer!SafeSpec`: apsubmit uses its mailer as `Dispatch` allows |
| `ApserveProofs` | `TypeCorrect`, `RefusalIsFinal`, `MailIsWhatWasPosted`, `OnlyEditsAreLost` | `TypeOK`, `RefusedHasNoEffect`, `MailIsOfPost`, `OnlyEditsAreDropped` |
| | `MailerIsRespected` | the same of apserve |
| `CorrespondenceProofs` | `TypeCorrect`, `ThreadsAreWhole`, `AllHaveOneMail`, `AnswersReachAll`, `AnswersReachNoStrangers`, `MailCanBeAnswered` | `TypeOK`, `ThreadsHold`, `OneMail`, `ReplyReachesAll`, `NoStrangers`, `Answerable` |
| `LemmyClientProofs` | `TypeCorrect`, `CacheIsTrue`, `DeletesWhatExpired`, `HitsAreAllowed` | `TypeOK`, `EntriesAreTrue`, `ExpiredIsDropped`, `HitsArePermitted` |
| `ReadersProofs` | `FSTypeCorrect`, `EntriesInOrder`, `WalksAreWhole` | `FSTypeOK`, `InOrder`, `WalkSeesAll` |
| | `StreamTypeCorrect`, `PostsComeInOrder`, `EndsAreWhole` | `StreamTypeOK`, `PostsInOrder`, `SilentEnd` |
| `WindowsProofs` | `TypeCorrect`, `LoopsWhole`, `DirtyIsTemporary`, `ReadyIsSettled`, `ExitIsEmpty`, `ThreadsAreWhole` | `TypeOK`, `LoopsAreWhole`, `DirtyIsBeingOpened`, `ReadyBeforeLoops`, `ExitLosesNothing`, `ThreadIsWhole` |

Few of these properties are inductive. Each module states the invariant that is,
which TLC has also checked on the instance of the module's run.

**Apsend, one run.** That nothing is left open at the exit depends on what every
loop before it did with each argument. `BooksKept` says it for every step: an open
delivery is in `todo`, in `remote`, or stands behind a box still to be posted to
(`Accounted`); the loops take only their own arguments (`LoopsApart`); nothing
remote is settled or sent before publishing (`NothingYet`); a failure is noted
(`Noted`); the copy has been tried at the exit (`CopyTried`); boxes are distinct
and unposted, others got at most one POST, exactly one where confirmed
(`SentOnce`); and exit status 0 means all of it (`Truthful`). A run's part
(`RunInv`) mentions only the run's own variables, so that the steps of others
leave it alone (`BooksOfOthers`). For the refinement `OrderKept` adds that what
the loops have yet to reach is listed once and still open, so that nothing is
settled twice, and that the copy comes last. Then each action is a step of
`Dispatch`, or changes nothing the caller sees (`PromiseStep`). That a run also
comes to its end is a matter of counting: `Left` bounds the steps it has yet to take
by the stage of `main()` it is at and what is in its lists, and each action leaves
less (`AheadFalls` for numbers, `LeftFalls...` for actions). What fairness adds is only
that the next step is taken.

**Apsend, shared files.** `FilesKept` says how far a run is with its files: it
publishes after sorting and before posting, and a delivery has a name from
`PickName` on. A Maildir file whose name nobody else chose is empty when opened and
holds the mail when written (`MailInv`). An outbox file under whose name one
message is written holds a beginning of that message, however many runs write it
at once, since each overlays the same bytes (`Begun`); and once a run is done with
it, all of it, unless another has it open (`Whole`).

**Apsubmit.** The recipients go-smtp counts are the last of those of the Session
(`SessionInv`), and what the mailer was handed is from there (`HandedInv`).

**Apserve.** What the goroutine has open is inside what was posted, and what it
mails is a Note or Page from there (`OpenedInv`). It is the closure of `Inside`
under unwrapping that makes this hold at any depth. That only edits are dropped
needs the converse, that there is nothing inside an activity but itself and what
is inside its object (`InsideOnly`): so a Note or Page not yet reached is in
what relay unwraps next (`CarriedInv`). That edits on their own are never mailed
needs that only what `Relays` accepts has a goroutine (`TakenInv`).

**Correspondence.** All mail is made of something published (`Sourced`), copies
included: `PermitHidden` shows that adding the public to an activity does not
show in its mail, so that the copy, made before, is what readers get. With that,
`OneMail` and `ThreadsHold` follow, the latter because an ID once in use always
names some activity that can be fetched, the only one of that ID unless it is
`Reused`. An activity that answers a mail is what was read from the answer
(`Answered`), so that `ReplyReachesAll` and `NoStrangers` come down to
operators: `MailBoxes` says what is in a header, `AnswerBoxes` what a mail
client makes of it, `ReadMail` whom WebFinger finds, and `AnswerReaches` puts
them together. Activities from elsewhere have numbers of their own (`Numbered`),
or `TypeOK` would not be inductive. `MailCanBeAnswered` alone has a hypothesis,
`DirectoryIsClosed`: whoever an address resolves to has an address that
resolves. Mail received is readable in any case, since apsend reads it before it
delivers; but the copy of what a user sends to an address that is not its
owner's own need not be, and nothing in the code says otherwise.

**LemmyClient.** What a lookup holds between two of its steps is true and
belongs to the key it looked up (`CallInv`), although others write meanwhile.
The leave for what is yet to be stored is counted from `answered` (`Allowed`),
so that an entry expires no later than the leave for its value and `late`
together (`Permitted`). Leave only grows with later answers, and so does `late`.

**LemmyFS.** What has been given is the entries up to the offset, which runs past
the end by counted reading only (`ListInv`).

**Stream.** Unless a line was refused, those scanned are the first of those
sent, and those left are the next of them, all the rest unless the connection
broke; but for a last one that was cut, which holds no post, and for what the
scanner makes of a line too long (`LinesWhole`). `RemainsFirst` says it of a
break.

**Windows.** No two goroutines open one window (`Apart`), a loop is busy exactly
while it opens one, and its own window cannot go meanwhile (`WindowInv`, `JobInv`);
until the client is ready there is nobody but main (`FirstCall`). The windows show
threads only as `loadComments` made them (`ThreadsLoaded`), so that `ThreadIsWhole`
comes down to the operators. Lines are a `Forest` of a set of comments if they show
each of it once, the outermost at the depth of the forest and every other under its
parent. Forests one after the other are one (`ForestConcat`), and a comment on top of
the forest below it is another (`TreeIsForest`). By induction over generations,
`printThread` prints the forest of all comments below (`PrintsForest`); that as many
generations as there are comments suffice is because a path that is all listed has no
comment twice (`DepthIsBounded`). All that have their ancestors listed are below some
root (`CommentsAreForest`), and a forest shows what `ShowsAll` asks
(`ForestShowsAll`).

*Induction.* The library's induction theorems take an operator as a parameter,
which the provers cannot instantiate. `NatInSet` states induction for a set of
numbers instead, and follows from `WFMin` for the natural order. With it
`FilterExists`, `CollectorExists`, `FlattenerExists` and `PrinterExists` show that the
functions exist which `Kept`, `Posts`, `FlattenSeq` and `printThread` choose, after
which their values can be computed step by step (`KeptElems`, `KeptSkips`,
`PostsOfNext`, `FlattenSteps`, `PrintSteps`).

Model-checked only is liveness, which TLAPS does not prove under fairness:

- the other half of `KeepsPromise`, of which `RunsGetShorter` is the part that needs no
  fairness;
- `AcceptedIsMailed`, of which `OnlyEditsAreLost` is that part;
- `DataIsAnswered`, `NextReturns` and `EndsWithLastWindow`.

## Not modelled

- **Signatures** (`sign.go`): a pure function of request and key.
- **Subject, body and dates of mail** (`mail.go`): no property depends on them;
  an ID's second stands for the date.
- **apserve's other endpoints**: reads of files and of the account database.
- **mastodon**'s `Send`, `Search` and `DecodeMail`: a request or a translation
  each, which keep no state and which nothing in the repository uses.
- **cmd/Lemmy**'s layout, and its parser of replies, which nothing calls yet.
- **package lemmy**'s `Login`, `Reply` and decoding. The first call is one step:
  `ReadyBeforeLoops` shows that in `cmd/Lemmy` it is never two.
- **internal/sys** beyond the outbox: reads of accounts and keys.
- **apget, webfinger, apsend -t**: a lookup or a print each.
- Whether a password is right (apsubmit), contents of files (lemmy/fs).
- When `cmd/Lemmy` should end if a window never got a loop, or if the only window
  goes before `AutoExit` is set: it stays, and no document says otherwise.

## Plan

Done: all models of the first plan but two, and proofs of all their safety properties.

Next, models:

1. `System`: apserve, apsubmit and apsend over one Maildir, with `Apsend` in the
   place of `Dispatch`, for a mail that arrives while another is sent.
2. `LemmyClient`'s first call as steps, for programs other than `cmd/Lemmy` that
   share a client before it is ready.

Next, properties: that a retry mends an outbox file which a dead run left behind, which
`SentIsFetchable` excuses.

Next, theorems: that an activity published by `Correspondence` is one that `Apsend`
may publish, so that one step there is known to stand for a run.
