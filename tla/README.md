# socialNetwork: specifications, model checking and proofs

This directory holds TLA+ specifications of the iOS app in
`src/socialNetwork/socialNetwork/`, the TLC configurations that check them, and
proofs that TLAPS checks.  Paths below are relative to that directory;
`Firestore/` stands for `src/socialNetwork/Pods/FirebaseFirestore/Firestore/core/src/`,
the vendored SDK through which every write of the app goes.

## 1. Inventory

The app has no server code of its own.  Phones talk to Firebase Auth, Cloud
Firestore, Cloud Storage and a news service.  All shared state is in Firestore
documents; the app's own code runs on the main thread, the SDK on a serial
worker queue, `URLSession` completions on threads of their own.

| Component | State it keeps | Operations | What is hard | What makes it correct |
|---|---|---|---|---|
| Follow relation: `UsersManager.follow/unfollow`, Discover, Connections | arrays `followers`, `following` in two documents; the two lists on the screen | follow, unfollow, refresh | two writes with nothing around them; stale lists; two phones of one account | both arrays describe one relation; nobody follows themselves |
| Firestore SDK (vendored) | worker queue, mutation queue per account on disk, pipeline, cached documents | enqueue, persist, send, acknowledge, reject, resend, change user | crash between memory and disk; resend of committed writes; change of account | a saved write is lost only if it is answered; everything saved is sent |
| Posts and likes: `PostsManager`, `PostCell`, `PostOptionsLauncher` | documents `posts`; rows on the screen | create, like, delete, query | a post is two writes; a like is read, wait, write; rows outlive posts | posts get their id, likes follow the taps, deleted posts stay deleted |
| Post page and comments: `PostVC`, `CommentsManager` | documents `comments`, list of comments | comment, load | author taken from `loggedUser`; two writes again | a comment carries the account that wrote it |
| Session: `AuthManager`, `UsersManager.loadLoggedUser` | `userId`, `loggedUser`, Auth's current user | register, login, logout, reload | three notions of "me" set at different times; late answers; an answer that never calls back | inside the app all three agree |
| Feed: `FeedViewController` | `posts` array, rows of the table | populate, answers of two queries | answers in any order, overlapping refreshes, an array emptied without reload | the table shows own and followed posts once each; rows exist in the array |
| Profiles: `ProfileViewController`, `UserProfileVC` | `posts`, `user`, collections | refresh, answers | reused cells, refreshes that overlap | rows match the user shown |
| Discover: `DiscoverViewController`, `DataSource` | segment, region, `data`, the table's weak data source and delegate | appear, switch, search, pick a region, load | users and news joined on two threads without a lock; several loads at once; what the table refers to weakly is freed | a tap opens what the row shows, the news are of the region picked, the table comes back |
| News: `NewsManager` | `news`, the last ones fetched | get | each answer takes `news` as it is then | the same as Discover's |
| Connections: `ConnectionsViewController` | `dataSources`, filters, segment; `loggedUser` | appear, select, search, unfollow, tap | rows come from one copy of the document, taps use another | a row opens the person it shows |
| Images: `ImageLoader`, `UIImageLoader` | `loadedImages`, `runningRequests`, `uuidMap` | load, cancel, completion | completion on another thread, token stored after `resume`, cells reused while the author of a former row is looked up | a cell shows its own row's picture, and gets it |
| Profile pictures: `ImagesManager`, `EditProfileViewController` | `images` documents, storage objects, the profile's two addresses | pick, edit, four callbacks | four asynchronous steps that may fail, a last write that may be refused or lost, two uploads at once, a change of account, header loads nobody cancels | the profile names its owner's latest picture, and it exists |

They interact through the singletons (`AuthManager.shared`, `UsersManager.shared`,
`PostsManager.shared`), through completions passed to them, and through documents
that other phones change.  `PROJECT.json` lists the components with their files,
and under `hazards` every place where this can go wrong, at its line.

## 2. Plan

1. `FollowRelation` (abstract) and `FollowGraph` (detailed).
2. `Posts`: posts, likes, deletions over the same path of writes.
3. `Session`: `userId`, `loggedUser`, Auth's user; registration and late reads.
4. `Feed`: the array and the table rows under overlapping refreshes, the limit of
   ten elements of an `in` filter.
5. `ImageLoader`: tokens, cancellation and completions on a second thread.
6. `Upload`: the chain of a profile picture.
7. `Discover`: the join of users and news, and the table.
8. `Connections`: rows and taps.

All eight are modelled, checked and proved: every invariant, action property and
refinement of a run that expects to pass is a theorem of section 5.  What is left
to TLC is said at the end of that section.

The screens are modelled one by one: what passes between them are Firestore's
documents and `loggedUser`, which each module lets others change at any time
(`ChangeElsewhere`, `Load`, `Publish`, `SignIn`).
`FollowGraph` and `Posts` model the SDK's path of writes separately, each with
the detail its properties need (accounts that share a phone in the first, cached
reads and unlike kinds of write in the second).

## 3. Modules

### FollowRelation

What the feature promises: a relation `rel` between accounts, which a tap
changes in one step.

### FollowGraph

`followers` and `following` are the arrays on the server.  Each account has on
each phone a *lane* of writes:

| part of `lane[d][u]` | in the code |
|---|---|
| `1..done` | committed by the server, acknowledgement outstanding |
| `..saved` | in the mutation queue on disk (`LocalStore::WriteLocally`) |
| the rest | closures on the worker queue (`FirestoreClient::WriteMutations`) |

| action | code |
|---|---|
| `Login`, `Logout` | `AuthManager.login/logout` and `SyncEngine::HandleCredentialChange`: the queue of the account is switched, streams restart |
| `RefreshDiscover`, `RefreshConnections` | `DiscoverViewController.updateView/loadDataSources`, `ConnectionsViewController.updateData` |
| `Follow`, `Unfollow` | the buttons of the two screens, `UsersManager.follow/unfollow`: two writes, in their order, for *any* row shown, however old |
| `Persist` | the worker queue runs `SyncEngine::WriteMutations` |
| `Commit`, `Ack`, `Reject`, `StreamBreak` | `RemoteStore`: pipeline, `OnWriteStreamMutationResult`, `HandleWriteError`, `OnWriteStreamClose` |
| `Crash` | the process is killed and started again |

`Connections` hides the unfollow button by the segment that is selected when the
row's user arrives, so `listed` also holds followers.  `Login` requires that
earlier writes are on disk: the worker queue is a local first-in first-out queue
and signing in takes a round trip to the server.  After `Crash` nobody is signed
in; where Auth restores the account at launch, read `Login` of the same account
as the next step.

`suspect` and `faulted` are history variables, read by no guard: the pairs on which
a write was lost in a crash or refused, or on which two phones of one account wrote
at the same time.  A later uncontended tap on the pair takes it out of `suspect`,
because it sets both halves; `faulted` keeps it, because a crash can take that tap
back while it is in memory.

### Posts

`docs` are the documents on the server, `cache` what a phone last saw of them,
`worker` the tasks given to the SDK, `lane` the writes on disk, `reads` and
`answers` the two stages of `likePost`'s `getDocument`, `rows` the posts shown
with whether their id is filled in.  A write is one of *create* (`setData`),
*name* (`setData(merge: true)` of the id), *like*, *unlike* (array transforms,
refused by the server if the document is missing) and *delete*.

| action | code |
|---|---|
| `WritePost` | `WritePostViewController.postButtonTapped`, `PostsManager.createPost` |
| `Show` | `getFollowingPosts`, `getLoggedUserPosts`, `getPostsById`, online or from the cache |
| `TapLike`, `Serve`, `ServeOffline`, `Callback`, `CallbackTraps` | `PostsManager.likePost`: the read, its answer, the toggle, the forced unwrap |
| `TapDelete` | `PostOptionsLauncher.delete`, `PostsManager.deletePost` |
| `TapUnnamed` | a tap on a row with id `""`: `document("")` fails an assertion of the SDK |
| `Work`, `Commit`, `Ack`, `Refuse`, `Break`, `Kill`, `Launch` | the SDK, the server, the process |

`After` is what a queue of writes makes of a document, one write after the other;
it is a recursive function, so that it can be reasoned about.

History variables: `odd` counts taps modulo two, `blurred` holds the accounts and
posts whose taps overlapped, were lost, or were decided from a cache that another
phone of the account had overtaken, or whose likes a resent create wiped out;
`deleted`, `contested` and `torn` do the same for deletions and for posts whose
second write a crash took.  They make each property say exactly in which cases it
holds, and TLC checks that there are no others.

### Session

One phone.  `account` is Auth's current user, `userId` and `loggedUser` the
singletons' fields, `asks` the requests to Auth, `main` the callbacks and segues
on the main queue, `reads` the reads of `loadLoggedUser`, `document` whether the
phone can see each user's document.

| action | code |
|---|---|
| `TapSignIn` | `loginButtonTapped`, `signUpTapped`; the buttons stay enabled |
| `AuthGrants`, `AuthRefuses` | Firebase Auth, in any order; its callbacks reach the main queue in the order of its grants |
| `LoginCallback`, `RegisterCallback`, `Segue` | the closures of `AuthManager.login/register` and `UsersManager.createUser` |
| `Reload`, `ReadAnswered`, `ReadUnanswered` | `UsersManager.loadLoggedUser`, called whenever Profile or Discover appears; its early return that skips the completion |
| `StoreDocument` | the SDK's worker queue |
| `Logout` | `AuthManager.logout` and the segue of `ProfileViewController`: `userId` and `loggedUser` keep their values |
| `Crash` | the process is killed; Auth keeps its current user, `userId` starts empty |

History variables: `crossed` holds from a logout with a sign-in still being
completed until Auth grants the next request; `mixed` from a sign-up over another
user's `loggedUser`, or from sign-ins that overlapped, until `loadLoggedUser` has
answered for `userId` with nothing else under way; `orphans` are the accounts
whose document a crash took.  `screen` is the one shown last.

### Feed

One phone.  `wall` are the posts on the server, `posts` and `rows` the array of
`FeedViewController` and the rows its table counted when it was last reloaded,
`main` the main queue, `queries` the two kinds of queries under way, `known` and
`following` what is loaded of `UsersManager.loggedUser`.

| action | code |
|---|---|
| `Refresh` | `populatePostsTable`, from `viewWillAppear` and from `reloadData` after a like or a deletion |
| `AskFollowing`, `TakeFollowing` | `getFollowingPosts`: the block that queries and completes with `[]` at once, and the completion that replaces the array |
| `AskOwn`, `TakeOwn`, `AppendOwn` | `getLoggedUserPosts` and the block that adds, sorts and reloads |
| `Answer`, `QueryFails` | Firestore, in any order; both managers return on an error |
| `TooManyFollowed`, `ShowMissingRow`, `Launch` | the SDK's exception, an index out of range, the next start |
| `Publish`, `Delete`, `LoadUser` | other phones; `loadLoggedUser` |

`NewestFirst` is any sorted permutation of a list; `OldestFirst` stands for the
order documents come in from a query, which no property depends on, as the
proofs show.

History variables: `stale` holds from a replacement of the array behind the last
reload (or the failure of the query that would have reloaded it) until the next
reload; `calm` while nothing has disturbed the last refresh: no other one, no
failure, no change of the posts or of the followed users, no followed posts that
came last.

### ImageLoader

The image views of cells, the rows they get and the loads made for them.  A cell
gets its row in `cellForRowAt`; the address of the row's picture is known only in
the callback of `getUserById`, which nothing cancels and which loads into the cell
whatever row it has by then.  `wanted[v]` is the picture of the row `v` has, set
when the row is given and never by a load; `asked[v][u]` counts the callbacks still
to come, for this row and for former ones; `image` is the picture shown.  `load[l]`
is the request with the token `l`; `loadedImages` (its addresses),
`runningRequests` and `uuidMap` are the three dictionaries.  `main` and `thread` say
where the main thread and URLSession's thread stand between two accesses of a
dictionary, `blocks` are the blocks that will set a picture.

| action | code |
|---|---|
| `Dequeue` | a cell of `Cells` (posts, people, news) gets another row: `prepareForReuse` (placeholder and `cancel(for:)`), the row, `getUserById` |
| `Redraw` | another cell (the connections of a profile) gets a row: its picture and load stay |
| `LookupFails` | `getUserById` reads nothing and calls nobody |
| `Hit` | the callback, late or not: `ImageLoader.loadImage` when the picture is kept, the completion at once, no token |
| `Start`, `Register`, `MapToken` | otherwise: `task.resume()`, then `runningRequests[uuid]`, then `uuidMap[imageView]` |
| `Respond` | URLSession has a picture, other data or an error |
| `CompleteImage`, `CompleteOther` | the handler up to UIImageLoader's completion, which a cancelled request or other data never reaches |
| `Unmap`, `Drop` | the two `defer`s |
| `ShowImage` | the block on the main queue |
| `RaceInRunningRequests`, `RaceInUuidMap` | both threads write one dictionary at once: either write may be lost |
| `Die` | the same, or a read against a write, kills the process |

A row may have no picture (`None`): its author has no address.  People and news
have their address at hand and load in a block or at once; that is a lookup which
does not fail.  History variables: `overtaken` are loads whose completion was
faster than `Register`, or met it or that of another in the dictionary; `mixed[v]` holds when `v` got
its row with something of a former one left that no cancellation stops
(`Stray`: a lookup, or an answer whose block is still to run), when it is not cleared
and anything at all was left, or when a race lost its token; `failed[v]` when the
lookup or the answer for `v`'s row brought no picture.

### Upload

`step[k][n]` is the answer the upload `n` of picture `k` waits for (`put`, `url`,
`document`, `written`, `updating`), `queue[u][k]` the updates of `u`'s profile that
Firestore holds until the server has committed or refused them, `stored` and
`images` what Storage and the collection hold, `profile` the address in each user's
document, `picker` the image views of the edit page, `here` the uploads that page
has started, `header` what the profile page shows and `loading[k][n]` the loads into
it that are under way.  An upload is named by its `UUID`, which stands for its
address, too.

| action | code |
|---|---|
| `Pick`, `Tap`, `Reopen` | the image pickers, `editButtonTapped`, another `EditProfileViewController` |
| `PutDone`, `UrlDone`, `CommitDocument`, `Finish`, `Fail` | the nested callbacks of `ImagesManager.uploadPhoto`, success and error; `Finish` blanks the picker and gives Firestore the update of the profile |
| `Update`, `Refuse` | the callback of `updateData` in `updateProfilePicture` and `updateBackgroundPicture`: the server has committed the update, or refused it |
| `Appear`, `Refresh`, `RefreshFails` | `viewWillAppear` and `refreshProfile` of `ProfileViewController`; the document is read with the updates still queued (`Seen`), and `loadImage(from:)` called for its pictures |
| `ShowHeader`, `LoadFails` | `UIImageLoader.load`'s completion, for loads in any order |
| `SignIn`, `Crash` | logout and another login; the process is killed, and updates not yet on disk are lost (`Unsaved`) |

`Tap` changes `header` at once because the page's delegate call hands the
pickers' images to the profile page before anything is uploaded.  History
variables: `by`, `last`, `crossed` (under way at a change of account), `overlaps`
(under way with another upload of its picture), `early` (the profile page may be
ahead of the profile, or behind it: an upload was under way, another picture's load
was, or the load failed), `unsent` (chosen, not yet tapped).

### Discover

`load[i]` holds what one call of `loadDataSources` has captured: whether the users
and the news have come and which region's news it `got`.  `source` and `delegate`
are the table's weak references, `shown` the list its visible rows are of, `data`
the region of the data sources kept, `blocks` the main queue.

| action | code |
|---|---|
| `Appear`, `Switch`, `Search`, `PickRegion` | `viewWillAppear` (and the completion of a follow), `segmentSwitched`, the search bar, the region picker |
| `ReadAnswered`, `ReadFails` | the callback of `loadLoggedUser` in `updateView`, which begins a load |
| `UsersArrive`, `UsersFail` | the callback of `getAllUsers`, on the main thread |
| `NewsArrive`, `NewsLook`, `BothMiss` | the callback of `NewsManager.getNews` on URLSession's thread: it stores, then looks for the users.  Where both threads do so at once, neither may see the other's answer |
| `MakeSources`, `ShowPeople` | the two blocks that replace `data` and then give the people's source to the table |
| `SwitchTooEarly` | a segment tapped while `data` is empty: the app stops and is started again |

History variables: `crossing` (a region picked with a load under way, or an answer
that failed), `torn` (a segment switched between the two blocks), `lost` (a load
that never ended, since a region was last picked).

### Connections

`docs` are the versions of the user's document; `logged` and `rows` the versions
that `loggedUser` and `dataSources` were read from.  `kept` is what a search has
left, `source` the list the table shows, which follows `segment` in a block.
`Filter` is the part of a list that is in a set, in its order: the document's
arrays without somebody, and the rows that a search matches.

| action | code |
|---|---|
| `Open`, `Close`, `Appear`, `Select` | `viewDidLoad` and `viewWillAppear`, leaving the page, coming back to it, the segmented control |
| `Unfollow` | `UsersManager.unfollow` with `loadLoggedUser` and then `updateData` as its completions |
| `SegmentBlock`, `UpdateBlock`, `RowsBlock`, `LoggedBlock` | the blocks of the main queue |
| `Load`, `Answer`, `ReadFails`, `ChangeElsewhere` | `loadLoggedUser` of other pages, Firestore, other phones |
| `TapMissingRow` | `getProperUser` past the end of `loggedUser`'s list |

`disturbed` is a history variable: the document changed elsewhere, or a read
failed, since the page was opened with a current `loggedUser` or since an unfollow,
which renews both copies.

### MCFollowGraph, MCPosts, MCSession, MCFeed, MCImageLoader, MCUpload, MCDiscover, MCConnections

Symmetry sets for TLC where they are sound (none for `Upload`, whose run checks
liveness); the configurations give the constants.

## 4. Runs

| run | question | instance |
|---|---|---|
| `follow_faults` | safety of the follow relation under crashes, refusals, broken streams and shared accounts | 2 accounts, 2 phones, 2 taps (4 writes), pipeline of 2, all faults, symmetry |
| `follow_crash` | a crash tears one pair at most of those no fault had touched | 3 accounts, 1 phone they use in turn, 2 taps, crashes and refusals, symmetry |
| `follow_live` | whatever is tapped reaches the server while its account stays signed in, and `FollowGraph` implements `FollowRelation` | 2 accounts, 2 phones, 2 taps, no faults and no symmetry; broken streams and changes of account remain; `FairSpec` |
| `posts_faults` | posts get their id, likes follow the taps, deletions last | 2 accounts, 2 phones (on one account or two), 1 post, 3 writing taps, crashes, broken streams, offline reads |
| `posts_like_deleted` | does `likePost` always find its document? No: a finding | the same without faults |
| `session_faults` | the three notions of "me" agree, accounts have documents | 3 accounts, 3 requests, blocks and reads under way at once, crashes, unanswered reads, symmetry |
| `feed_refresh` | the feed is complete, its rows exist | 2 posts, 2 users to follow with a limit of 1, two refreshes at once, failing queries |
| `image_reuse` | cells show their rows' pictures under late authors, two threads and reuse | 2 views, one of a cell that is cleared, 2 pictures, 2 lookups at a time, 2 loads, 1 block, data races, symmetry |
| `upload_faults` | profiles name existing, own, latest pictures, and get them | 2 accounts, 2 kinds of picture, 2 uploads, crashes, refused updates, failing steps, reads and loads, `Fairness` |
| `discover_loads` | Discover's table under overlapping loads | 2 regions, 2 loads at once, failing answers, symmetry |
| `connections_rows` | rows and taps of Connections agree | 2 other accounts, 2 versions of the document, 3 reads and blocks, failing reads, other phones, symmetry |
| `feed_eleven` | the feed respects the SDK's limit of an `in` filter? No: a finding | 11 users to follow, the SDK's limit of 10 |

**Properties of `FollowGraph`.**  `ReciprocalUnlessSuspect`: on every pair no
fault touched, the two halves agree, counting what is still under way.
`CommittedIsStored` is the main fact it rests on: what was committed is visible.
`NobodyFollowsSelf`: no account gets into its own arrays, even when the phone
changes accounts.  `CrashTearsAtMostOnePair`: one crash separates the halves of
one pair at most, because a lane is first-in first-out.  It leaves out the pairs a
fault had touched before, even those mended since (`faulted`): with three accounts,
a write refused and its pair mended by taps that are still in memory, a
crash may undo the mending and tear the pair it interrupts as well.  `SavedWritesSurvive`:
a write on disk goes only from the front, only when answered, only while its
account is signed in.  `EventuallySettled` is the liveness of the pipeline, and
`ImplementsFollowRelation` says that without faults all this is one relation.

**Properties of `Posts`.**  `EveryPostGetsItsId`: a readable post without an id
has the write of its id under way, unless a crash took it.  `TogglesCount`: an
account is, or will be, among the likes exactly when it tapped an odd number of
times, apart from blurred taps.  `DeletedStaysDeleted`: once writes have drained
a deleted post is gone, unless another phone still held its creation.
`LikeFindsItsPost` is what the forced unwrap in `likePost` assumes; it is false.

**Properties of `Session`.**  `UserIdIsSignedIn`: inside the app `userId`, written
into posts and follows, is the account whose queue takes those writes.
`LoggedUserIsUserId`: `loggedUser`, the author of comments, is the same person, or
not loaded, apart from the `mixed` sessions, of which the common one is a sign-up
after a logout: until Profile or Discover has been opened, comments go out under
the previous user.  `AccountsHaveDocuments`: only a crash leaves an account that
can neither sign up again nor log in.

**Properties of `Feed`.**  `FeedIsComplete`: a refresh that nothing disturbed shows
every own and followed post once, newest first, in as many rows.  What
`calm` excludes can break it: overlapping refreshes add one's own posts twice,
and so does every refresh before `loggedUser` is loaded.  `RowsAreInArray`: the
table counts more rows than there are posts, and would read past the array, only
while one's own posts are awaited, or after an answer that failed or came in the
other order.  `InFilterWithinLimit` is the SDK's condition on the query of
`getFollowingPosts`; it is false.

**Properties of `ImageLoader`.**  `ShowsItsRow`: a cell that got its row with
nothing left of the ones before shows this row's picture or the placeholder,
whatever its author, its picture, other cells and URLSession's thread do.  Where
something was left, the code does break it: the author's callback of a former row
loads that row's picture into the reused cell, a block runs after the cancellation
that should have stopped it, and a cell that is not cleared shows the former picture
until its own comes.  These are exactly the cases of `mixed`; feeds that are scrolled
faster than authors are read meet the first every time.  A race that loses the token of
a load is the last case, since the next reuse cannot cancel it.
`RunningIsCancellable`: the token of a running load is in both
dictionaries as soon as `load` has returned, whatever older completions remove.
`RequestsAreDropped`: `runningRequests` does not grow, apart from requests whose
completion was faster than their registration, or met one in the dictionary, which stay
in it for ever.  `PicturesArrive`: a cell does not wait for a picture that nobody
looks up or fetches.

**Properties of `Upload`.**  `ProfileHasPicture`: wherever a chain is cut, what a
profile names is stored.  `PictureIsOwn`: only an upload under way at a change of
account can end in another's profile; it does then, because the last step asks
for `userId` anew.  `LatestWins`: once the server has committed the update of a
user's latest upload, nothing that is refused, lost or sent later takes the picture
away; the order of two uploads is lost only if they overlap.  `PickIsKept`: `Finish`
blanks only the picker its upload came from.  `HeaderIsProfile`: once the profile has
been refreshed with no upload under way and no other picture still loading, the page
shows what the profile names or is loading it; an older load that is still under way
may land last and stay, since the page cancels none, and is `early`.
`EventuallyOnProfile`: each upload comes to the profile or fails, while its user
stays signed in, though another may overlap it.

**Properties of `Discover`.**  `TapOpensShownRow`: between the two blocks of a load
the delegate is gone, so a tap does nothing; nor does it after them, until a
segment is tapped, because `ShowPeople` sets only the data source.
`NewsOfRegion`: of loads that do not cross, the last one's region is shown.
`HiddenTableReturns`: only a load that has lost an answer, or found no
`loggedUser`, leaves the table hidden.

**Properties of `Connections`.**  `RowOpensItsUser`: the two copies agree once an
unfollow has been answered.  Filters break it: the row's number counts the rows
left, `loggedUser`'s list has them all.  `RowsAreCurrent`: nobody who was
unfollowed is left among the rows.

**Bounds.**  `MaxTaps`, `MaxLane`, `MaxPending`, `MaxPosts` and the constants of the
configurations are the only bounds.  Two accounts and two phones give every case of the properties: they
speak of one pair of accounts and of two phones that race; only `follow_crash`,
whose property speaks of two pairs, has three accounts.  Two taps queue up to
four writes, so a pipeline of two is both full and refilled, a crash can fall
between the two writes of a tap and between two taps, and a second tap can
overtake the first on another phone.  The SDK's `kMaxPendingWrites` is 10; it is
the constant `PipelineLimit`, and no proof depends on its value.  In `Posts`
three taps are a post, a like and its withdrawal or its deletion; posts do not
share state, so one is enough.  In `Session` three things under way let two
sign-ins and a read overlap, and three accounts are the one before and the two
that overlap.  In `Feed` two blocks and two queries are two refreshes that overlap,
and the limit of the filter is both reached and exceeded.

In `ImageLoader` two views are a cell that is cleared and one that is not, each given
row after row; two lookups and two loads are those of a former row and of the one a
cell has, or of two cells with the same picture, in every order, with every
interleaving of two completions with a registration.  `MaxBlocks = 1` only keeps a
picture that is kept (`Hit`) from being shown behind a block that waits; completions add
theirs without a bound.  In `Upload` two uploads overlap each other, a change of
account or a crash, in one picture or in both; `MaxLoads = 1` leaves one load of each
picture into each view at a time, so the loads of two refreshes with different pictures
cross.  In `Discover` two loads cross;
`MaxBlocks = 0` only keeps a third load from starting behind blocks that wait.
In `Connections` two versions are one unfollow or one change elsewhere, and three
places for reads and blocks let an answer overtake another.  Larger instances
were checked once: `Discover` with 2 reads and 1 block (10.5 million states), the invariants of `Upload` with 3 uploads
of one picture (4.1 million), without a violation; `Connections` with 3 versions and 4 places was
stopped after 24 million states without one.

**Fairness.**  `Persist` is weakly fair because the worker queue runs what it is
given; `Commit` because the pipeline is refilled and the server works through it
while an account is signed in; `Ack` strongly fair, because a connection may break
again and again but at some point an answer gets through.  In `Upload` each step of a chain,
and the server's answer to the update of the profile (`Settle`), is weakly fair, as success or as failure: Storage and Firestore answer every
request of a process that lives, and the main queue runs the callbacks; a crash ends
chains as `failed`.  No fairness is assumed of taps, logins, refreshes or faults.

**Mutants.**  `PROJECT.json` names for each property a definition and a mutated
form beside it (a dropped guard, a swapped order, a queue that logout clears),
under which the property fails.

## 5. Proofs

Each proof module strengthens its properties to an inductive invariant `IInv`
(`FollowGraph_proofs` has `SelfInv`, `CrashInv` and `FaultlessInv` besides), shows
with a lemma per conjunct or per kind of step that every step preserves it, and
derives one theorem per property.
The proofs assume what the modules' `...Assumption`s say of the constants and nothing
else: no set has to be finite, unless it says so, and no bound small.

### FollowGraph_proofs

The theorems hold for every `Users`, `Devices`, `Faults`, `PipelineLimit`,
`MaxLane` and `MaxTaps` allowed by `FollowGraphAssumption`.

* `TypeCorrect`: `Spec => []TypeOK`.
* `Reciprocity`: `Spec => []ReciprocalUnlessSuspect`.  The property is not
  inductive: acknowledging a write drops it from the lane, which changes nothing
  only if the document already says what the write said (`CommittedIsStored`),
  and that fails if another phone could write the same half in between
  (`OneDevicePerPair`).  `IInv` is the conjunction of the three with `TypeOK`.
  Steps are grouped by what they do to one lane: `QuietStep` (nothing),
  `IssueStep` (two writes appended), `CommitStep`, `PopStep` (head dropped: `Ack`
  and `Reject`) and `CrashStep` (cut to the saved prefix); the lemmas
  `LaneAfterTap`, `LaneAfterPop`, `LaneAfterCut` say how pending and last writes
  of a sequence change.  `IndStep` puts them together.
* `NoWriteRaces` and `CommitsAreVisible`: the other parts of `IInv`.
* `DrainedReciprocity`: with empty lanes the documents themselves agree.
* `NoSelfFollow`: `Spec => []NobodyFollowsSelf`, from `SelfInv`, which adds that no
  screen ever offers the account itself.
* `TapsSurvive`: `Spec => SavedWritesSurvive`, an action property.  `SurviveStep`
  has a case per kind of step: a prefix on disk gets shorter only in `Ack` and
  `Reject`, which take its head.
* `CrashTearsOnePair`: `Spec => CrashTearsAtMostOnePair`.  `CrashInv` looks ahead to
  every crash: cut the lanes anywhere behind what is saved, and the halves of an
  untouched pair agree in what is left unless the cut is through a tap on it
  (`CutsAreWhole`); what was committed is visible after such a cut, too
  (`CutsAreStored`); and only the account signed in has writes in memory (`OneWriter`),
  so one lane is cut and one tap halved.
* `FaultlessRefinement`: with `Faults = {}`, `Spec => ImplementsFollowRelation`.  An
  account then keeps to one phone and no pair is suspect (`FaultlessInv`), a tap
  changes one pair of the relation seen (`TapChangesRel`), and every other step
  leaves it as it is (`RelUnchanged`).  The hypothesis is met: it is the instance
  `follow_live`.

### Posts_proofs

`TypeCorrect`, `PostsGetTheirIds`, `DeletesLast`, `TapsCount`: every property of the
run.  `After` is taken apart by induction (`NatInd`): what one more write makes
(`AfterSteps`), what the last toggle of a queue leaves (`AfterLikes`).
Its `IInv` is called `LikeInv` and has three layers, each proved from those below.

* `PostInv`, posts and deletions: a queue has the creation of a post first
  and its name next (`InOrder`, `NameFollows`), one phone of the author writes it
  (`OneWriter`), an unused id is nowhere (`UnusedIsUnknown`), committed names
  are visible (`CommittedNames`), a missing id is on its way (`NamesOnTheirWay`), and so
  is a deletion, or it has happened (`Deletes`).
* `LaneInv`, likes on the server: documents that were not deleted can be read
  (`Authored`), and are there once committed (`Arrived`); the server shows the last
  toggle it has committed (`CommittedToggles`), nobody likes a post before it is created
  (`NoLikeYet`), and a cache that nothing has overtaken agrees with the server
  about its account (`CacheAgrees`).
* `TapInv`, taps under way: a post not on the server is still coming (`StillComing`), the
  clear taps of an account wait on one phone (`OneBusy`), one at a time (`OneRead`), an
  answer tells what the account's writes will make of the likes (`Answered`), and
  the taps counted are those decided (`Parity`), of which `TogglesCount` is a case.

### Feed_proofs

`TypeCorrect`, `RowsStayInArray`, `FeedCompletes`: every property of the run.  First,
sorting: by induction every list has a sorting permutation (`OrderExists`), so that
`NewestFirst` keeps exactly the posts of a list (`SortedLists`); a query's answer has
each post of its set once (`OldestFirstLists`); and a set of posts has one sorted list only
(`OneOrder`).  So two disjoint answers, joined and sorted, are the feed (`FeedFromParts`).
This needs `Posts` to be finite, as what a server stores is.
Then `IInv`: a block that empties the array has one's own posts, and the reload, behind
it (`OwnBehind`); and an undisturbed refresh (`CalmInv`) has each of its
two requests in one place (`InOnePlace`), asks for and brings the right posts
(`BringsPosts`), and shows those that have come (`Shows`).

### ImageLoader_proofs

`TypeCorrect`, `CellsShowTheirRow`, `LoadsCanBeCancelled`,
`RunningRequestsAreDropped`, `NoCellWaitsInVain`: all five properties of the run.
None is inductive alone.  `IInv` adds that an unused load belongs to no view
(`UnusedHasNoView`), that only a picture or an error
reaches the line that removes a token, and no load is cancelled while its token is
being written (`ThreadsAgree`); and of a view that is not mixed, that the author being
looked up is its row's, with nothing else on its way to it (`LookupIsForRow`: why the
callback loads the right picture), that it has one load under way at most
(`OneAtATime`), that a token is mapped only after its
request is registered (`RegisteredFirst`), and that what is under way to
it is its row's picture (`OnTheirWay`, `CompletedIsShown`).  The two data
races keep it as well: an entry of `runningRequests` that survives its removal is of an overtaken
request, a token that survives is of an answered load, and a write that is lost
concerns one view, which is mixed from then on.  `DieIsInit` makes a crash an initial state.

### Upload_proofs

`TypeCorrect`, `PicturesExist`, `PicturesAreOwn`, `LatestIsShown`, `PicksAreKept`,
`HeadersAreCurrent`: every invariant of the run.  `IInv` says how far the data is
at each step of a chain, and where an update waits (`ChainLeaves`, `QueuedOnce`), that a
profile names ended uploads (`ProfileIsDone`), who owns what is under way, queued or
latest (`UnderWayIsOwn`, `QueueIsOwn`, `LastIsOwn`), that
an upload under way and not overlapping is its user's last (`OlderOverlaps`), so that no
update is sent after that of the latest, and
that nothing from the page is under way while a pick is unsent
(`UnsentIsCalm`) and nothing at all, nor another picture loading, while the page is up
to date (`HeaderIsCalm`).  The actions are treated by what they do: a chain goes on,
ends or hands over its update, an update is settled, a page changes.

### Discover_proofs

`TypeCorrect`, `TapsOpenShownRows`, `NewsAreOfRegion`, `TableReturns`: every
property of the run.  `IInv` adds that a block that shows comes after one that has
made data (`ShowsHaveData`), that between the two blocks of a load nothing answers
a tap (`UntilShownNothingAnswers`), that a load that has ended
is free again (`EndedIsFree`), where the region picked last is on its way
(`NewsFollow`), and likewise the load that unhides (`ReturnIsOnItsWay`).

### Session_proofs

`TypeCorrect`, `UserIdsAreSignedIn`, `LoggedUsersAreUserId`,
`AccountsGetDocuments`: every property of the run.  `IInv` adds that without a
`userId` nobody is in the app, on the way into it, or read (`NobodyIsOut`), that
the last callback waiting on the main queue is that of Auth's current user
(`LastIsSignedIn`), that with no callback waiting whoever enters the app is signed in
(`EnteringIsSignedIn`), and whose the reads under way and `loggedUser` are
(`ReadsAreOwn`, `LoggedUserIsOwn`).

### Connections_proofs

`TypeCorrect`, `RowsOpenTheirUsers`, `RowsBecomeCurrent`: every property of the run.
`FilterPicks` and `FilterLeavesAll`, by induction over the list, say what `Filter`
leaves; nobody is twice in a list, also after an unfollow.  `IInv` adds that versions of
the document are delivered in turn (`InTurn`), that `loggedUser` and the rows are
the latest version, or an answer with it, or the read for it, is under way
(`UserFollows`, `RowsFollow`), and that the table will show the segment selected
(`SegmentFollows`).

### How induction is done

The library's induction theorems take an operator as a parameter, which the provers
cannot instantiate.  `Posts_proofs`, `Feed_proofs` and `Connections_proofs` use
well-founded minima instead (`WFMin`, whose parameter is a set): a set of numbers
with 0 and every successor has them all (`NatInd`).  What a recursive function
computes is then a set of the lengths for which the claim holds.

### What stays with TLC

* `EventuallySettled` and `EventuallyOnProfile`: liveness under fairness is
  out of the prover's reach.  `PicturesArrive`, which sounds like it, is an invariant
  (what is awaited is under way) and proved.
* The two violations, `LikeFindsItsPost` and `InFilterWithinLimit`, which are false.
* That the guards are not too strong: the passing runs take every action.

## 6. What is assumed and what is left out

* The server applies writes of a lane in order, at least once: the SDK resends
  what is unanswered, and nothing in the code relies on the server recognising a
  write it has seen.
* Array transforms and `setData` do what `Firestore/model` does locally.
* In `Posts` the server refuses only updates of documents that do not exist;
  security rules are not in the repository.  `FollowGraph` lets any write be refused.
* Accounts have a document in `users`; its creation is `Session`'s.
* In `Session` going back from the tabs to the log-in page by a swipe is not
  modelled, and a document that was written stays readable on the phone.
* In `Connections` what a search matches is any subset of the rows, and a read of Firestore
  answers with the document as it is at that moment.  In `Discover` the rows of a list are
  not told apart, so a search is a load like any other.
* `ImageLoader` gives each load a token that was never used; a `UUID` is taken to be unique,
  as `Upload` takes its names to be.
* Not modelled:
  - comments (`PostVC`, `CommentsManager`): a comment is written in the two steps of a
    post (`Posts`), under `loggedUser` (`Session`), and the list is replaced as a whole
    by each query while nothing removes a comment;
  - what cells show besides their pictures, names and texts, which arrive with the
    picture's address (`ImageLoader`) and stay under the same conditions; and that cells of stories
    and of Connections go back to the placeholder in the callback, not before;
  - stories, which show the users followed, counted at the last reload, and only print a
    line when tapped, the connections collections of the
    profile pages, and the header of `UserProfileVC`, a single read;
  - a page of Connections that is left stays in memory (it and its data
    sources refer to each other), but nothing it does can be seen;
  - layout, formatting, the share and Safari sheets, the app's life cycle callbacks
    (all empty), and the vendored code below the SDK's queues: BoringSSL, gRPC,
    abseil, leveldb, FirebaseAuth, FirebaseStorage and Kingfisher are nearly all of
    `src/`, but not this program.
