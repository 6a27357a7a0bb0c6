# FireChat in TLA+

FireChat is an iOS chat (Swift, about 2,200 lines under
`src/FireChat/FireChat`) over Firebase Authentication, Storage and Firestore;
the SDKs are vendored under `src/FireChat/Pods`. The app has no server code and
its tests are the empty Xcode templates: what it does is decided by closures
that a persistent, asynchronous database calls back. These modules model those
closures, in the order the code allows them to run, with the part of the
vendored Firestore client they rely on.

All checks run in this directory:

    tlc -workers 2 -config MCMessaging_faults.cfg MCMessaging.tla
    tlapm Messaging_proofs.tla

## 1. The system

### Components, their state and operations

| Component | State it keeps | Operations | Hard behaviour | What makes it correct |
|---|---|---|---|---|
| Message upload: `Service.uploadMessage` (API/Service.swift:32), called by `ChatController` and emptying the field | none of its own: two closures | four writes: own copy; from its completion the partner's copy and two "recent-messages" documents; the completion of the partner's copy empties the field | completions lost with the process, late, with an error, or under another account | own copy first, delivery in order, nothing twice, text kept until delivered |
| Firestore write path (Pods: `sync_engine.cc`, `local_store.cc`, `remote_store.cc`, `stream.cc`, `write_stream.cc`, `grpc_stream.cc`) | a persisted mutation queue per user, a pipeline of at most `kMaxPendingWrites`, callbacks in memory; the states of a stream, a call with its reads and buffered writes, tokens asked for | enqueue, start, handshake, answer, error, close, back off, idle stop, change of network and user | everything is a block of a worker queue, and what a block is about may be gone when it runs; answers carry no id; callbacks do not survive a kill, batches do | no assertion fails but one that the backend can, answers go to the right write, nothing crosses accounts, each write is answered |
| Firestore listen path (`view.cc`, `query_listener.cc`, `event_manager.cc`) | what the client heard, overlaid with the pending writes | first snapshot, changes | intermediate states are skipped; own writes seen before the server has them | as above |
| Conversation list: `fetchConversations`, `fetchUser`, `ConversationsController` | an array per listener, `conversationsDictionary`, rows | listener, profile request per changed document, merge | requests overtake each other; listeners are never removed, nor are the rows of an earlier login, of whatever account | list catches up, rows never go back |
| Chat, receiving side: `fetchMessages`, `ChatController` | an array per listener | listener that appends "added" documents | reopening, refused own messages, late messages | all shown, once, in the order of their source |
| Input field: `CustomInputAccessoryView` | the text, the placeholder | typing, Send, emptying | Send twice; typing while a send is under way; a completion after the chat was left | a sent text leaves the field, and no text is lost but one typed during an upload |
| Accounts: `AuthService`, `LoginController`, `RegistrationController`, logout | keychain user, accounts, user documents | photo, URL, account, document; sign-in; sign-out | any step fails; the app dies between steps; two requests overlap | every account gets its document; only a user sees the list |
| Screens over the list: profile, chat, new message | what is presented, the user shown | open, fetch, select, close, log out | requests that are never answered; a late login under an open screen | the screen can be left; it belongs to the user who is signed in |
| Loader: `UIViewController.hud`, JGProgressHUD | target view (weak), animation, deferred dismissal | show, dismiss | one loader for all screens | no screen stays covered |
| New message and search: `NewMessageController`, `fetchUsers`, `UserCell` | users, filtered users, cells | load, search, scroll, select | users arrive during a search; cells are used again | list, rows and cells agree |
| Pictures: SDWebImage (Pods) | memory and disk cache, failed URLs, downloads shared by URL, callbacks between four queues | load, cancel | a picture that comes late, for a cell that shows somebody else by then; a download that ends while a cell joins it | the right picture; each load ends |
| Navigation, cells, view models, styled views, delegates | none that others read | layout | | |

`PROJECT.json` has the same list with sources and status, and under "hazards"
each place where something can go wrong that a unit test would hardly reach.

### How they interact

* `ChatController` → `Service.uploadMessage` → mutation queue of the signed-in
  user. The SDK's queue answers on the main queue; the answer to the own copy
  issues three more writes into *the queue of whoever is signed in then*.
* Below the queue the SDK works in blocks of one worker queue: the app's writes,
  changes of user, tokens from Auth, completions of gRPC. A handler calls down
  and is called back before it returns (closing a stream calls RemoteStore, which
  may start it again).
* The server's documents come back through snapshot listeners: those of the
  author (who sees his own pending writes too) and those of the partner. The
  chat's listener appends; the list's asks for a profile per change.
* `LoginController`/`RegistrationController` call their delegate, the list,
  which dismisses whatever is presented and adds another listener. No listener
  is ever removed.
* Every screen uses one loader; its `dismiss` takes away whatever another
  screen showed.
* Cells ask SDWebImage for a picture when they are told their user, which
  cancels what the same cell asked for before.

## 2. Modules

| Module | Stands for |
|---|---|
| `Messaging` | uploadMessage on several devices over the SDK's write path |
| `MessageDelivery` | the abstract promise: own copy settled first, delivery in order, confirmation after delivery |
| `MessagingProps` | the properties of `Messaging`, and `Messaging` as an implementation of `MessageDelivery` |
| `Messaging_proofs` | the inductive invariant of `Messaging`, what follows from it, and that `Messaging` implements `MessageDelivery` |
| `WritePipeline` | how the Firestore SDK brings the writes of one device to the server |
| `WriteQueue` | the abstract promise: persisted first-in-first-out queues, answers at the front |
| `WritePipelineProps` | the properties of `WritePipeline`, and `WritePipeline` as an implementation of `WriteQueue` |
| `WritePipeline_proofs` | its inductive invariant, what follows from it, and the refinement |
| `Selection` | the elements of a sequence at certain places |
| `Conversations`, `Conversations_proofs` | the conversation list of one device, whoever is signed in |
| `Chat`, `Chat_proofs` | one chat screen, receiving side |
| `Ordering_proofs` | finite sets can be put in order, and what `Select` selects |
| `UserList`, `UserList_proofs` | the new message screen: users, search, cells and their pictures |
| `Composer` | the input field of the chats, over uploads that report in order |
| `Composer_proofs` | TLAPS proofs about `Composer` |
| `Hud` | the shared loader as a value |
| `Session`, `Session_proofs` | registration, login, logout, every screen over the list, and their use of `Hud` on one device |
| `MC…` | names of the model values, `OneEach`; no definition is replaced |

Definitions whose comment begins with "Variant" are plausible bugs of the code,
put beside the definition they would replace. No specification uses them; each
property is known to fail with one of them in place.

### Messaging

`queue[d][a]` is account `a`'s persisted mutation queue on device `d`; `cb` of
a batch tells whether the process still holds its completion. `applied[d]`
counts the batches at its head that the server committed in this stream and has
not answered. `main[d]` is the main queue as far as it matters: completions and
the notification of a credential change, in order (`FIRAuth` posts it, Firestore
hears of it later, so `auth[d]` and `fs[d]` differ for a while).

| Code | Action |
|---|---|
| sendMessage → first `addDocument` | `Send` (queue gets `Upload(m)`) |
| its completion, error ignored: three writes | `RunOwnCompletion` (`FanOut(m)`, in program order) |
| ChatController's completion | `RunPeerCompletion` |
| the app dies, anywhere; inside the fan-out | `Kill`, `KillInFanOut` (each write is persisted on its own) |
| `Auth.signOut`, sign-in; the SDK's user change | `SignOut`, `SignIn`, `RunCredentialChange` |
| the server commits; the answer arrives; a permanent error; the stream breaks | `Apply`, `Ack`, `Reject`, `StreamReset` |

Abstractions: a message is its author, partner, device and that device's send
count, the text does not matter. `Ack` makes one step of the SDK's
acknowledgement and the closure's dispatch: dying between the two leaves either
the batch without closure (as `Kill` before) or nothing (as `Kill` after). Acks
arrive in order because a write stream is ordered. The server is one state that
all devices write to; the devices' views of it are in `Conversations` and `Chat`.

### WritePipeline

`Messaging` takes the SDK's write path as a queue whose head is committed,
answered or refused. `WritePipeline` is the path itself, for one device. Its
state is one record, `sdk`, because a handler of the code goes through several
objects before it returns: the operators (`Start`, `Close`,
`FillWritePipeline`, `HandleWriteError` …) are the code's functions, from one
state of the SDK to the next, and each action runs one block of the worker
queue, one timer, or one step of another thread.

| Code | Here |
|---|---|
| `SyncEngine`, `LocalStore`: queues, batch ids, callbacks | `queue`, `nextId`, `callbacks`, `told`; `WriteLocally`, `HandleWriteResult`, `HandleUserChange` |
| `RemoteStore`: the pipeline, error handling, network | `pipeline`, `enabled`; `FillWritePipeline`, `OnWriteStream…`, `HandleWriteError`, `RestartNetwork` |
| `Stream`, `WriteStream`: states, handshake, idle, close count | `state`, `handshake`, `idle`, `asked[…].live`; `Start`, `Close`, `MarkIdle`, `InhibitBackoff` |
| `GrpcStream`: call, read, `BufferedWriter`, cancelled completions | `call`, `reading`, `buffer`; `OnOperationFailed`, `Cancel`, `Shutdown` |
| credentials provider: `token_counter`, a token that is asked for again | `notified`, `asked[…].current`; `GiveToken`, `FailToken`, `ChangeUser` |
| `HARD_ASSERT`s on this path | `sound`; the one an end with OK may fail, `StoppedWhileNeeded` → `Relaunch` |
| the backend and the connection (external) | `server`; `Serve`, `Refuse`, `Break`, `EndStream` |

A call ends with a transient error, a permanent one, or OK: `write_stream.h:64-67`
allows for a stream "closed without attributable fault", and
`Stream::OnStreamFinish` (`stream.cc:294-305`) passes any status to `Close`.
`Close` cannot tell an OK of the backend from a stop of the SDK's own, so
`OnWriteStreamClose` asserts that the stream was not needed
(`remote_store.cc:453-458`). With nothing in the pipeline the stream goes back to
its initial state; with writes in it the assertion fails and the process aborts:
`RunFinished` then is a restart, with the queues that are persisted and without
closures. Every other assertion is asked to hold, across these aborts too.

What is assumed of what is not in the source: the server does not go on with
requests of a call that is over; what it answered before an end with OK arrives
before that; answers are well-formed; a permanent error after the handshake comes from a
write; a call whose trailers have come fails the next send (vendored gRPC-Core,
`chttp2_transport.cc:1484-1493`, `hpack_parser.cc:1672-1680`). Aborted and
unauthenticated count as transient, like the errors of a connection. The app
never disables the network, so only reachability and user changes restart it.

Abstractions: a write is who made it and which one it was; local views, index
and remote documents, stream tokens as bytes, and the watch stream are left out;
timers have no durations.

### Conversations

One device, several accounts. `remote[a]`/`cache[a]`: the recents documents of
account `a` on the server and as last heard; `pend`: an own message whose
recents write is not acknowledged and hides the server's; `listeners`: since
launch, each with the account whose documents it follows and its array;
`fetches[k]`: the requests for the profile of `k` (answered in order per
profile, since they read one document of one client, in any order across
profiles); `dict`: the controller's dictionary, never emptied. `Tell` is the
change handler: every live listener of that account requests the profile of
`PartnerOf` the message, decided by who is signed in at decoding
(`Message.isFromCurrentUser`), whatever the kind of the change. `Answer` appends
and merges the *whole* array, `Fail` is the early return of `fetchUser` for an
answer without data. `SignOut` and `SignIn` leave rows and requests as they are;
the server may end the listeners it no longer allows, or not ("survive").

Abstractions: of the array only the newest row per partner is kept, because
merging in order leaves just that in the dictionary. Rows carry the number of
the change (`at`) so that "older" can be said. `lost` and `late` are histories
for the properties: which requests nobody answered, and which profiles came for
another account since the login. The partners are other devices' users; that two
accounts of one device write to each other is in `Messaging`.

### Chat

`log` is the collection on the server in commit order, `seen` how much of it the
watch stream brought, `pending` the own copies in the write queue. `at` is a
document's place in the query's order (timestamp, then id), which clocks of
different devices do not agree on. `Tell` raises a snapshot for what became
visible, in the query's order; `Show` is the closure, which appends; `Open` is a
new controller with an empty array and a first snapshot; `Refuse` takes the
message off the view and, as the code ignores "removed", not off the array.

### Composer

`field` and `hint` are the text and the placeholder of the input field on
screen, `uploads` the completions that are to come, oldest first, each with the
chat whose field it will empty. `Type` is `handleTextInputChange`, `Send` is
`handleSendMessage` → `Service.uploadMessage`, `Succeed` and `Fail` are the two
ends of ChatController's completion, `Open` and `Leave` a controller (with a
field of its own) that comes and goes, `Kill` forgets fields and closures.

Abstractions: texts are numbered in the order they are typed, and each change
makes a new text, so that "the same text" means "not touched since". What an
upload does to the write queue is in `Messaging`; here it only reports, in
order, or not at all once the app is killed. The histories (`sent`, `hasty`,
`lost`, `unheard`) exist for the properties and no guard reads them.

### UserList

`users`, `text`, `filtered` are the controller's; `top` and `row` say which row
each cell shows. `FetchUsers`, `UpdateSearchResults` and `Scroll` end by saying
which rows come on screen (`todo`); the table then asks for them one by one,
and `CellForRow` gives the first of them any of the
cells not on screen and tells it its user (`Configure`) - other blocks of the main
queue and the queues of SDWebImage run meanwhile. `pics` is a record, like the SDK's state above, of the cells
(user, image, load) and SDWebImage: `ops` are the download operations with the
callbacks still `waiting` and those already `called`, `operationOf` is
`URLOperations`, `io` the queue of the disk cache, `main` the blocks for the main
queue. `Cancel` is what a cell's new load does to its old one;
`CallCompletionBlocks`, `Done` and `Completed` are the three moments in which a
download ends (`SDWebImageDownloaderOperation.m:435-437`, and the completion
block that unregisters its URL), between which other queues may run.
A cell shares a download in two steps, too: `RunFound` checks that it is not over
(`SDWebImageDownloader.m:297-299`), and `AddHandlers` adds the callback (`318-322`).
The main queue is busy from one to the other (`joining`), and the lock it holds is
that of `URLOperations`, which the download does not take before `Completed`: it
may call its callbacks, or be over, in between. `missed` are the cells whose
callback came too late for that.

Abstractions: the text is compared through `Hits[t]`, the users it matches: the
code lower-cases what is typed and compares it with the username, stored in
lower case, and the full name as stored. The table asks for its rows when it is
laid out, so blocks of the main queue may run between `reloadData` and
`cellForRowAt`, and between two rows. A picture is named after its user, as
every upload has a name of its own. Progress, prefetching and cache expiry are
left out.

### Hud and Session

`Hud` gives JGProgressHUD's rules: show is ignored while visible or moving,
dismiss during an animation is done at its end, the target view is weak.
`Session` numbers the screens that are presented (`opened`), so that a late
completion knows the view it was begun on, and keeps every chain of requests as
a job with the step it has reached, `silent` where the code never calls the
completion. `Enter` is `authenticationComplete` (dismiss whatever is presented,
ask once more who is signed in, add a listener, show the loader; a chat is pushed,
not presented, and stays); `Refused` is the error branch.

What Auth and Firestore do on queues of their own and what they post are two
steps, with whatever is on the main queue (`main`) in between:

| Code | Steps |
|---|---|
| sign-in and sign-up: `updateCurrentUser`, then the callback (`FIRAuth.m:1919-1944`) | `SignIn`, `SignUp` change `current` and post the notification and the callback; `SignInAnswer`, `Created` run it |
| the notification (`FIRAuth.m:1695-1722`) reaches Firestore | `RunCredential` changes `fs`, whose queue the next document goes to |
| `setData` of the user document (`AuthService.swift:49`) | `WriteDocument`, `RefuseDocument` take it out of the queue and post the completion; `DocumentAnswer` runs it |
| logging out (`ProfileController.swift:113-122`, `ConversationsController.swift:99-106`) | `Logout` dismisses the profile; when that has ended `SignOut` changes `current` and posts notification and login screen; `PresentForm` presents it |
| `authenticateUser` (`ConversationsController.swift:93-97`), at launch and in `authenticationComplete` | posts the login screen if nobody is signed in *when it runs* |

So a completion that was on the main queue when the user logged out enters the
list although nobody is signed in any more: it dismisses a login screen that is
there already, and it is `authenticateUser` that brings another one.
`ListNeedsUser` says that this works in every order; without the second look
(`EnterUnasked`) it fails.

While a screen comes or goes (`transition`) UIKit takes no touches, and turns away
what is to be presented or dismissed; it turns away as well what the list is to
present while it presents something else. The list is in sight until the login
screen comes, so its user can open a profile first and the login screen be turned
away for good: `formless`, the one exception `ListNeedsUser` names. Answers whose
post changes nothing (errors, the photo, its URL, what screens fetch) are one
step, since they may as well be posted just before they run. `FetchAnswer` ends the request of the profile and
of the new message screen; the job of a chat is its listener, so that it may
answer again and again, after the chat was left too, and keeps that chat's view
alive. A row can be selected once the list has any (`rows`, which survives a
logout as the array does). A registration goes
`photo → url → create → created → signedUp → document → stored`, with the user
document in the queue of its user, so that it survives a kill while its closure
does not. Notification and callback are posted in one block of Auth's queue, so
that no other change of user comes between them, and what else may be posted
between does not ask for Firestore's user: they are posted together here. So
`Created` finds its own user in charge of Firestore, whoever is signed in by
then; `NoOrphan` asks for the document in the account's own queue.

Abstractions: an account's uid is its email; login and sign-up forms are one
screen (the sign-up form is pushed over the login form; either can be submitted
and either is dismissed with the other); form contents, `jpegData` that fails
and `signOut` that throws are left out. Which rows the list has is in
`Conversations`.

### External code

What the SDKs do is modelled from the vendored source where it is there (map
entries of `Messaging`, `Chat`, `Hud`), and marked external where the app only
uses it.

## 3. Runs

| Run | Question | Properties |
|---|---|---|
| `faults` | two messages in a row through kills, broken streams and refusals: what holds in between, are they delivered in order, is each in the end stored with its author or refused? | `TypeOK`, `OwnSettledFirst`, `ClearedMeansDelivered`, `RecentsBacked`, `DeliveryKept`, `SentIsSettled` |
| `switch` | two accounts alternate on one device with messages on their way | `FanOutOnce`, `DeliveryKept` |
| `crossing` | both write twice at once over a breaking stream: does all of it reach the partner, and what do the lists show? | `SettledRecents`, `SentIsDelivered` |
| `pipeline` | every fault, end of a call, restart and change of user below the queue | `TypeOK`, `Sound`, `Correlated`, `OwnAccount`, `ToldInOrder`, `QueuesKept`, `EventuallyAnswered` |
| `blame` | is a write that is reported as failed the one that was refused? | `RejectedWasRefused` (violated) |
| `list` | one login: own writes, refusals, unanswered requests, relaunch | `TypeOK`, `CaughtUp`, `NoRegress`, `EventuallyShown` |
| `relogin` | two accounts log in by turns, listeners and rows left over | `CaughtUp` |
| `chat` | a chat written to by three sources, left and reopened | `TypeOK`, `ShowsView`, `SourceOrder`, `EventuallyShown` |
| `users` | the list of users while it is fetched, searched and scrolled | `TypeOK`, `RowsTrue`, `RightPicture`, `RequestsEnd` |
| `composer` | typing, sending and switching chats while uploads succeed, fail or are forgotten | `TypeOK`, `LostOnlyInHaste`, `EventuallyEmptied` |
| `session` | every failure of registration and login, overlapping requests, every screen | `TypeOK`, `ListNeedsUser`, `ScreenOwner`, `EnteredWithDocument`, `NoOrphan` |
| `loader` | overlapping requests that succeed, are refused or are never called back: is a covered screen uncovered again? | `Uncovered` |

All but `blame` pass; its violation is a finding (below). Events are switched on
by `MayHappen`, so that a run states exactly under which it asks; a property
whose run leaves an event out says so.

### Bounds, and why they are enough

* `MaxPendingWrites` 2 (the SDK's 10): a fan-out is three batches, so with 2 the
  pipeline fills and what is behind it waits; nothing else depends on the value.
* `faults`: one device that sends twice, so that a fan-out meets an own copy
  behind it and a message follows one that a kill or a refusal has cut short.
  `crossing`: two devices with two sends each, and breaks of the stream, which
  resend recents. `switch`: one device, two accounts, two sends, kills.
* Two users and two devices: the writes of a message touch two users, and each
  queue has one device; more add independent copies. The theorems need no bound.
* `pipeline`: three writes and a pipeline of two (`kMaxPendingWrites` is 10), so
  that one waits behind a full pipeline; three faults, restarts or changes of
  user in any combination, over two accounts: out and back, and one thing more; or
  a stream ended with OK under pending writes, and what the next process makes of it.
  `blame`: four writes and one refusal, the fewest that show it.
* `list`: two partners (answers for different profiles overtake each other), 3
  messages (one row changes twice while another changes). `relogin`: besides,
  two accounts and 3 listeners (out to the other account and back).
* `users`: three users, one without a picture, two rows on screen and a text that
  leaves one, so that a cell is spared and used again while it loads, and two cells
  share a download; three moves (a search, its end, a scroll), two download
  operations (one ends while the next of the same URL begins), one failure. The
  theorems need no bound.
* `chat`: 3 sources, 4 messages and places: two of one source around two others.
* `session`: two emails (a form submitted for one while the other's answer is
  due), 3 requests and 3 screens per process (the login screen counts where the
  user opens one, and comes beyond that number); kills renew both. The emails are a
  symmetry set: no definition tells one from another. `loader`: one email, 4
  requests and 2 screens (a login or a chat and a screen after it, with requests
  submitted twice). What the loader cannot tell from something else is left to
  `session`: an error of Auth or a refused document (here a login without an
  account or a registration of a taken email), users that are not fetched (here a
  profile without a document), kills (which begin anew).
* `composer`: 3 texts (one sent, one typed during its upload, one after), 3 taps
  (two for the same text, one for the next), 2 chats (a completion for the chat
  that was left comes to the next one). The theorems need no bound.

Deadlock is checked for `chat` and `composer`, where a screen can always be left
or the app killed; in the other modules the bounded inputs run out and the
system may stop.

### Fairness

`Messaging`: the main queue is drained (`WF` of its blocks), the server commits
what is sent (`WF(Apply)`), and answers arrive (`SF(Ack)`): every break of the
stream takes the pending answers away, so "arrives if it is continuously due"
would promise nothing, while the SDK's back-off reconnects for ever and a network
that lets streams live again and again lets an answer through. The code has no
other obligation: users need not send, and kills, breaks, refusals and
sign-outs are never forced or forbidden by fairness.
`WritePipeline`: `WF` of running the worker queue, of the back-off timer, of
giving a token, of sending, failing and receiving, and of the backend. Weak
fairness of the first two is written out with their guards, which says the same
and spares TLC from evaluating every handler to know whether it is enabled.
Faults are bounded in the model, so at last they cease; nothing obliges them to.
`UserList`: `WF` of the table (UITableView asks for every row it shows), of the
queues and of the end of each download, which
`timeoutIntervalForRequest` brings about if nothing else does.
`Conversations`: `WF` of hearing the server's state, of answering requests and
of committing; `Chat`: `WF(Watch)` and `WF(Show)` (main queue); `Composer`: `WF`
of a report (`Succeed ∨ Fail`), which rests on the fairness of `Messaging` and
on nobody logging out with an upload on its way; `Session`: `WF` of each job's
answer (of a chat's, the first one), of the main queue, of the end of a transition
and of an animation, of a due first answer of the list and of writing user
documents.

### What the runs show

* A kill between the own copy and its completion loses the fan-out for good:
  the author keeps a message his partner never gets, and nothing repairs it.
  Hence `SentIsDelivered` is asked without kills, while order and "own copy
  settled first" hold with them.
* The error of the own write is ignored: a message whose own copy was refused
  is delivered all the same (`Settled`, not `Stored`, in `OwnSettledFirst`).
* Completions after a sign-out put the fan-out into the next account's queue.
  Nothing is lost or repeated by that, but the order of a lane is
  (`DeliveryOrder`).
* With both partners writing, the two lists may settle on different messages,
  each the newest of one device; with one writer both show the newest.
* Below the queue, one assertion of the SDK's write path can fail: when the backend
  ends a stream with OK while writes are pending the process aborts, although
  `write_stream.h:64-67` allows for such an end. The queues survive it and the
  writes are answered later, as after any restart. No other assertion fails
  whatever breaks, answers are credited to the right write although they carry no id, no token of
  one account opens a stream for another, and batch ids that are given out again
  after a restart meet no closure of another write. The app sees `WriteQueue`.
* `blame`: the exception. When a stream ends with a permanent error the front of
  the pipeline is given up (`remote_store.cc:513-515`: "the request itself was
  the problem"). But a send that fails cancels the answers that were read and
  not yet handled (`grpc_stream.cc:231-252`, `312-323`): then the front is a
  write the backend has committed, and the app is told that it failed. For
  FireChat: the field keeps a text whose message the partner has. It takes four
  writes under way at once, and a message alone has three at most.
  (`Messaging` does not have this step: there a refusal finds its own batch.)
* In one login a late or failed answer costs its own partner's row only. Over
  several logins a failed request leaves another row stale, because an older
  listener replays its array; the same with own writes under a listener that
  outlives a logout. These combinations are left out of `relogin`.
* Another account logs in over the rows of the one before. Its own conversations
  catch up all the same; what does not go away are rows of users it does not talk
  to, and the listeners of the other account while the server lets them live or
  their last answers come (`Undisturbed` names both).
* The users that arrive during a search do not show until its text changes
  (`RowsTrue` names it). A user whose picture has no URL keeps the picture the
  cell showed before: `UserCell.configure` returns early (`RightPicture` is about
  the others). A cell that joins a shared download after it has called its
  callbacks is never answered, whether the download was not marked as finished yet
  or the mark came between the check and the joining; it has no
  picture until it is used again (`RequestsEnd` names it).
* Messages of different sources stay in the order of arrival until the chat is
  reopened; a refused own message stays on screen until then.
* An account exists before its document. A kill, a lost answer or a refusal in
  between leaves it without one, and the email is taken: that is all that does
  (`NoOrphan`). The profile of such an account shows its loader for ever, as
  does a registration whose photo has no URL: their completions are never called
  (step `silent`), and `Uncovered` names them as the exception.
* The field is emptied when the send succeeds, whatever it holds by then: a text
  typed in the meantime can be lost. That is all that can: `LostOnlyInHaste`.
* A chat's listener is never removed. It dismisses the loader of whatever screen
  is open when a message comes, which only uncovers; a chat without messages is
  never told so and keeps its loader until the first one.
* A login or registration whose completion was on the main queue when the user
  logged out dismisses the login screen; `authenticateUser` brings it back. What it
  does not bring back is a login screen that came upon a profile, a list of users,
  or a transition: UIKit turns it away, and the list is there for nobody until the
  next launch, or until the user logs out once more (`formless`).
* A form that the loader does not cover (see below) can be submitted again, and
  the second answer may come when a profile or chat is open: the account then
  changes under it. `ScreenOwner` states that nothing else does that.
* At the first launch the loader is shown in the list's view, under the login
  form that comes after it, so the form can be submitted twice; an account without conversations is
  never told "loaded", and its list stays covered after a relaunch. `Uncovered`
  is checked for lists whose first answer comes (`due`, fairness of `ListAnswer`).

Of these only `blame` contradicts a claim of the repository, so it alone is listed
as a finding.

## 4. Proofs

`Messaging_proofs` proves, for any users, devices, bounds and selection of
events, and from the assumptions of `Messaging` only:

* `TypeCorrect`: `Spec => []TypeOK`
* `OwnCopyFirst`: `Spec => []OwnSettledFirst`
* `ClearedIsDelivered`: `Spec => []ClearedMeansDelivered`
* `RecentsAreBacked`: `Spec => []RecentsBacked`
* `Invariance`: `Spec => []IInv`, from which the four follow;
* `FansOutOnce`: `Spec => []FanOutOnce`, from a second invariant, `Once`;

and of the refinement and the lists

* `DeliveryIsKept`, `Spec => DeliveryKept`: every step of `Messaging` is one of
  `MessageDelivery` or changes nothing of it;
* `ListsSettle`, `Calm` implies `Spec => []SettledRecents`. `Calm` says that
  `MayHappen` has no kill, refusal or change of account. It is what `crossing`
  assumes: a killed process issues no recents for its last message, and a refused
  one is not written, so without it the property is false.

None of the safety properties is inductive: what is delivered next was
decided when it was queued. `IInv` adds

* `QueuesOK`: in every persisted queue, of any account, an entry that is not an
  own copy belongs to a message whose own copy is settled, and a `peerRecent` to
  one whose partner's copy is settled or stands earlier in the same queue; only
  copies have a closure;
* `PrefixesOK`: what the stream committed and has not answered is on the server;
* `MainsOK`: a block on the main queue tells the truth (an own completion: that
  copy is settled; a successful partner's completion: that copy is stored).

The argument: `Send` adds an own copy, which needs nothing. `Ack` dispatches a
completion for the head of the committed prefix, so it tells the truth; `Reject`
makes it settled by refusal. `RunOwnCompletion` then finds its own copy settled
and appends three entries in the order that `QueuesOK` wants. `Apply` commits a
copy or a recents document whose queue entry was in order, and the settled set
only grows, so every queue stays in order. Kills forget closures, cut a fan-out
to a prefix and reset `applied`: prefixes of ordered queues are ordered. A change
of account changes which queue is worked on, with nothing of it committed.
Lemmas about queues (growing the settled set, appending, dropping the head,
forgetting closures) are stated once; there is one step per action.

That a message fans out once (`Once`) needs that *nothing* of it is under way
when the next thing is: no two copies in the queues of a device, no two blocks
about to fan out, no copy beside such a block, and whatever is under way was sent
from this device, at a time its clock has passed. The clock makes a new message
differ from all of them; an answer takes the copy away before its block comes; a
block gives way to the partner's copy, and so does what a dying process has
persisted of its fan-out.

The order of delivery (`Lines`, unless accounts change) is an invariant about
everything under way from one device at once. Its messages stand in a line:
partner's copies that are stored, those in the queue, completions that will
issue some, own copies in the queue - each group in the order of the clock, and
each before the next. Sending adds at the end, an answer moves a message from the
last group to the one before, a fan-out to the one before that, a commit to the
first. A resent partner's copy that is older than a stored one is stored itself,
so committing it again delivers nothing new.

That the lists settle (`Settling`) cannot be said of the lists alone: a stream
that breaks writes old recents over newer ones. What holds at any time is that
each message sent is either shown by the list, or outdone only by messages of
other devices, or still *to come* (`ToCome`): as an own copy, as a completion
about to fan out, or as a recents entry behind what the stream has committed. For
a commit to keep this, whatever it writes over must come again, hence
`QueueFollows` and `MainFollows`: behind each stage of an older message every
later message of its device is in a stage that is no further. A break moves the
line of what is committed back, so more is to come. When all queues are empty
nothing is, so every message is shown or outdone.

`WritePipeline_proofs` proves, for any accounts, number of writes and faults and
size of the pipeline, and from the assumptions of `WritePipeline` only:

* `TypeCorrect`: `Spec => []TypeOK`
* `AssertionsHold`: `Spec => []Sound`, every assertion but that of an end with OK
* `AccountsKeptApart`: `Spec => []OwnAccount`
* `SuccessIsTrue`: `Spec => []ToldInOrder`
* `AnswersMeetTheirWrites`: `Spec => []Correlated`
* `QueuesAreKept`: `Spec => QueuesKept`, the refinement of `WriteQueue`
* `Invariance`: `Spec => []IInv`, from which they follow.

`IInv` comes in three layers, as a handler goes through several objects before
it returns and not all of it holds on the way.

* `Core` holds at every point inside a handler: the queues hold their own
  account's writes in order under unique ids (`QueuesOK`); each closure waits for
  a batch that is there (`ClosuresOK`); a write or token on the worker queue will
  meet the user it was made for, because the changes of user in front of it lead
  to that user (`StampsOK`, `InCharge`); writes that are still to be queued are
  newer than all others (`AheadOK`); what was told and what was committed agree
  with the queues (`ToldOK`, `CommitsOK`).
* `Link` holds between two calls of RemoteStore and the stream: the pipeline is
  the front of the queue (`PipeOK`), at most one token counts, and only for a
  stream that is starting (`TokensOK`), the state of the stream fits its call and
  the pipeline (`StreamOK`), a call that is over has left nothing behind that
  could still be run (`CallOK`), and (`LineOK`) the answer being handled, the
  answers to be read, the requests at the backend and those in `BufferedWriter`
  stand one behind the other in the order of what the call has to answer: the
  handshake, or the writes of the pipeline.
* `Settled` holds besides between two blocks: a pipeline with something in it has
  a stream that is under way.

An answer carries no id. That it is credited to the right write follows from
`LineOK`: whatever has been answered is the front of that line, whatever takes
the front of the pipeline takes the front of the line with it, and whatever ends
a call clears all that is left of it, so that a new line begins. That no token
opens a stream for another account follows from `StampsOK` with `TokensOK`: a
token that counts was asked for after the last change of user that has run, and
the next one to run makes it stale. Ids that start again after a restart
(`LoadNextBatchId`) stay above all that are in use, and a restart forgets every
closure. Each operator of the code has lemmas of its own (`CloseBase`,
`FillBase`, `WriteErrorBase`, `RestartBase` …), stated over any state of the SDK
in which its caller may call it, and each action a lemma that strings them
together.

The attempt to prove `Correlated` found it too strong: once an operation of the
call has failed, the answers that were read or on their way are never handled,
while the front of the pipeline they belong to may be given up. The bounds of
`pipeline` do not reach this (it is the situation of `blame`), so TLC had passed
it. It is now asked of answers that can still be read, which is what the
crediting needs.

For the refinement, each step is one of five (`StepOfQueues`): it keeps the
queues and perhaps loses answers, applies the next write, puts a write at the
end, takes the first one out with its answer or with none left to read, or
starts over. `MappedStep` shows each to be a step of `WriteQueue`.

`Composer_proofs` proves, for any number of texts, taps and chats:

* `TypeCorrect`: `Spec => []TypeOK`
* `OnlyHasteLoses`: `Spec => []LostOnlyInHaste`
* `Invariance`: `Spec => []IInv`, from which both follow.

What a completion throws away is decided when it runs, by what was typed since
it was made. `IInv` therefore adds `SentOrHasty` (while an upload from the field
on screen is under way, what the field holds was sent, or typed meanwhile) and
`UploadsOfThePast` (no upload belongs to a chat not opened yet, so a new field
starts with none under way). `Send` makes the field's text a sent one, `Type`
under an upload makes a hasty one, `Succeed` then finds one of the two, and
`Open` begins a field no completion knows.

`Session_proofs`, for any accounts, requests, screens and failures:
`TypeCorrect`, `ListIsForUsers`, `ScreensAreOwned`, `EntrantsHaveDocuments`,
`OrphansAreAccountedFor`, each named property for every state. Beside
`ListNeedsUser` and `NoOrphan` the invariant has four parts. `JobsOK`: which steps
belong to which chain, and that an account exists, or a document is stored, once a
step relies on it. `QueueOK`: a completion on the main queue is that of a request
that waits for it, each request has one, and the notification of a new account
stands right before its completion, or was heard last by Firestore. `WritesOK`: a
queued document with a closure is that of a registration waiting for it.
`ScreensOK`: a logout goes on over the list (`LogoutOverList`), the last request is
the one the open screen began (`ScreenJob`), and it is of the present user, or he
came by the answer to an earlier form (`LastOwner`).

`ListNeedsUser` is kept by what may take the login screen away: `Enter` posts a
new one if nobody is signed in by then; `PresentForm` takes one off the queue and
presents it, or sets `formless`; `SignOut` finds the list and posts one. `NoOrphan`
needs `QueueOK`: the document is put into the queue of Firestore's user, who is
the new account only because nothing that changes the user is run between the
notification and the completion. Without `ScreenJob` and `LastOwner` `ScreenOwner`
is not preserved: what happened since a screen was opened must be known from the
requests, since nothing else tells.

`Chat_proofs`, for any sources and number of messages: `TypeCorrect`,
`SourcesInOrder`, `ViewIsShown`. What a chat was told is its array and the
snapshots on their way, one behind the other (`InLine`); they are in the order of
each source, what is still to come of a source is newer than what was told, and
together they are the view and refused messages (`ToldInView`). The order of a
snapshot is a CHOOSE of the order of a finite set; `Ordering_proofs` shows by
ranks that there is one.

`Conversations_proofs`: `TypeCorrect`, whatever happens; and within one login
(`OneLogin`, relaunches included) `OneLoginCatchesUp` for `CaughtUp` and
`RowsNeverGoBack` for `NoRegress`, for any accounts, partners and messages. There
is one listener then and its array is the dictionary; documents are filed under
their partner; the requests for a profile were made in the order told and are
newer than the row; and (`Current`) the newest request for a partner, or if there
is none his row, says what the document in sight says, unless it was not
answered. A merge of the whole array cannot bring anything older back because
nothing else is in it.

`UserList_proofs`: `LoadsAreOwned` for `TypeOK`, `RowsAreTrue` for `RowsTrue`
and `PicturesAreRight` for `RightPicture`, for any users, texts, cells, screen and
number of downloads. That a late picture is shown in the right cell depends on
where its load is: `IInv` says that a load is at one place at a time (`OnePlace`: a
question to the disk, its answer, one download, or one block with the outcome),
that the place fits the stage and the URL of its cell (`PlacesOK`), that
`URLOperations` knows live downloads by their own URL (`UrlsOK`), and that the
URL a cell loads is its user's (`Dressed`); `JoinsOK` says that the download a
cell is about to join stays the one of its URL until it has. A cancellation takes a load away from
all its places, and every step of SDWebImage is that followed by one new place:
`FewerLoads` and `OthersStay` say once that the other loads are not disturbed.
`RowsTrue` is inductive with the types: every change of the list reloads.

### Only model-checked

`CaughtUp` over several logins.
Liveness (`SentIsSettled`, `SentIsDelivered`, `EventuallyAnswered`,
`EventuallyShown`, `EventuallyEmptied`, `RequestsEnd`, `Uncovered`) stays with
TLC: the prover has no fairness or ENABLED. In `Conversations`, `Chat` and
`Selection` the function of a CHOOSE is written so that both TLC can evaluate it
and the prover can use it.

## 5. Not modelled, and why

Vendored code beyond what the app relies on, which is nearly all of the vendored
lines (gRPC, BoringSSL, leveldb, abseil); of Firestore, the local views and
indexes, the watch stream with its targets and resume tokens, transactions,
garbage collection, limbo resolution and existence filters: the app only meets
their outcome, a consistent snapshot that may skip states. Layout, cells (but for
those of the user list), view models and form contents; the image picker; tokens
and the keychain's internals; quotas and security rules of the server, which are
not in the repository (a refusal may happen to any write).

## 6. Plan

Done: Messaging with its abstract specification, its runs, invariants and
refinement proved; WritePipeline under it, with WriteQueue; Conversations for
several accounts; Chat; UserList with the pictures; Hud and Session with every
screen; Composer; proofs about each of them.

Left, in the order of what it would add:

1. `Messaging` over `WriteQueue`: that its queues are a use of that promise, so
   that the two levels of the write path are one chain.
2. An abstract upload (sent, reported, forgotten) that `Messaging` implements and
   `Composer` uses, so that what `Composer` assumes is checked.
3. The listen path as deep as the write path: watch stream, targets and views.
