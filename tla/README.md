# A TLA+ model of the E2EE messenger

The repository is a small end-to-end messenger: a C++ server (`src/server`), a
client library with several Qt front ends (`src/client`) and a library of
scrambled values (`src/shard`). This directory holds TLA+ modules translated
from that code, TLC configurations that check them on small instances, and
proofs checked by TLAPS.

    tlc -workers 2 -config MCSecureRpc_session.cfg MCSecureRpc
    tlapm SecureRpcProofs.tla

## 1. Inventory

### How the parts work together

A front end (`BackendAdapter`, `QuickClient`) owns one `ClientCore`; that of
`qq_main_list` shows a login dialog, then a list of conversations and a window
for each open one, and asks for new messages every two seconds. Every call
of `ClientCore` is one TCP connection: connect, send one frame, read one frame,
close. On the server the single thread of `NetworkServer` accepts a connection,
reads once, hands the bytes to `Listener::Process` and so to
`ConnectionHandler::OnData`, sends what comes back and closes. `OnData` decodes
the frame, finds the channel of its token, decrypts with the number it expects
next, and gives the plain frame to `ServerApp` -> `FrameRouter` -> `ApiService`,
which calls `SessionManager`, `GroupManager`, `GroupDirectory`, `OfflineQueue`
and the friend store. `c_api.cpp` offers the same server in the process of a
host program, whose threads call `mi_server_login`, `mi_server_logout` and
`mi_server_process` themselves.

| Part | State | Operations | What makes it correct |
|---|---|---|---|
| `ClientCore` | `token_`, `channel_`, `send_seq_`, `recv_seq_` | Init, Login, Logout, encrypted calls | a session's calls run in order and at most once; an accepted response is the one expected |
| `ConnectionHandler`, `SecureChannel` | `channel_states_`: keys, `send_seq`, `recv_seq` per token | OnData | channels carry their session's keys; counters agree with the client's as long as nothing was lost |
| `SessionManager` | `sessions_` | Login, GetSession, GetKeys, Logout, Cleanup | no call succeeds after expiry or logout |
| `NetworkServer`, `Listener` | `running_`, `worker_`, `listen_fd_` | Start, Stop, Run | every connection is answered or closed; the socket outlives the worker; Stop returns |
| `FrameRouter`, `frame`, `protocol` | none | Handle, encode, decode | what is written is read back, or refused |
| `GroupManager` | key and message count per group | Rotate, OnMessage, GetKey | versions are distinct, a key is not used beyond its threshold |
| `GroupDirectory` | members per group | AddGroup, AddMember, RemoveMember, HasMember | members have a key; only members' messages are counted |
| `OfflineQueue` | `messages_` per recipient | Enqueue, Drain, CleanupExpired | each message returned once, in order, or expired |
| `OfflineStorage` | files, `metadata_` | Put, Fetch, Meta, CleanupExpired | a file and its metadata belong together |
| friend store (in `ApiService`, or MySQL) | relations, remarks | AddFriend, SetFriendRemark, ListFriends | a reported friendship has both directions, a remark is its owner's |
| `BackendAdapter` | `loggedIn_`, timer | login, sendText, pollOffline | "sent" is true; what is queued is shown, in order |
| `LoginDialog` | page, fields, agreement, error label | edit, switch page, handleLogin | nobody logs in without the agreement |
| `MainListWindow`, `ChatWindow`, `MessageModel` | rows, open windows, unread counts, messages | open, close, handleOfflineMessage, add friend, set remark, send | no pulled message is without a trace; a held row is still the right one |
| `ServerApp`, `main` | the parts above, `last_cleanup_` | Init, RunOnce | comes up completely or not at all |
| `AuthProvider`, `config` | the users, the configuration | LoadConfig, LoadDemoUsers, Validate, UserExists | the first line of a name decides |
| `crypto`, `pake`, client config | none that changes | derive, parse | |
| `secure_types` | a buffer per value | set, get | get returns what was set |

### What is hard here

* **Interleavings.** `SessionManager`, `GroupManager`, `GroupDirectory` and
  `OfflineQueue` have a mutex each; a call of `ApiService` takes several of
  them one after the other, while host threads of `c_api.cpp` run theirs.
* **Loss and reordering.** A client spends its number before the round trip;
  a frame may be late, repeated, or cut by the one `recv`; a response may be
  lost after the server has acted on the request.
* **Restarts.** Everything but MySQL is in memory.
* **Time.** Sessions and messages expire by a clock that is read outside the
  mutex, or only when somebody looks.
* **Partial failure.** Two MySQL statements of one call commit separately.
* **Waiting.** One worker serves everybody, and `Stop` waits for it.
* **Nested event loops.** A modal dialog of a front end runs an event loop of
  its own, in which the timer polls and the list changes under the handler that
  opened the dialog.
* **Lengths.** A string is cut at 65535 bytes, a received frame at 4096.

`PROJECT.json` lists each hazard at its line with the properties aimed at it.

## 2. Modules

| Module | Models | Checked by |
|---|---|---|
| `SessionTable` | the age rules of `SessionManager` as operators on the table | through the modules that extend it |
| `RpcAbstract` | what encrypted calls promise, without frames, keys or numbers | as the property `RpcRefinement` |
| `SecureRpc` | `ClientCore` and `ConnectionHandler` over an unreliable network | `MCSecureRpc_*` |
| `SecureRpcProofs` | theorems about `SecureRpc` | TLAPS |
| `Filter` | `Kept`, what is left of a sequence when only some elements stay | through `OfflineQueue` and `FrontEnd` |
| `OfflineQueue` | the mailbox, each operation split at its mutex | `MCOfflineQueue` |
| `OfflineStorage` | stored files and their metadata, step by step | `MCOfflineStorage` |
| `MessageDelivery` | sender's window -> queue -> recipient's window; extends `OfflineQueue` | `MCMessageDelivery`, `MCMessageDelivery_shown` |
| `GroupService` | the group calls of `ApiService` over three tables | `MCGroupService`, `MCGroupService_join` |
| `Friends` | relations and remarks in memory and in MySQL | `MCFriends`, `MCFriends_halves` |
| `WireFormat`, `CallFormat` | bytes of frames, and of every call and response | through `ServerProcess` |
| `ScrambledString` | `set` and `get` of the scrambled database password | through `ServerProcess` |
| `ServerStart` | configuration, `ServerApp::Init`, both auth providers; extends `ScrambledString` | through `ServerProcess` |
| `ServerProcess` | the running server with its owner, worker and clients; extends `ServerStart` and `CallFormat` | `MCServerProcess` |
| `BackendAdapter` | the adapter with its timer | through `FrontEnd` |
| `LoginDialog`, `ChatWindows` | the dialog; the list and the windows; both extend `BackendAdapter` | through `FrontEnd` |
| `FrontEnd` | the program `qq_main_list`, from `main` to its last window | `MCFrontEnd` |
| `FilterProofs` | lemmas about `Kept`, and the induction on a set that the proofs about sequences use | TLAPS |
| `MessageDeliveryProofs` | theorems about `OfflineQueue` and `MessageDelivery` | TLAPS |
| `GroupServiceProofs`, `FriendsProofs`, `OfflineStorageProofs`, `ServerProcessProofs`, `FrontEndProofs` | theorems about the module of that name | TLAPS |

### SecureRpc

`token`, `chanUser`, `sendSeq`, `recvSeq` are the fields of `ClientCore`
(`chanUser` is whose keys `channel_` holds: keys are derived from the
credentials alone, so a user's sessions share them); `pc` and `reply` are where
`TcpRoundTrip` stands and what is in its socket. `sessions`, `owner`,
`createdAt` are `sessions_`; `chans`, `cKey`, `cSend`, `cRecv` are
`channel_states_`. `sent` keeps every frame of a session for ever, so a late or
second delivery of any of them is one more action.

* `SendLogin`, `ServeLogin`/`RefuseLogin`, `LoggedIn`: `ClientCore::Login`.
* `Call`, `Receive`, `Refused`, `GiveUp`: `ProcessEncrypted` around the round
  trip, for all kinds of call. `Logout` is a call after which `token_` is empty
  whatever happened (`EndRoundTrip`).
* `Deliver`, `DeliverPart`, `Redeliver`: `OnData` up to the decrypted frame.
  `Deliver` is the connection the client waits on, `DeliverPart` the same when
  the one `recv` got only part of the frame, `Redeliver` a copy of any frame on
  a connection nobody waits on.
* `HandleLogout`, `HandleHeartbeat`, `HandleApi`, `HandleBad`: the rest of
  `OnData`, by what `FrameRouter` does with the type. `HandleBad` is the
  router's `false`: `recv_seq` has advanced, `send_seq` does not.
* `HostLogin`, `HostLogout`, `Cleanup`, `Tick`, `Restart`, `ClientInit`: host
  threads, the clock and restarts of either end.

`OnData` is two steps because the session table and the clock may change
between its key lookup and its handler; the worker itself is one thread, so
there is one `srv`. `mi_server_process` is taken to be called by one thread at
a time: `channel_states_` has no lock, and the repository's own callers are
single-threaded.

History variables (`log`, `answered`, `confirmed`, `broken`) are never read by
a guard.

### OfflineQueue and MessageDelivery

An operation of the queue is a step that reads the clock (`StartEnqueue`,
`StartDrain`, `StartCleanup`) and one that holds the mutex (`Push`, `Drain`,
`CleanupExpired`). `MessageDelivery` reuses these steps for the worker and for
the thread that calls `RunOnce`, which cleans only when time has passed since
`Init`. It does not repeat the numbers and keys of `SecureRpc` but takes from it
what is proved there: a session's frames run in order and at most once, a frame
behind a gap is refused, and a client that missed an answer accepts no later
one. A session is then the list of its frames that have not run (`unrun`),
whether its client missed an answer (`missed`), and whether the server has
decrypted a frame of it (`begun`): once the session has ended, a frame is
answered "unauthorized" if it has, and otherwise finds no keys and the
connection is closed (the last two disjuncts of `Run`). A frame whose client has
given up stays in `unrun` and may run at any later time or never. `IsAwaited`
says whether the client of the next frame still waits for it.

### OfflineStorage

A file is whether its path exists (`linked`) and whether its bytes are whole
(`content`); `meta` is `metadata_`. `Put` creates, `Write` writes and stamps,
`Record` enters the metadata. A fetch is `Fetch` (open), `Read`, and with
`wipe_after_read` the steps of `WipeFile` (`FetchOverwrite`, `FetchRemove`) and
`FetchErase` under the mutex. `StartSweep` reads the clock, `LockSweep` takes the
mutex until `EndSweep`, and in between `SweepOverwrite` and `SweepRemove` work on
the files one by one, in any order. A write may be cut short unnoticed, a file
may refuse to be opened for overwriting, and a removal may fail while some other
thread has the file open. `Restart` forgets the table and keeps the files, at
any point.

### GroupService

One step per access to a table: `Lookup` and `LookupAgain` (the two
`GetSession` of join, leave and kick), `Rotate`, `AddGroup`, `AddMember`,
`RemoveMember`, `HasMember`, `OnMessage`. Sessions end between any two of them.
Leave and kick differ only in the recorded reason: both remove the caller.
`VersionMod` stands for 2^32; `withDirectory` is whether the constructor was
given a `GroupDirectory`.

### Friends

In memory a call is a check without the lock (`CheckAdd`: the other user
exists) and one step under `friends_mutex_`. In MySQL every statement is a step
that may fail, on a connection of its own; the second INSERT is tried even when
the first failed, and success needs both. `store` is which of the two the
configuration chose. `Restart` may happen anywhere.

### WireFormat, CallFormat, ScrambledString, ServerStart, ServerProcess

A byte is a number below `Byte`, a length field has as many of them as in the
code, and so a string ends at `MaxString = Byte^2 - 1`. `CallFormat` is what a
call of `ClientCore` writes (`EncodeCall`), what `FrameRouter::Handle` reads
(`DecodeCall`, with its early returns and its default threshold), what it
answers (`EncodeResponse`) and what the client makes of that (`ParseResponse`,
whose lists end at the first element that cannot be read). Reading gives
`Got(value, offset)` or `Unread`.

`ServerStart` reads the configuration line by line (`ReadSection`, `ApplyKV`,
`EndOfConfig`), makes the provider (`MakeAuthProvider`) and the remaining parts
(`CreateParts`); `stage` says where `Init` stands. `users` is what
`LoadDemoUsers` or the `user_auth` table offers, `registered` the same as it was
written down. A line has one text for the password and nothing that says whether
it is the password, its hash or a salt with a hash: `VerifyPassword` compares it
as it stands first and then lets the first colon decide, as the code does.
`Sha256Hex` is any function on texts whose values have no colon
(`HashAssumption`). `secret` is what the scrambled database password
would be read as. Every use of the MySQL provider calls `password.get()`, which
scrambles the value anew (`ReadSecret`); `turned` remembers whether one of the
permutations since `set` was the reversing one.

`ServerProcess` is the owner's thread (`Start`, `Stop`, `Joined`: the join and
what follows it), the worker (`Loop`, `Accept`, `AcceptFails`, `Serve`) and the
clients (`Connect`, `Return`). `Serve` is `recv`, `Listener::Process`, `send` and
`close`, with every prefix of the request that the one `recv` may return. What
the services answer is a choice (`Answers`), except that logins and `AddFriend`
ask the provider. Whether a session and its numbers still hold is left to
`SecureRpc`: here a frame behind a valid token is answered or refused.

### BackendAdapter, LoginDialog, ChatWindows, FrontEnd

One GUI thread runs everything, so a handler is one action, with two exceptions.
`pollOffline` emits its messages one after the other: `Poll` pulls, and each
`HandleOfflineMessage` is one emission; nothing else happens until `batch` is
empty (`Idle`). And a handler that opens a modal dialog stops there while the
event loop of the dialog runs: `modal` says which dialog is open and what the
handler holds (the row of the context menu, the name entered so far), and the
handler's rest is an action of its own (`SetRemark`, `EnterName`, `AddFriend`,
`SendFile`, or `Dismiss`). No other window takes input meanwhile; the timer does
fire. `inbox` is what waits at the server, `rows` the list model with the
placeholder of an empty one, `opened` and `items` are `chatWindows_` and the
messages of each. `openedAt`, `readAt`, `edited`, `pulled` are history. `Reserved`
are the names that begin with `__`, which the menu, the double click and the
removal of the placeholder all test for. Any call may fail, and one that fails may
do so for good (`lost`, in `CallCore`): the session has ended or its channel is out
of step. `PollFails` is a poll that does, before or after the server has drained
the queue.

## 3. Runs

| Run | Question | Bounds |
|---|---|---|
| `MCSecureRpc_session` | order of calls, end of a session and what it means, counters of both ends, unbroken sessions are never refused, the inductive invariant `OrderInv`, and does the protocol implement `RpcAbstract` | one client, two sessions, 2 calls each, lifetime 0 of 1 tick |
| `MCSecureRpc_clients` | keys of channels, and does every call return (`FairSpec`) | two clients, two users, one heartbeat each, no expiry |
| `MCOfflineQueue` | nothing lost, doubled, overtaken or dropped too early | two threads, two users, three messages, lifetimes 1 and 2 of 3 ticks |
| `MCOfflineStorage` | files and metadata belong together, wiped files are gone, none is spoilt within its lifetime | two threads, two files, lifetime 1 of 3 ticks, restarts at any point |
| `MCMessageDelivery` | what the recipient sees, in which order messages are queued and for whom, what "sent" means | one sender, one reader, two messages, two sessions each, two frames waiting to run, a clock that stands still: no expiry, no clean-up |
| `MCMessageDelivery_shown` | a queued message is shown or expires (`FairDeliverySpec`) | one message, two sessions each, lifetime 0 of 1 tick |
| `MCGroupService` | members have a key, counted messages were members', versions are distinct, a key is not overused | two threads, two users, one group, 4 keys, versions modulo 3, with and without a directory |
| `MCGroupService_join` | *violation*: a successful join makes a member | one thread |
| `MCFriends` | success means both directions, remarks are friends' and their owner's | two threads, two users, one unknown name, two remarks, both stores |
| `MCFriends_halves` | *violation*: both MySQL rows or none | one thread |
| `MCServerProcess` | are calls and results understood, logins judged rightly, do socket and thread end in order, does Stop return (`FairSpec`) | two clients, 12 and 3 calls, bytes of two bits, strings cut at 15, a recv of 28, a backlog of 2, a database password of 2 one-bit bytes |
| `MCFrontEnd` | one row per conversation, held rows, what windows show, unread numbers, the agreement, and does a waiting message come to its row (`FairFrontEndSpec`) | two accounts besides "system", one with a reserved name, two arriving messages, one sent, one remark |

Why the bounds are enough. The number check compares a frame's number with one
counter: two calls of a session give a frame before, at and after the expected
one, a second delivery of each, and a gap on either side. A
token is drawn once, so sessions interact through the client's fields and the
users' shared keys only: two sessions of one client and two clients cover both.
In the queue three messages with two lifetimes are the least that put a young
message before an expired one before a young one. A group's rotation by
threshold needs two counted messages and the wrap three versions; with
two threads every access of one can fall between any two of the other.
In the storage two threads give every pair of put, fetch, wipe and sweep on one
file, and the second file a sweep of more than one. In `MCServerProcess` the
scaled numbers keep their order: a recv is shorter than a header with a cut
string (`ProcessAssumption`) and longer than every other request of the run, so
whole, cut and segmented frames all occur; two clients and a backlog of 2 give a connection
in service, one that waits and one that is reset by `Stop`. In `MCFrontEnd` two
conversations are enough for a row to appear above or below a held one, the
account with the reserved name adds a row that `handleAddFriend` takes away, and
two messages give one before and one during or after any window or dialog. The
theorems of section 4 hold for every value of the constants, these bounds
included.

`MCSecureRpc_session` permutes tokens; `MCOfflineQueue`, `MCOfflineStorage`,
`MCMessageDelivery`, `MCGroupService` and `MCFriends` permute threads, users,
files or messages that no definition names. All of them check invariants, action
properties and a refinement that is a safety property, for which symmetry is
sound; the runs with liveness use none. Deadlock is checked wherever something
can always happen (a restart, a login, the start of a call). Two programs may
really stop: a server whose `Init` failed and a front end whose last window is
closed; their runs say `CHECK_DEADLOCK FALSE`.

### What they show

* However frames are lost, late or repeated, the calls a server runs for a
  session are a prefix of those its client made, once each, and none follows
  the logout (`ExecutedInOrder`, `LogoutIsLast`). The number check alone
  does not give this: it also needs that a channel entry, once erased, cannot
  come back for the same session, and that tokens are never drawn twice.
* One lost request or response ends the usefulness of a session
  (`NoGapAccepted`, `RpcRefinement`): nothing resynchronises the counters. As
  long as nothing is lost they agree, frames the router refuses included
  (`CleanInStep`, `CleanReplyAccepted`).
* A channel goes on decrypting after its session ended. Once a call of it has been
  refused for that, none succeeds any more, whatever a host thread, a clean-up or a
  restart does to the table (`RefusedForGood`).
* The queue reads the clock outside its mutex, yet drops nothing early, because
  ages are signed (`LifetimesHonoured`; the mutant with an unsigned age fails).
* "Sent" in the window means that the message is in the mailbox of the user it was
  composed for (`SentMeansQueued`); "failed" does not mean
  the opposite. A drained message is lost exactly when the response to its poll
  is (`LossNeedsFault`).
* A stored file is forgotten only by the thread that removed it, by a failed
  removal or by a restart (`NoOrphans`); after a restart nobody cleans it up,
  though its owner can still fetch it. Two wiping fetches may both return the
  payload when they overlap; once one has returned, no later one does
  (`WipedIsGone`).
* A cut name or a segmented frame never becomes another call
  (`CallsUnderstood`), but only because the one `recv` is shorter than any frame
  with a cut string: with a longer one (the mutant) the server would act on the
  shortened name.
* A login succeeds exactly with a text that the first line of its name is a
  writing of (`VerdictsJust`). In a database that is not only the password: the
  stored text itself logs in too, be it a hash or `salt:hash`, because
  `VerifyPassword` compares it before it looks for a colon (`auth_provider.cpp:32`),
  and nothing in a line says which way it was meant. The run has the three kinds of
  line and a client that types the hash.
* The server can be unable to tell in one case, which the property names:
  `ScrambledString::decrypt` takes the key byte by the position in the buffer
  (`secure_types.cpp:61`), `encrypt` by the position in the text (`:37`). Once the
  permutation is the reversing one, a text of two or more bytes may be read as
  another one; `get` stores that one, and the database denies the connection from
  then on. The demo mode is not affected: it asks no database.
* `Stop` does not wake a worker that is blocked in `accept`; it returns once one
  more client connects (`StopReturns`), and until then the socket must stay open
  (`SocketOutlivesWorker`).
* A message that arrives while its window is closed is only a number and a
  preview in its row; opening the window shows nothing of it and does not reset
  the number, which counts from the last message that came into an open window
  (`BadgesCount`, `WindowShowsArrivals`). A row whose name begins with `__` is the
  exception: `handleAddFriend` removes every such row with the placeholder
  (`MainListWindow.cpp:477`), and what it counted is without a trace then.
* A waiting message comes to its row whatever dialog is open, as long as the
  session and its channel hold (`ArrivalsGetListed`). A poll that fails for good
  (`PollFails`) may take the messages along, and no window logs in again: `lost` is
  the escape the property needs.
* The context menu holds the index of its row through two event loops. That it
  still names the same conversation rests on new rows being appended
  (`RemarkHitsItsRow`; the mutant that puts them on top fails).
* The first page logs in without looking at the agreement. It cannot be reached
  with a password in the field, because the labels that lead back lie on the
  first page only (`AgreedBeforeLogin`).

### Findings

* `JoinMakesMember` (`api_service.cpp:67`): a join whose session ends between
  its two lookups rotates the key and reports success without a member.
* `RowsAreMutual` (`api_service.cpp:574`): a failed second INSERT,
  or a stop of the server between the two, leaves one direction of a friendship
  where `src/README.md` promises both rows.

### Fairness

`MCSecureRpc_clients` assumes that the worker finishes the frame it has in hand
(`WF` of `Handle`: handlers do not block) and takes a connection that keeps
waiting in the listen backlog, which is FIFO (`SF` of `Deliver` and of serving a
login, since other connections may come between). The client goes on when its
socket has something (`WF`). Faults and calls are never required.
`MCMessageDelivery_shown` adds the timer (`WF` of `Poll`).
`MCServerProcess` assumes that the threads run (`WF` of `Loop`, `Accept`,
`Joined`, and of the step that ends `Serve`); that `accept` fails, that a client
calls and that the owner stops the server is never required. `MCFrontEnd`
assumes that the timer fires, that a poll gets through in the end while the session
holds, and that a handler ends (`WF` of `PollStep` and `HandleStep`), not that the
user closes a dialog. All of them assume that no
peer keeps a connection open in silence: `Run` calls `recv` without a timeout,
so such a peer would hold the only worker.

## 4. Proofs

Every theorem below is about the `Spec` of its module and holds for all constants
that satisfy the assumptions named in the modules. TLC checks the same
properties on the instances of section 3.

### SecureRpcProofs

For `ConstantsAssumption` and `TtlAssumption`. `TypeCorrect == Spec => []TypeOK`:
`TypeOK` contains `RoundTripOK`, that a socket holds a response exactly in the
states that read one and that a client in a call has a session and a frame.
Without it `Receive` could not be typed.

`OrderAlways`, `ExecutionOrdered` and `NothingAfterLogout` follow from the
inductive invariant `OrderInv`, which TLC checks in `MCSecureRpc_session` and which
adds to the two properties:

* `TokensUnique`: a token belongs to one client at most, and an undrawn one to
  nobody, with nothing sent or run for it. Needed because a frame's number only
  means something within its session.
* `SendCounted`: the frames of a session carry the numbers 0, 1, 2, ... and
  `send_seq_` of its holder is their count.
* `RecvCounted`: a channel's `recv_seq` is the number of calls run plus the one
  in hand, and a session without a channel has run nothing. This is what makes
  reloading the keys at counters (0, 0) harmless.
* `JobIsNext`: the frame in hand is the next of its session.
* `LogoutEnds`: after a logout has run, session and channel are both gone.

The proof has one lemma per half of `OnData` and per client step, and one for
all the steps that touch none of the counters.

The second half is about sessions and their answers:

* `ChannelKeysFollow` (`ChannelsKeyed`) from `KeysFollow`: an entry of
  `channel_states_` is made only from the keys of a session that was opened, and an
  unknown token leaves none behind.
* `NoGapIsAccepted` (the action property `NoGapAccepted`) from `CountersInv`. It
  counts on both ends: the answers a session got are those its server end encrypted
  (`AnswersCounted`), and what a round trip may still bring is the answer to its
  own frame (`RoundTrips`).
* `UnbrokenInStep` (`CleanInStep`) and `UnbrokenAccepts` (`CleanReplyAccepted`)
  from `SessionInv`, which adds to these that an unbroken session agrees on both
  numbers at every place of a round trip, not only between calls (`UnbrokenInv`).
* `RefusalsFinal` (`RefusedForGood`) from `RefusedHasGone`: a refusal is only logged
  once the token has left the table, and a token that has left it never returns
  (`RefusedStaysGone`), because tokens are drawn once.
* `ProtocolImplementsRpc` (`RpcRefinement`): every step of the protocol is a step of
  `RpcAbstract` or a stutter. `Call` is `Issue`, the halves of `OnData` that run a
  call are `Execute`, a `Receive` that accepts is `Confirm`, what erases a session is
  `End`; everything else, faults included, changes nothing that `RpcAbstract` sees.

### FilterProofs, MessageDeliveryProofs

`QueueInv` is `TypeOK`, `PushOrderKept`, `LifetimesHonoured` and `Traced`, which says
where a message is known from: an operation in progress, a queue, what was pushed
and what was dropped carry the number, the lifetime and the birth of a message
that was made, and nothing is pushed or queued twice. `QueueTypes`,
`PushOrderAlwaysKept` and `LifetimesAlwaysHonoured` follow. `Drain` and
`CleanupExpired` filter a queue by age. `Kept` does so with a recursive function;
the lemmas of `FilterProofs` about it (what is kept was there, in the same order and
no more often, and what was there is kept or not wanted; what is kept of a longer or
concatenated sequence) are proved by well-founded induction over a *set* of lengths
or sequences, because an operator parameter cannot be instantiated by the provers
installed.

`MessageDelivery` has one invariant per thing that is promised, on top of
`CoreInv`: the queue's, and what both ends of a session know about the round trip
under way (`AgreementInv`, with `Busy` and `Waiting`).

* `LossAlwaysNeedsFault` (`LossNeedsFault`) from `UnfaultedInv`: without a fault no
  answer is missed, and whatever was drained is shown or on its way.
* `SentAlwaysQueued` (`SentMeansQueued`) from `SentInv`: an answer that says "sent"
  belongs to a frame that has been run into the mailbox its request names
  (`AnswersTrue`), and that request is one its session composed (`CallsComposed`).
* `ShownAlwaysInOrder` (`ShownInOrder`) from `SeenInOrder` and `HandedOnce`: what the
  window shows is a part of what the queue returned, in that order and once each.
* `SenderOrderAlwaysKept` (`SenderOrderKept`) from `FramesInv`: the frames of a
  session that have not run (`UnrunSent`, `UnrunInOrder`) come after all that have
  (`ServedInOrder`), and a message is put in one frame only (`SentOnce`).
* `DeliveryTypes` (`DeliveryTypeOK`) is the type invariant.

### GroupServiceProofs

For `GroupAssumption` (versions are numbers, `None` is not one).

* `MembersKeyed` and `CountedMembers` from `GroupInv`. It adds to the two what a
  thread between two tables knows: a join that is past its rotation has a group
  with a key; a caller that is a member has been recorded as one; a message about
  to be counted has passed `HasMember`. The proof has a lemma per access, and
  `OthersKept` for what an access leaves the other threads.
* `VersionsSafe` from `VersionInv`: the keys of a group are the numbers 1, 2, 3,
  ... modulo `VersionMod`. Two of them that are less than `VersionMod` apart
  differ; `ModUnique` to `ModDistinct` are the facts about remainders this needs.
* `KeysNotOverused` (`KeyUseBounded`) from `UseInv`, for every threshold and with or
  without a directory. `OnMessage` counts the first message of an unknown group
  without looking at the threshold; the property states that exception
  instead of excluding the threshold it needs.

### FriendsProofs

For `FriendsAssumption`. `FriendsTypes` is the type invariant. `SuccessSafe` and
`RemarksSafe` follow from `FriendsInv`: a call between its two INSERTs whose first
one succeeded finds its row, because relations only grow, restarts of the MySQL mode
included. `RemarksStayOnesOwn` is the action property `OwnRemarksOnly`: no step of
anybody else changes a remark.

### OfflineStorageProofs

For `StorageAssumption` and `NoneIsNoCall`: `MetaSafe`, `OrphansSafe`, `WipedSafe`,
`FreshSafe` for the four invariants of the storage, from `StorageInv`: only one
thread writes a file (`OneWriter`), an entry has its file's age (`TableOK`), and
whoever reads or wipes a file comes after its `Put` (`CallOK`). Most steps move one
thread and touch one file; `SmallStep` proves them all at once from what such a step
may do (`Moves`, `FilesKept`, `Related`). The sweep and the restart are proved on
their own.

### ServerProcessProofs

* `SocketSafe` (`SocketOutlivesWorker`) from `NetInv`: a running server has its
  thread, a thread has its socket, a thread that is to end has an owner who waits
  for it, and a connection waits only at a socket that is there.
* `CallsMeanWhatTheySay` (`CallsUnderstood`), for every `Byte >= 4` - 256 in the
  code -, every recv shorter than a frame with a cut string, and names, texts,
  messages and lists of any length that a frame is able to announce. From the
  bottom up: a number is read back (`Uint16Read`, `Uint32Read`: division with
  remainder, Horner's rule), a counted text is read where it was put
  (`ReadCountedIs`) and refused where it was cut (`ReadCountedCut`), and so are a
  frame (`FrameRead`, `FrameCut`), a call (`CallRead`), a list of any length and a
  response (`ResponseRead`). Whatever prefix the one recv returns is then heard as the
  call that was made or as none (`RequestHeard`), and the reply means what was
  answered. `TalkInv` says this of the connection each client has, `QueueInv` that
  a connection in the backlog or in service has a call.
* `VerdictsAreJust` (`VerdictsJust`), for every list of users: `TableOf` gives a
  name the first line that has it (by induction over the lines), `VerifyPassword`
  accepts exactly the texts the line is a writing of, for every `Sha256Hex` whose
  values have no colon, and `secret` is the configured password until it is turned
  around (`StartInv`); what a client was answered is one of those verdicts
  (`JudgedInv`).

`CallFormat` writes and reads lists with recursive functions, whose values at every
length are proved by the induction of `FilterProofs`. The assumptions on the
calls (`ClientCalls`, `MaxText`) and on what a pull or a friend list may return
(`MessageLists`, `FriendPairLists`) say that their lengths fit into the four bytes
of a frame; the code relies on that too, and nothing shorter than 4 GB violates it.

### FrontEndProofs

For `NamesAssumption` (the accounts are finitely many, or a friend list would not
be a sequence of rows) and `RemarksAssumption` (remarks are values other than the
names, so that a title tells where it came from; no handler compares titles; the
placeholder is one of the reserved names), and for any number of accounts, remarks
and messages. `FrontEndInv` is inductive (`FrontEndInductive`) and has five parts:

* `LoginInv`: the first page keeps the password empty, and the second has its
  button enabled only with the agreement. `AgreementFirst` (`AgreedBeforeLogin`)
  follows, although `handleLogin` looks at the agreement on the second page only.
* `MailInv`: the batch in hand is the end of what was pulled, so `Come(c)`, the
  messages handled for a conversation, grows by one with each emission and by
  nothing else (`ComeGrows`, `ComeStays`).
* `RowInv`: identifiers are unique, a conversation that got a message or a remark
  has a row, and a row shows its remark and its number. From it `OneRowEach`
  (`RowsUnique`) and `BadgesAreRight` (`BadgesCount`). `AddFriend` takes the
  placeholder and every other row with a reserved name out, which is why a row is only
  promised for the other names, and may put a friend first; that identifiers stay unique is
  `KeptInjective` of `FilterProofs`.
* `ModalInv`: while a menu or its input dialog is open, the held row exists and
  still has the identifier it had. It needs `RowInv` of every step in between, and
  gives `RemarksStay` (`RemarkHitsItsRow`).
* `WindowInv`: an open window shows the numbers of what came since it was opened,
  a closed one nothing. `WindowsShowAll` (`WindowShowsArrivals`) is its first part;
  the rest says how far the conversation was when the window was opened.

### Only model-checked

* `CallsReturn`, `QueuedIsShown`, `StopReturns` and `ArrivalsGetListed`, and everything
  that rests on fairness or ENABLED: out of the prover's reach.
* The two runs that expect a violation.

## 5. Not modelled

* SHA-256, HMAC, the key derivation and PAKE: arithmetic on long words. The
  models keep whose keys a frame was made with and which number.
* The scrambled numbers and the C interface of `src/shard`: no other part uses
  them. `ScrambledString::get` is `const` and yet changes the buffer without a
  lock; in the server only the one worker calls it.
* `ApiService`'s own copy of the MySQL password: it goes the way of the
  provider's, so `Answers` treats the two as one.
* Trimming and comments of the configuration files, the parser of the client's
  configuration (two keys, taken as given), and the server's `--stdin` mode,
  which reads one frame and stops.
* Local mode of `ClientCore` and `mi_server_create`/`mi_server_destroy`. `Init`
  in local mode keeps `token_` and the counters of the server it destroys; the
  new server refuses that token until the next login.
* The response of `LoadEphemeralFile`, which asks for the metadata after the
  fetch erased it.
* Painting, searching, resizing, and the other front ends, which are layout
  demonstrations or thin callers of `ClientCore`.

## 6. Plan

Done, in this order: `SessionTable`, `RpcAbstract`, `SecureRpc` with its proofs,
`OfflineQueue`, `OfflineStorage`, `MessageDelivery`, `GroupService`, `Friends`;
`BackendAdapter`, `LoginDialog`, `ChatWindows`, `FrontEnd`; `WireFormat`,
`CallFormat`, `ScrambledString`, `ServerStart`, `ServerProcess`; the proofs about
groups, friends, stored files and the server's thread; those about sessions and
the refinement of `RpcAbstract`, the queue, the delivery of messages, the bytes of
calls and the verdicts; those about the front end.

Left:

1. Local mode of `ClientCore`, with two owners of one server library.
