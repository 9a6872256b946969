# CoMesh backend: TLA+ models, model checking and proofs

CoMesh is a NestJS server with MongoDB, socket.io and a few providers (FCM,
Twilio, SendGrid, ImageKit) behind it. Its business rules live in a handful of
service methods that read a document, decide, and write it with a later call.
Nothing spans two calls: there are no transactions, no locks and hardly any
conditional updates. What can go wrong is therefore almost always the same
thing, two requests (or a request and a background job, or a restart) that fall
between two awaits, and that is what these modules model: **every awaited
database call is a step of its own**, a call that is started and not awaited is
pending work that lands at any later time, and everything else in a handler
happens within the step before it.

Paths below are relative to `src/src/` of the repository.

## 1. The system

| Part | State | Operations | Talks to | Hard behaviour |
|---|---|---|---|---|
| Daily swipe quota (`users/users.service.ts`, `users/subscription-tier.ts`) | `swipeCountDay`, `swipeDayUtc`, the subscription tier | `consumeSwipeForLike` | called first by `likeUser` | read, reset and increment are three calls; UTC midnight; tier changes |
| Purchases (`users.service.ts`, `subscriptions/`, `packages/`) | tier, expiry, product of the user | paywall, `verifyIosSubscription` | Apple, quota | receipts verified out of order; a product id over a receipt; expiry inside a request |
| Likes, passes, rewind (`users/users.controller.ts`, `users.service.ts`) | `likedByMe`, `likedBySomeone`, `unLikedByMe` in two documents | `likeUsers`, `unLikeUser`, `rewind`, the two lists | quota, chats, notifications | two documents per like; unawaited updates; whole-array save |
| Match chats (`chats/chats.service.ts`) | chat documents | `create`, `update`, `findAll` | likes, messages | check-then-create |
| Feed (`users.service.ts`, `utils/paginationWithAggregation.ts`) | none of its own; reads profiles and the three lists above | `findAll` page after page | likes, purchases | offsets into a list that the reader changes by swiping |
| Connections (`users.service.ts`) | `connections`, `pendingConnections` in two documents | `connectUser` | notifications, chat requests | crossing requests, half writes |
| Messages and badge (`messages/`, `chats/chats.service.ts`) | messages with `isRead`; `unReadMessage` rows and `latestMessage` of the chat | `create`, `markAsRead`, `resetUnreadMessageCount` | gateways | row found or pushed in two calls; message first, chat second |
| Socket gateways (`chats/chats.gateway.ts`, `chat/chat.gateway.ts`) | `connectedUsers`; `userSockets` and `socketToUser`; rooms | connect, disconnect, join, leave, send, emit | messages, chat | several devices; the directory changes while a message is saved |
| Chat requests (`chat/chat.service.ts`) | chats with `requestStatus`, `lastReadAt`; `chatIds` of two users; chat messages | `createSingleChat`, accept, reject, `markChatRead`, `createMessage`, the chat list | connections, gateway | check-then-create; three documents per call; an object read, changed and written back |
| Conversations (`conversations/`) | conversations with two unread counters, message status; presence maps of its gateway | start, send, read, delivered, delete; connect, join, leave | its gateway | counters by read-modify-write; presence decided before a wait |
| Profile videos (`users.controller.ts`, `users/profile-media.processor.ts`, `media/media.service.ts`) | `videos`, `profileVideo`, `mediaProcessing`, the upload directory | `updateProfile`, background job | quota tier, ImageKit | jobs of two uploads; one path per file name; jobs lost at restart |
| Accounts and codes (`users.service.ts`) | `otpInfo`, `deviceToken`, `pushNotificationEnabled`, `isFirstTime`, `isDeleted` | `login`, `verifyUser`, `sendOtp`, `findOneAndUpdate` and the routes over it | mail, SMS, FCM | read-then-write logins; updates by other users' likes |
| Notifications, devices, social sign-in | their own collections | create (check-then-create), list | likes, connections | duplicates |
| Profile reads, analytics | none | aggregations | users | none: reads |
| Guard, pipes, middleware | none | token check, multipart parsing | every route | none: one request |
| Content and administration (categories, reasons, roles, static content, contact, reports, ratings) | independent documents | create, read, update, delete | none | none |
| Providers (FCM, Twilio, SendGrid) | none | send | login, gateways | callers swallow failures |

What makes each part correct, in words:

* quota: a limited tier gets its swipes, no more and no fewer, whatever happens
  to the tier meanwhile;
* purchases: what was paid for and verified lasts until its expiry, unless a product
  id is verified over it;
* likes: a match is mutual, the two documents of a like agree, a match has one
  chat, each like is announced once, and no pass is undone twice or comes back;
* feed: nobody who fits is passed over and nobody comes twice, except by what
  changed meanwhile; everybody shown is what was asked for;
* connections: only on the word of both, the same in both documents, announced
  only when true, and never both waiting;
* messages: the badge counts exactly what was not seen, and a read leaves nothing;
* gateways: an entry names an open socket of that user, and an emit reaches the
  devices that are there when it happens;
* chat requests: one chat for two users, in both lists once a call has answered,
  an accepted chat stays in the lists, unread is what came after the last mark;
* conversations: whoever is taken to be in one hears it, both counts say what was
  not heard, seen is not taken back;
* profile videos: the plan is kept, the list is the one asked for, the flag is
  up while work is going on and comes down in the end;
* accounts: a code is good once, for its minute, until a newer one; a logged-out
  device is silent.

## 2. The modules

| Module | Models | Proofs |
|---|---|---|
| `Swipes` | `consumeSwipeForLike` of one user, over a tier that changes freely | `SubscriptionsProofs` |
| `Subscriptions` | purchases, verification and expiry, which make the tier of `Swipes` | `SubscriptionsProofs` |
| `Likes` | `likeUsers`, `unLikeUser`, `rewind`, `ChatsService.create`, the two lists | `LikesProofs` |
| `Feed` | `findAll` and `PaginationWithAggregation`, with what changes the list | `LikesProofs` |
| `Connections` | `connectUser` | `ConnectionsProofs` |
| `Messages` | one chat and its reader | `ConversationsProofs` |
| `Presence` | abstract: a directory that always names exactly the open sockets | |
| `Gateways` | both chat gateways, and messages from save to emit; implements `Presence` | `GatewaysProofs` |
| `ChatRequests` | `ChatService` over chats, messages and the chat lists of users | `ChatRequestsProofs` |
| `Rooms` | the presence maps of `ConversationsGateway` | `ConversationsProofs` |
| `Conversations` | `ConversationsService` over `Rooms` | `ConversationsProofs` |
| `ProfileMedia` | `updateProfile`, the job, the upload directory | `ProfileMediaProofs` |
| `Account` | logins, codes and the routes that write account fields | `AccountProofs` |

`MC<Module>.tla` instantiates a module for TLC (its symmetry set, and for `Feed`
and `Conversations` the instance itself), with one `.cfg` for what holds;
`MCProfileMediaFlag.cfg` is for the one thing that does not. The proofs of
`Swipes` are kept with those of `Subscriptions`, which extends it, and those of
`Messages` with those of `Conversations`: both count messages in rows, and share the
lemmas about their sums. Those of `Feed`, which leaves out whom the lists of `Likes`
name, are kept with the proofs of `Likes`. So that one module can extend both,
`Messages` and `Feed` have names of their own for their state and calls
(`MessagesInit`, `Call`, `call`; `FeedInit`, `fetch`, and `myDoc`, the user's
document with the three lists).

**How the state corresponds to the code.** A document field is a variable of
the same name; an array that is only counted and searched is a function to the
number of occurrences (`$push` adds one, `$pull` sets zero, as MongoDB does); an
array whose order matters (`unLikedByMe`, `videos`, `unReadMessage`,
`unreadCounts`) is a sequence. `req[r]` holds the local variables of a request
and the call it awaits (`pc`). `background` holds started calls nobody awaits.
Variables under "History" are written by the actions and read only by the
properties; nothing the code does depends on them. `overlapped` says that two
requests have ever been at work together: with it a property can say exactly
which promise survives concurrency and which holds only for one request at a
time. That line is the main thing these models establish about the code.

**How the actions correspond.** `Swipes`: `Read` is the `findById`; `SeeNewDay`
and `Reset` the first `updateOne`; `Refuse`, `Allow` the comparison; `Increment`
the last `updateOne`. The clock is read when the method resumes, so a midnight can
fall before or after it. `Subscriptions`: `Start` is the checks before the first
await, `AppleAnswers`/`AppleRefuses` the exchange with Apple, `WriteTier` the
update. `VerifyProduct` asks nobody and needs no purchase. `Buy` is the App Store, whose
subscriptions last as long as `Period` says, which the code's own month need not be. A
verification draws a number when its tier and expiry are known, so that a property can
tell those that are written in that order. Time moves in half days, so that an expiry can fall between two
midnights. `Likes`: `Check` is the `findOne` on `likedBySomeone`,
`LikeMe` and `LikeTarget` the two updates, `ChatExists`/`ChatMissing`/`ChatCreate`
the service; `Unlike` starts two background updates and ends; `RewindSave` writes
back the array that `RewindRead` saw unless the document's version moved, which
only another `save()` does; `standing` counts, for each profile, the passes recorded
less those a rewind has named in its answer. `Feed`: `FindMe` reads the own document and fixes the
filter (`None` is an age that was not sent; 0 is falsy and a negative number is not),
`Count` and `Data` are the two aggregations, `Open` and `More` the client;
the `Change` actions are the routes that move the list. Users are numbered in the
natural order of the collection, in which an aggregation without `$sort` lists
them, so that `$skip` and `$limit` take those with so many listed `Before` them. `Connections`: `Find`, then
`ConnectTarget` and `ConnectMe`, or `AddPending`. `Messages`: `Insert`, then
`IncrementRow`, or `NoRow` and `PushRow`; `SetIsRead` and `ClearBadge`.
`Gateways`: a connection runs both handlers in one step, as they have no await;
`SocketSend`/`RestSend` start a save, `Save` is the database, `EmitChats`/`EmitChat`
the continuation. `ChatRequests`: `CheckMe`, `FindSingleChat`, `CreateChat` and
`AddToLists` (one user at a time) create; `FindRequest`/`FindPending`, `SetStatus`
and `AddToLists` answer; `ReadMarks`, `WriteMarks` mark; `FindChatOfSender`,
`InsertMessage`, `UpdateLast` and `AddToLists` send. `Rooms`: the four handlers of
the gateway, each one step. `Conversations`: `FindConversation`, `CreateConversation`
or `DuplicateChatId`; `InsertMessage`, then `SetLast` or `ReadCounts`, `WriteCounts`,
`CountRow`, then `SetDelivered`; `MarkMessages`, `ReadCounts`, `WriteCounts`,
`ClearRow`. `ProfileMedia`: `Receive` is multer, which has stored the files before
the handler starts; the handler is `Refuse`/`Accept` and `SaveUpload`/`SaveUpdate`;
the job is `OpenClip`, `EncodeClip` for each file, `Publish`, and `FlagOff` on
failure. `Account`: a login is `LoginKnown` then `LoginUpdate`, or `LoginUnknown`
then `LoginCreate`; a verification `VerifyMatches` then `VerifyUpdate`; the other
routes are one update each.

Operators that a comment introduces as a mutant are a plausible slip in the
definition below them. No specification uses them; replacing the definition by
one is how a property is shown to depend on the code it is about.

**How the modules compose.** `Subscriptions` extends `Swipes` and drives its tier,
and `Conversations` extends `Rooms`; both compositions are checked as a whole and
proved to implement the module below. The other modules meet in few places, and
each takes its neighbour as arbitrary: `Likes` the quota's verdict (both exits of
the guard), `Gateways` a save as one step, `Account` a like by another user as the
one field it writes here (`isFirstTime`), `ChatRequests` the arrival of a
connection, `Feed` the swipes, blocks, registrations and plan changes. Each of
these is an over-approximation of the other module, so what holds here holds of
the composition.

## 3. The runs

| Run | Instance | Shows |
|---|---|---|
| `swipes` | 2 concurrent requests, limit 2, 2 days, 6 requests sent | The overrun is bounded by concurrency. One at a time, the limit is kept and nobody is refused early, over midnights, tier changes and restarts. |
| `subscriptions` | 2 purchases of 1 or 2 days, a month of 1, 3 verifications, 3 days, limit 1, 2 requests sent | Purchases, expiry and verification are to the quota a tier that changes freely (`QuotaSpec`). A verified receipt lasts until its expiry, however verifications overlap, if they are written in the order of Apple's answers; only a product id cuts it short, to its own month. |
| `likes` | 2 users, 4 requests | Matches are mutual under every interleaving and failure; likes agree, also across overlaps while nobody passes; one chat per match holds one at a time; notifications are exact; no pass is undone twice, whatever overlaps. |
| `feed` | 4 users, pages of 2, 4 filters, both plans, 3 changes | A scroll passes over somebody only as often as others entered or left, repeats somebody only for who entered, and shows only whom the filter as read wants, one-sided ages and a negative distance included. |
| `connections` | 2 users, 4 requests | Connections are two-sided, symmetric and truly announced, also for overlapping requests; mutual requests connect one at a time. |
| `messages` | 4 requests on one chat | The badge is never inflated; sends alone lose no count, even when the row is pushed twice; it is exact one at a time. |
| `gateways` | 2 users, 3 sockets, 2 messages | `ChatGateway` implements `Presence`; entries of `ChatsGateway` are own open sockets, a late disconnect never hides the newest device, emits reach who they should. |
| `chat_requests` | 2 users, 2 chats, 3 requests, 3 ticks | A create that made its chat, an accept or a send that answers with success leaves the chat in both lists in every interleaving; one at a time there is one chat, an accepted chat stays shown, and unread counts are exact. |
| `conversations` | 2 users (one with two devices), 3 requests, 2 at once, 2 messages | Whoever is current hears the room; one at a time both counts lie between what was missed and what was sent; the rows lose no send; seen stays. |
| `profile_media` | 2 requests, 2 file names, plan of 2, up to 2 gallery clips | The flag covers uploads that do not overlap, the list is the last one asked for, the plan is kept for what it counts, processing ends. |
| `profile_media_flag` | 2 requests, 1 name, 1 gallery clip | **Fails**: the first job clears the flag of the second ("True while gallery/profile videos are transcoding after upload"). |
| `account` | 3 requests, 2 tokens | A checked code is the current one; spent once, kept until used, and silent after logout one at a time. |

**Bounds.** Two requests at once is where every race of this code shows, as each
decision depends on one document read by one request; the four requests of
`likes`, `connections` and `messages` and the three of `chat_requests` and
`conversations` allow a history (like, pass, like again) before, or a third party
after, the race. Requests are used once, so they bound the behaviours as well;
`MaxSent` and `MaxDay` bound `Swipes` and with it `Subscriptions`. In `Conversations`, `Overlap` bounds the
requests at work together and `MaxMessages` the messages; one user has two devices
because one is never in two places, and `Opens` says which conversations each of
them opens, so that the second device can be elsewhere; `Used` is the one the
requests are about. In `ChatRequests`, `ChatId` has two ids because a duplicate
chat is the failure to see, and `MaxTime` is three ticks: a message before a mark,
one after, and one of the same millisecond. In `Subscriptions`, `Month` is one
day and `Period` one or two, so that a subscription can end inside the three days,
and can be longer than what a product id gives; two purchases are
what a renewal is, and three verifications are a receipt, another that overlaps it, and
a product id over both. `Product` names one tier, as each paid one is unlimited. In `Feed`, `MaxChanges` bounds the changes over the whole
behaviour, three being enough to move a page by more than its length.
Limit 2 makes "the last swipe" differ from "the first". Three sockets of two users
allow a device that is replaced and reconnects. Two file names let clips collide or
not. Requests, users, sockets, tokens and messages are symmetric where the
configuration says so: no property or definition names one of them. The theorems
below hold without any of these bounds.

**Deadlock** is checked in `swipes` and `feed`. Elsewhere each request
exists once, so a model that has served all of them stops, as it should,
and the check is off.

**Fairness.** Only `ProfileMedia` states any: weak fairness of the steps of a
job, because every await of a job settles (ffmpeg and uploads end or throw, and
`catch`/`finally` run). Nothing obliges a client to send, and a process may restart
at any time, so `ProcessingEnds` excuses a restart: no code takes the flag
down at start-up, and the flag then does stay up. So does a `finally` whose own update
throws (`profile-media.processor.ts:98`): it rejects a promise nobody awaits, which ends
a Node process that has no handler for it, as this one has none. The other properties are
safety properties and need none.

**Refinements.** `Gateways` implements `Presence` (`ChatGatewayIsPresence`, checked
and proved), `Subscriptions` implements `Swipes` (`QuotaSpec`, checked and proved),
`Conversations` implements `Rooms` (proved; `RoomsSpec` is what every step is
mapped to).

## 4. What is proved

All with tlapm for every value of the constants, on the specifications that
TLC runs.

* `SubscriptionsProofs!TypeCorrect`, `OverrunBounded`, `LimitKept`, `RefusedWhenSpent`. The counter alone is
  not inductive: requests that have read a count below the limit are going to
  increment it. `OverrunInv` adds their number (`Committed`) to the counter: an
  increment moves one unit from the second to the first, and a request can
  join them only by reading a count below the limit. The number is at most
  `Cardinality(Request)`, which the assumption keeps finite. The other two rest on
  `SerialInv`: the one request at work knows the document, and the counter is the number
  of swipes of its day.
* `SubscriptionsProofs!SubTypeCorrect`, `SubscriptionsImplementQuota`,
  `LimitKeptWithPurchases`, `VerifiedUnlimited`. The tier the quota sees is a
  function of the stored tier, its expiry and the time, and so every step of
  `Subscriptions` is a step of `Swipes` or a stutter; `LimitKept` then carries over
  without a new proof. For `VerifiedUnlimited` the verifications about to write have
  different numbers (`Numbered`); Apple's answers never show an earlier end than
  before, so that a receipt numbered after the last one written shows no less than
  what is confirmed (`Monotone`); and what is stored is then the latest confirmed
  expiry, or what a product id has written since (`StoredInv`).
* `LikesProofs!CoreTypeCorrect`, `MatchMutual`, `LikesNotified`, `DocumentsAgree`,
  `OneChat`, `UndoneOnce`. Every occurrence in `likedBySomeone`, every `matched` flag, and every
  request past `LikeMe` is backed by a like recorded in `likes`, which never decreases.
  The next two balance accounts: recorded likes are those notified and those whose
  request or background call still owes it (`Owing`); an entry of `likedByMe` is one of
  `likedBySomeone` or stands between its two updates (`HalfLiked`), except that of two
  updates of a pass the one that has landed leaves zero until the other has. `OneChat`
  adds that one request at a time the missing chat a request saw is still missing, and
  that a request which makes two arrays meet is on its way to their chat (`Matching`).
  `UndoneOnce` rests on `StandingInv`: for each profile the stored array holds at most
  the passes that stand, and so does the copy of every rewind whose version is still
  that of the document. A save by another rewind takes a pass off what stands, and moves
  the version past all those copies; nothing else lowers what stands. The copies need
  not equal the array, and in a race they do not.
* `LikesProofs!FeedTypeCorrect`, `SkipsArePaid`, `RepeatsArePaid`, `OnlyAsAsked`. There
  are two lists: the one a request reading now would be given, and the one of the
  request in flight, which keeps leaving out what it has read while users register,
  leave and come back. `ScrollInv` keeps accounts of both. Repeats so far, with the
  users past the page who have been shown before and the users who are listed now and
  not in flight, are at most those who entered. Users listed all along whom the scroll
  has passed without showing them, with the users in flight who are not listed now,
  are at most those who entered or left; so are, from the count to the end of the
  page, the same with what the list has outgrown its count by, without which the last
  page could end the scroll too early. What makes each step pay are two lemmas about
  places in a list (`LateGrows`, `EarlyGrows`): when it becomes another list, no more
  users are pushed past a place than have entered, and of users listed before and
  after no more are pulled before it than have left. `OnlyAsAsked` is about the filter
  alone: a date of birth between the two that `ageToDOB` gives is of an age within the
  range on every day of the year, and the distance searched is within the one
  asked for and, unless that is negative, within that of the free plan.
* `ConnectionsProofs!TypeCorrect`, `Consent`, `AnnouncedConnected`, `Symmetric`, `MutualConnects`. A pending
  entry backs the look-up that finds it, the look-up backs the connection, and the
  first of the two writes backs the second and its announcement; the word of a user
  and a connection, once there, are never taken back (`Kept`). For
  `Symmetric` the invariant balances the documents: what one is behind the other is
  the number of requests between their two updates (`HalfDone`). For `MutualConnects`
  it says that an ask that is over has left its word in an array, and that two users
  never both wait.
* `GatewaysProofs!TypeCorrect`, `ChatGatewayImplementsPresence`, `EntryOwnOpen`,
  `NewestReachable`, `EmitsReach`. Invariant: the sets of `userSockets` are exactly
  the open sockets of each user, none is empty, and `socketToUser` is their inverse;
  then each step of `Gateways` is a step of `Presence` or a stutter. An entry is
  an open socket of its user, and it is the newest one while that is open. A
  message that is not saved has been received by nobody, so that what an emit
  reaches is decided by the directory and rooms of that step alone.
* `ConversationsProofs!RoomsTypeCorrect`, `CurrentHeard`, `ServiceImplementsRooms`.
  Invariant: the sockets of a user are its open ones, and a socket that is in a
  conversation is in its room; what `updateUserCurrentConversation` computes is then
  always the conversation of such a socket. It is proved of `Rooms`
  and carried to `Conversations` by the refinement.
* `ConversationsProofs!TypeCorrect`, `SeenStays`. A request past its insert has its
  message (`MessageOf`), without which a `setDelivered` would make a document of
  none; and while requests come one at a time nobody can have marked that message
  (`SeenInv`).
* `ConversationsProofs!RowsKeepCount`, `CountsExact`. Both rest on the history
  (`HistoryInv`: what was missed is stored, and among what was sent since the last
  mark). For the first, `RowsInv`: the rows of a user hold all that the user missed
  but for the sends that have their row still to write, and the object, or a copy of
  it in the hands of a send, is ahead of the rows by no more than the rows that are
  owed. For the second, `ExactInv` says for each call of the one request at work what
  it has already counted and what it has still to count.
* `ConversationsProofs!MessagesTypeCorrect`, `BadgeBounded`, `SendsCounted`,
  `BadgeExact`. `BadgeInv`: the badge and the sends past their insert (`Uncounted`)
  are together at most what was created, and exactly that while nobody reads and
  nothing fails; an increment or a push moves one unit from the second to the first.
  `AloneInv`: one call at a time there is one row at most, a send that found none is
  still right about it, and the badge is what is unseen but for the message at work.
* `ChatRequestsProofs!TypeCorrect`, `Listed`, `OneChatOnly`, `StaysShown`,
  `UnreadExact`. `ListInv`: a chat, once created, keeps its users and the lists only
  grow, so that each user of a chat is either in the `left` of the request that
  lists it or has it listed; `Listed` needs no more, and holds with any overlap. One
  request at a time (`StatusInv`) a create that found no chat is still right, and so
  is an answer that found its chat pending. `UnreadInv` orders times: what is unseen
  is not from before the mark of its user, what was seen is not from after it, and
  marks that a request has read are still those stored.
* `ProfileMediaProofs!TypeCorrect`, `GalleryBounded`, `AsAsked`, `FlagCovers`.
  `JobsInv`: a request at work has a name for each file and no more clips than files,
  all of them when it publishes. `PlanInv`: what has passed the plan check still
  passes it, as lists are written whole and nothing is added to them. `AskedInv`:
  with one request at work, the upload file of each name is the last one of that
  name, or gone if a clip was made of it (`FilesFit`); a job that meets a name twice
  therefore fails, and one that does not has made each clip from its own file. For
  `FlagCovers`, without overlapping uploads at most one job exists, so that whoever
  clears the flag is the only one at work.
* `AccountProofs!TypeCorrect`, `CheckedCode`, `FreshStays`, `LogoutSilences`, `SpentOnce`. Strengthening: a code that is stored,
  being verified, expired or spent was drawn by a request that is over, so it is never
  drawn again; and a running code is the newest, neither expired nor spent.
  For the three that hold one request at a time, the request at work is alone, so that
  the token a login has read is still the stored one, and the code a verification
  has checked is still the newest and not spent.

The sums (`RowTotal`, `Badge`) are folds of the community modules, whose definition is
a recursive function on the subsets of the index set. That function exists by
well-founded induction, used in the form "a set of naturals that is not empty has a
least element" (`LeastNatural`, from `WFMin` and `NatLessThanWellFounded`, theorems
without an operator parameter): a set of counterexamples has a least one, whose
predecessor is none. From it come the lemmas about adding to a row, appending a
row, and clearing one, the last place of a name among the files of an upload, and
what `$pull` leaves of the passes; and also the first and the last user of a part
of the feed.

Type invariants are proved and not run: TLC would only repeat, on one instance, what
holds of all. The other inductive invariants were checked by TLC on the instances of
the runs before they were proved. Assumptions are those of the modules: names that
stand for "none" are not members of the sets they are distinguished from, bounds are
naturals, `Request` is finite and not empty in `Swipes` and finite in `Likes`,
`Connections` and `Conversations`, and so is `Call` in `Messages`: the
counting of requests in flight needs it, and a server has no other kind.

**Only model-checked:** `ProcessingEnds`, as liveness is out of the prover's reach.
Every invariant and action property of the passing runs is a theorem.

## 5. What the models say of the code

One run contradicts a sentence in the repository and is listed in `PROJECT.json`
under `findings`: two uploads share one flag. Other sentences do not hold
either; the counterexamples are short enough to read off the code, and the passing
properties state what does hold.

* *Quota.* `users.service.ts:129`: two likes that overlap read the same count and
  both get the last swipe (the refusal at line 132 announces a limit);
  `CounterOverrunBounded` is what remains. `users.controller.ts:356`: the swipe is
  consumed before the self-like is refused, and stays consumed.
* *Likes.* Two simultaneous likes can match without a chat, and two chat
  creations can make two. A rewind saves a copy of the whole array
  (`users.service.ts:1583`): a pass that lands between its read and its save is lost, and
  one that a like has pulled in between is back. `POST /users/superLikeUser` is always refused, as the
  token that fills `req.user` carries no tier.
* *Connections.* Crossing requests can leave both users waiting.
* *Messages.* `messages.service.ts:128`: `markAsRead` asks for `{isRead: false}`
  and so misses messages stored without the field (the comment at line 126 says
  all). A duplicate unread row is never cleared.
* *Gateways.* `chats.gateway.ts:65`: one entry per user, so that after the newest
  device has left an older one that is still open has no direct socket, although
  line 134 says "always"; that device is answered Unauthorized when it sends (line
  212). A receiver in the room gets each event twice (line 158).
* *Chat requests.* Two crossing creates can make two chats. A create that fails
  after its insert leaves a chat nobody lists; a later create returns it without
  repairing the lists (only a send does). The comment at `chat.service.ts:140` says the
  chat is pending and only in the initiator's list, the code accepts at once and lists it
  for both. An accept and a reject that cross leave the later word. Sends do not look
  at `requestStatus`. `chat/` and `chats/` both register a model named `Chat`.
  Overlapping reads of the two users lose one mark (`chat.service.ts:287`).
* *Conversations.* `app.module.ts` does not import the module. `leaveAll` also
  leaves the room of the socket's own id, so that `server.to(sid)` no longer reaches a
  device that has joined. Starting a conversation that was soft-deleted ends in E11000
  each time. `String(object)` in the block checks never equals an id for what `blockUser`
  stores. `setDelivered` may overwrite `seen`. `leave_conversation` does not leave the
  room. Whether to count is decided before the awaits (`conversations.gateway.ts:153`).
* *Purchases.* With a `productId` and no receipt Apple is not asked: a user who has
  bought nothing gets 30 days, and one whose receipt runs longer is cut to them
  (`users.service.ts:1449`). Of two receipts whose answers are written out of order the
  older expiry stays (`users.service.ts:1450`); `VerifiedIsUnlimited` leaves that order
  out, and is what remains.
  `isPackageSubscribed` is never cleared; `POST /subscriptions` only stores a row.
* *Feed.* A negative `maxDistance` passes the `Math.min` of `users.service.ts:754` and then
  sets no location filter: it lifts the limit of the free plan, and `ShownAsAsked` asks for
  that limit only otherwise. With one age bound, the filter is the inverse of what the
  comment at `users.service.ts:719` says; a negative least age is taken for the only one. Without `sort` the order is the natural one. An empty page
  reports `totalRecords: 0`; a count of nobody before a page of somebody is an error.
  The keyword search tests a field no document has; `toDate` uses `fromDate`.
  `listUsers` throws for whoever has used `blockUser`, and sorts by a name that is not unique.
* *Accounts.* A code can be used by two verifications at once, and one that has passed
  its check clears a code stored since (`users.service.ts:518`); a login without a token
  writes back the token it read before a logout (`users.service.ts:379`). `isFirstTime`
  (`users.service.ts:1101`): `findOneAndUpdate` clears it on any update, another user's
  like included, against line 507. `POST /users/deactive` does not mark the account
  deleted, as `isDeleted` is not in `PROFILE_PATCH_KEYS`.
* *Profile videos.* `emptyVideos` has no effect in a multipart body, where it is a
  string; a restart leaves the flag up for good.

## 6. What is not modelled

Formatting, texts and population of answers; profile fields other
than those above; images; push, SMS and mail. Reads never change state and
appear only where a decision depends on them or a user relies on what they show
(`Feed`, the like lists, the chat list, the conversation list). `Feed` assumes one
scroll at a time and dates of birth in ISO form; sort, search, `showall` and date
parameters are left out, and a change of plan or filter counts as entering and
leaving the list. `Messages` and `Conversations` leave out the pages of messages and
typing events; `incrementUnread` and `notifyNewMessageDelivered` have no caller.
Social sign-in and user devices are one check-then-create each, whose interleaving
is the one of `FindSingleChat` and `CreateChat`; content and administration are
independent documents. The components with status `not_modelled` in `PROJECT.json`
say why each is left out.

## 7. Plan

Done, in this order: `Swipes`, `Likes`, `Gateways` over `Presence`, `ProfileMedia`,
`Account`, `Connections`, `Messages`, `ChatRequests`, `Rooms` and `Conversations`,
`Subscriptions` over `Swipes`, `Feed`, each with its runs, and the proofs of section 4.

Left to prove: nothing that the runs check but liveness. Left to model: the parts that
section 6 names, of which the pages of messages and the other listings could reuse
the lemmas about places in a list.
