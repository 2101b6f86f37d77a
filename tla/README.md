# UniPool backend: a verification project

The repository is a Go backend for ride sharing among students: a Fiber HTTP
server over CockroachDB, a WebSocket hub for chat, push notifications through
Firebase (FCM), mail through SES, and a scheduler inside the server. This
directory holds TLA+ modules that model it, TLC configurations that check them
on small instances, and proofs for every size. Paths below are relative to the
repository.

* [The system](#the-system)
* [Modules](#modules)
* [Runs: what is checked](#runs)
* [Bounds](#bounds)
* [Fairness](#fairness)
* [Proofs](#proofs)
* [Where code and documentation disagree](#where-code-and-documentation-disagree)
* [Not modelled](#not-modelled)
* [Plan](#plan)

## The system

| component | code | state | operations |
|---|---|---|---|
| Seat arithmetic | `helpers/seats.go` | none | Go gates and SQL fragments that decide whether a ride has a free seat |
| Booking lifecycle | `routes/bookings/`, `routes/rides/participants.go`, `routes/rides/createRide.go`, `routes/CRUD/` | tables `rides`, `bookings` | create, request, accept, reject, cancel, remove, edit, delete; CRUD routes |
| Hub and connections | `initializer/websocket*.go` | two maps, a Send channel per connection | register, unregister, broadcast, presence |
| Chat | `routes/chat/chat.go` | `messages`, read cursors, push throttle | send, broadcast, push to whoever is not there, page, mark read, list chats |
| Trip card, payment, ratings | `routes/bookings/TripCard.go`, `routes/rides/ratings.go` | payment columns of `bookings`, `ride_ratings` | dismiss, acknowledge, prompt, rate |
| Scheduler | `services/notification_scheduler.go` | leases in `trip_today_emails_sent` | mail the day before, prompt for ratings after |
| Auth middleware | `middleware/auth_middleware.go` | cache of users, cache of tokens, a singleflight group | authenticate, invalidate |
| Viewer state and lists | `routes/rides/viewerState.go`, `GetRideDetailsComplete.go`, `involvedRides.go`, `routes/users/FetchUserRides.go`, `GetPassengers.go`, the chat list | none | who is this user to this ride, and what is offered |
| E-mail verification | `routes/users/EmailVerification.go` | `email_verifications` | start, confirm |
| Accounts | `routes/users/` | `users`, metadata | create, edit, delete (with a handover of the rides) |
| Push delivery | `services/fcm_service.go`, `helpers/notifications.go`, `routes/CRUD/RideCRUDRoutes.go` | FCM tokens, the throttle's map, the cooldown stamp of a ride | save a token, send, drop dead tokens |
| Preferences and ride settings | `routes/users/` preferences, `routes/rides/rideSettings.go` | preference rows, `rides.settings` | mute, unmute, edit; read by every fan-out |
| Search and matching | `routes/rides/search*.go`, `matchingCreate.go`, `nearbyCount.go` | none | find candidates, score, rank, page |
| External rides and invites | `routes/rides/external_*.go` | a cache with one fetch in flight, `external_invites_sent` | fetch, search, invite a host by mail |
| Location search | `routes/locations/` | a cache | curated places, past rides, OpenStreetMap |
| OTA updates | `routes/ota/ota.go` | bundles on disk | upload, manifest, asset |
| The rest | other views, reports, institutes, mail templates, web sign-in | | see [Not modelled](#not-modelled) |

How they interact. Every authenticated request passes through the auth
middleware, which reads `users` through its cache; handlers that write a user
invalidate that cache. The booking handlers write `rides` and `bookings` in
transactions of their own and then, outside them, post system messages in the
chat, mail and push. The chat hub is shared memory of all goroutines of one
process; the HTTP handlers reach it by broadcasting to a room. The scheduler
reads `rides` and `bookings` whenever its ticker fires. Deleting an account
rewrites rides, bookings and messages in one transaction. Search, location
search, OTA and the external feed touch nothing that another part writes,
except that search reads `rides` and `bookings`.

What is hard, and what makes each part correct:

* **Bookings.** `booked_seats` is a hand-kept count of accepted bookings.
  Handlers read in one statement and write in another, take row locks in
  opposite orders, and trust what they read earlier. Correct means: the count
  equals the rows, no ride is overbooked, a decision is taken once, nobody
  deadlocks for good.
* **Hub.** Broadcasts run in any goroutine and throw out slow connections,
  while `run()` handles the same connection. Correct means: no send on and no
  second close of a closed channel, presence told rightly, broken connections
  end.
* **Chat.** Who is connected is looked up after the broadcast; pages end at a
  time cut to seconds; the read cursor is a time taken after the query.
  Correct means: no participant is passed over between the broadcast and the
  push, scrolling shows everything, the badge counts what was not seen.
* **Pushes.** The throttle, the cooldown and the token are each read, used and
  written at different times, some in goroutines. Preferences are read by four
  pieces of code. Correct means: pushes spaced, a live token kept, nobody
  pushed to who did not want it.
* **After the trip.** Two devices dismiss at once; the host has answered in
  between; three handlers compute separately whom one may rate.
* **Views.** Some twenty handlers derive from SQL of their own who a user is to
  a ride. Correct means: gates, lists and buttons agree, also for a host who
  was a passenger before.
* **E-mail verification.** Attempts are counted by read and write, the cooldown
  is a query before an insert, a challenge is used without asking whether it
  has been. Correct means: the damage that overlapping requests can do is
  bounded.
* **Scheduler.** The server crashes between the lease and the mail; a slow
  query shifts the window of the next scan.
* **Auth cache.** A lookup that read the old row may store it after the
  invalidation.
* **Accounts.** A deletion hands rides over and leaves seats and soft-deleted
  rows behind, which later deletions and other handlers read.
* **Search.** SQL narrows the table by one measure and order, Go ranks by
  another and cuts. Correct means: nothing that fits is lost on the way,
  pages are a partition, the three surfaces agree, the weights mean what their
  comments say.
* **External feed.** Requests sleep on a condition variable; an invite is
  leased before it is mailed. Correct means: nobody sleeps for ever, one mail.
* **Locations.** Merging duplicates is not transitive; the cut comes after the
  sort. **OTA.** Uploads are unpacked while manifests are made.

`PROJECT.json` lists the hazards with their lines and the property that
covers each. Some known ones are not in that list and have no property: an
edit of a ride that shrinks it below its passengers (`RideCRUDRoutes.go:284`),
an open socket of a passenger who is removed (`chat.go:1614`: membership is
asked once), mails that SES refuses or a crash catches after the lease
(`notification_scheduler.go:348`: never sent again), a user row that is
inserted outside the transaction begun for it (`CreateorUpdateUser.go:78`), a
failed look-up of the fan-out, after which nobody who is offline hears of a
message that was stored (`chat.go:934`: `GiveUp`), and a dismissal repeated
after the host's answer (`TripCard.go:285`: `AfterTrip` has it as it is).

## Modules

| module | models | built on |
|---|---|---|
| `Seats` | `helpers/seats.go` as operators | |
| `Bookings` | tables `rides` and `bookings`, every route that writes them | `Seats` |
| `SeatLedger` | abstract promise: riders board open rides up to a capacity | |
| `ChatHub` | one room of the hub and the way of a message through it | |
| `ChatHistory` | a room over HTTP: pages, read cursor, badge, receipts | |
| `AfterTrip` | one ride after its start: trip card, payment, ratings | |
| `Surfaces` | chat gates, lists, viewer state and actions for the ride of `AfterTrip` | `AfterTrip`, `Seats` |
| `Verification` | challenges of one institute address | |
| `Notices` | the scheduler's loop, mails and rating prompts for one ride | |
| `AuthCache` | the user cache of the middleware at one e-mail address | |
| `RideScore` | score, reasons and chips of a ride for a query | `Seats` |
| `RideSearch` | `/ride/search` page by page, strict matches, nearby rides | `RideScore` |
| `ExternalFeed` | the cache of another service's rides and the invites | |
| `Push` | tokens, the throttle of chat pushes, the cooldown of edits | |
| `Mutes` | preferences, ride settings, and who reads them | |
| `Accounts` | deleting accounts under rides and bookings | `Seats` |
| `OtaStore` | app bundles on disk | |
| `Places` | suggestions of places | |
| `SeatsProof` | theorems about `Seats` and `Bookings`, and that `Bookings` implements `SeatLedger` | `Bookings` |
| `ChatProof` | theorems about `ChatHub` and `ChatHistory` | both |
| `NotificationsProof` | theorems about `Notices`, `Push` and `Mutes` | the three |
| `AfterTripProof` | theorems about `AfterTrip` and `Surfaces` | `Surfaces` |
| `AuthCacheProof`, `VerificationProof` | theorems about the module of that name | it |
| `ServicesProof` | theorems about `OtaStore`, `Accounts` and `Places` | the three |
| `SearchProof` | theorems about `RideScore`, `RideSearch` and `ExternalFeed` | the last two |
| `MC*` | constants, symmetry and, where several modules share a run, their composition | |

### Bookings

A request is a process: `pc[p]` is its next database statement and `tgt[p]`
what it has read. The columns are functions (`total`, `booked`, `host`, `st`
for `request_status`), `gen` tells a booking apart from an earlier one of the
same pair, `lockR` and `lockB` are row locks of open transactions. A
transaction's writes appear at its commit action; until then its locks keep
other writers out. Each action is named after its handler and statement
(`AcceptRead`, `AcceptSeat`, `AcceptBooking`, `AcceptCommit`, ...). Early
returns are the ELSE branches that `Finish`; `Fail` is any statement that
errors, after which the transaction rolls back.

CockroachDB's default isolation is modelled by `Serializable`: a commit
succeeds only if what the transaction read still holds (`ReadsCurrent`). With
`Serializable = FALSE` a commit never asks, which tells what the guards inside
the SQL statements achieve by themselves and what only the isolation level
achieves: `deleteBooking.go` and `participants.go` give a seat back without
looking at `RowsAffected`, so without read validation two of them give one
seat back twice (this is the mutant `NoReadValidation`).

`StartTimePasses`, `Female` and `women` carry the other gates of
`/bookings/request`. Money, places and names are not kept.

`SeatLedger` is what a rider may rely on: rides open and close, people board a
ride only while it has room and leave it. `Bookings` implements it with
`open`, `capacity` and `riders` read off the tables (`LedgerSpec`).

### ChatHub

One room. Each critical section of the hub's mutex is one action: the hub
goroutine's (`HubRegister`, `HubUnregister`, and `HubAnnounce` for the
presence message that is broadcast after the mutex is released), the pumps'
(`WritePump`, `WritePumpEnd`, `Break`), and those of the goroutine that each
message runs in (`SaveMessage`, `Confirm`, `BroadcastMessage`,
`FilterOffline`, `Push`). `queue[c]` is the Send channel, `closed` the
channels closed, `view[c]` what the app of that connection makes of the
presence items. `ghosts` (users thrown out unannounced), `covered`, `late`,
`deaf` and `buzzed` are bookkeeping for the properties.

The fan-out is best effort, and so is the model. `GiveUp` is each return that
ends it without a push for anybody: no FCM service, a failed look-up of the
sender (`chat.go:1080-1085`), the ride or its bookings (934-944) or of the tokens
(988-995), a muted ride (938). `Push` leaves out any of its targets, as
`LoadAllowedFCMTokens` does (`deaf`). A connection that registers gets no history
(`websocket.go:132-152`, `chat.go:1614-1701`); the app asks for it with a
request of its own, which may come before. So a user who enters the room after
the broadcast and before the look at who is there gets the message neither
way: `late`. That the process ends between the insert and the push is not
modelled; nothing would be pushed, as after `GiveUp`.

### AfterTrip

One ride, from before its start to more than 30 days after it,
in the phases that the constants of `ratings.go` tell apart. Handlers are
split at their statements as in `Bookings`; accepting and removing a booking
are single actions of the environment. A booking that was removed is not made
again: that would be another row. `promoted` are bookings soft-deleted when
their passenger became the host, which two of the three rating queries do not
filter out. Every request is one of the users in `Active`; the others just
travel.

### Surfaces

No state of its own: the handlers that only read are operators over the tables
of `AfterTrip`, one per handler and as the handler computes it, so that two
handlers with the same meaning are two operators. `Booking` is the booking as
queries see it that ask for `deleted_at IS NULL`; those that do not
(`RidePushed`, `DeleteRideAccepted`, `AcceptedRows`) see the soft-deleted
booking of a promoted host as well, because `DeletedAt` is a plain pointer and
GORM does not filter it. `Honoured` says when the endpoint behind an action
accepts; it names the offers that the code does not keep:

* `can_request_seat` after the start, until the ride is past or full;
* `can_open_chat` for everybody when the ride is past;
* `can_cancel_ride` for a host with passengers, and for a host who was a
  passenger: `/ride/delete` counts that booking for ever.

### Verification

One user and one address: no other rows take part. A row of
`email_verifications` is `open`, `consumed`, or deleted again (`gone`) when its
mail failed. Requests are processes split at their statements: the cooldown
query, the insert, the mail, and for confirmations the lookup (with the checks
on the row it read) and the write. SES may deliver and still report an error.
`tried`, `uses` and `lapsed` count for the properties.

### Notices

`timer` and `tick` are Go's ticker with its buffer of one, `loop` is the
scheduler goroutine between its two scans, `lag` how long the current tick has
waited. `leased` is the table of mails, the only state that survives `Crash`.
`calm` remembers whether the server was up, its statements succeeded and the
loop was on time; it is read by properties only.

### AuthCache

One e-mail address. `ver` numbers the states of the user's row, `cache` is the
entry with the ticks it has left, `flight` the shared lookup of the
singleflight group, `req` the requests, `wr` the handlers that commit and then
invalidate. `since` and `settled` are bookkeeping for the properties.

### ChatHistory

What a reader of a room gets over HTTP. A message takes its time at the server
and is stored later (`StampMessage`, `StoreMessage`), so messages may appear in another
order than their times. `Second` ticks are one second of the `before`
parameter, which the app sends back as RFC 3339 without fractions. `scroll` is
the reader's list: what was there when it was opened, what has been shown, and
the seconds in which pages ended. `excused` and `crossed` are bookkeeping. A
request that marks the room read takes `time.Now()` after its query, and the
upsert overwrites whatever cursor is there.

### Push

A job is the goroutine that pushes about one message or one edit. For chat:
the tokens are loaded and the time is taken, then the throttle's lock (in any
order), then FCM answers, and a dead token is cleared by user id. For edits: the
ride is read with its stamp, the cooldown decided, the stamp written (it may
fail) and the tokens loaded, the push sent. The purge of the throttle's map is part of the step that
finds it full. `saved`, `raced`, `failed` and the fields `after` and `beside`
of an edit are bookkeeping.

### Mutes

Preference rows of users by category, for chat also by ride; the settings of
the ride, which two routes write as a whole; and those who read them: the fan-outs (`LookAtRide`, `Decide`), the scheduler, the chat
list (`ListMuted`) and the settings screens. A note is one push that is being decided.
`willing` and `unwilling` record what the users wanted while it was.

`UpdateRideSettings` reads the settings, applies one field and writes them all
back; a write in between is lost (`torn`). `UpdateRideByID` (the host edits the
ride) parses the settings out of the request's body alone: a body that sets any
of them replaces them all, so the fields it does not mention become false, and
a body that sets none to true is ignored, since GORM's `Updates` skips zero
values. `slighted` are the fields such an edit left otherwise than they were
set; the next change through `UpdateRideSettings` takes its field out again.

### Accounts

Every request is one step: the transactions are serializable and their
statements are the subject of `Bookings`. A ride's bookings are `booking[r]`,
their status by passenger, with `older[r]`, the order of `created_at`, since the
handover takes the first; `dead` rows are those soft-deleted when their
passenger became the host. `ghosts` counts the seats that nobody sits in any
more, `lost` the passengers whose ride went.

### RideScore and RideSearch

`RideScore` is pure: distances (on a plane, in units of 5 m), the tiers of
nearness, the score in hundredths, the reasons and the chips. `Decay` is the
exponential of the time score as a table.

`RideSearch` has three actions, one per route, and no step that writes: the
table stays fixed. A page of `/ride/search` is the candidates of SQL (a padded
box on a flat map, a window of dates, text), cut at `CandidateLimit` from an
offset, then the exact radius, the rank and the cut to the page. Ties may come
out in any order, and each database call may fail, with the fallbacks of the
code. `skew` is the difference between the flat and the spherical distance.

### ExternalFeed

One cache, one fetch at a time. A request that finds the cache cold fetches or
waits on the condition variable; one that finds it old starts a fetch in the
background. Waking is an action of its own, so that a second fetch can start
before a woken request looks again. An invite inserts its lease, mails, and
deletes the lease when the mail failed; the deletion may fail, SES may deliver
and report an error, and the server may crash. `slips` records which of these
happened.

### OtaStore

An upload goes through staging, unpacking (a broken archive stops it), the
check of its metadata, the hoist of `dist/` and the rename; `mtime` is what the
order of updates is read from. The hoist moves any part of `dist/` (`Hoist`):
entries are renamed one by one and errors are ignored. What was not moved stays
in `inner`, the update is published all the same, and while it is the newest,
manifests of a platform it lost the metadata or the bundle of answer errors.
A manifest picks its directory in one step and
reads the files in the next. A crash leaves the staging directory.

### Places

One search that is asked again while rides are posted and the cache ages.
`SearchLocations` is the handler as a whole: candidates, score, merge, sort, cut, the
fallback to Nominatim and the cache. The code leaves results without a score
out before the merge and those without a name in it; here both are in
`MergeInto`. Lists are filtered and sorted by `InOrder` (an element's place is
the number of those before it), which the prover can unfold, where it cannot
unfold the recursion of a library operator.

## Runs

| run | question | holds |
|---|---|---|
| `Lifecycle` | Do the routes the app uses keep counter, rows, decisions and the seat ledger in agreement on a serializable database? | `SeatsMatchBookings`, `NoOverbooking`, `DecisionsFinal`, `LedgerSpec` |
| `AllRoutes` | What holds with the CRUD routes too and without read validation? | `BookedInBounds` |
| `Finish` | Is every request answered, although locks are taken in opposite orders? | `RequestsFinish` |
| `DeleteAccepted` | Can a ride be deleted with an accepted passenger? | no: `AcceptedRidesStay` is violated |
| `ChatRoom` | Are channels and presence right while connections come, break and are thrown out? | `ChannelsSafe`, `PresenceHonest` |
| `ChatMessages` | Is anyone passed over between broadcast and push, and do connections end? | `NobodyMissed`, `ConnectionsEnd` |
| `AfterTrip` | One payment card, ratings between travellers, and do all handlers agree on who a user is to the ride? | `MarkerOnce`, `RatingsBetweenTravellers`, `MembershipAgrees`, `ScreensHonest`, `TravellersAgree` |
| `AuthCache` | How long can an overwritten user be served? | `StaleBounded` |
| `Verification` | How many wrong codes does a challenge take, how often does it confirm, how are mails spaced, when requests overlap? | `ChallengesBounded`, `MailsSpaced`, `ConsumedVerifies` |
| `Notices` | At most one mail, late passengers mailed, rating windows meeting scans, under crashes and lateness? | `MailOnce`, `LateAcceptsMailed`, `PromptsMeetScans` |
| `Search` | What do a page, a scroll, the other surfaces, the ranking and the chips promise? And the external feed? | `PageRight`, `PagesPartition`, `SurfacesNest`, `IntendedOrder`, `ChipsMirrorReasons`, `FeedAnswers`, `InvitesOnce` |
| `Services` | Six services, one at a time: bundles, history, accounts, pushes, preferences, places | `ManifestsWhole`, `LastUploadServed`, `ScrollComplete`, `BadgeHonest`, `SeatsOutliveAccounts`, `RidesOutliveHosts`, `TokenKept`, `PushesSpaced`, `MutesAgree`, `SettingsKept`, `CuratedWins` |

The parts of `Search` and of `Services` share no state. Their MC modules run
one part per behaviour (`part`) while the others rest, which visits the states
of each and no product of them.

Type invariants (`TypeOK` and its like) are in no configuration where a theorem
proves them.

What some results say more exactly than their names:

* `NobodyMissed`: no promise is made when the fan-out gives up, nor to who
  enters the room between the broadcast and the look at who is there, nor to
  who has no token or wants no push. All others have the message put on an open
  connection or are handed to FCM, or were within the throttle's window.
* `SettingsKept`: a setting is what it was last set to, unless two writes
  overlapped or an edit of the ride reset or ignored it. A `slighted` field can
  only differ by being reset: no edit turns a setting on that its body does not
  name.
* `ManifestsWhole`: what a manifest names is there and stays, and all that the
  archive brought is in the directory, in part perhaps under `dist/`, where
  requests for single assets do not look.
* `ScrollComplete`: only messages of a second in which a page ended can be
  missing.
* `BadgeHonest`: only a message that was there, or was timed before the
  reader's request was, leaves the badge; the same holds of the receipt.
* `PushesSpaced`: edits that overlap do push twice, and a failed stamp is no
  stamp; everything else is spaced.
* `TokenKept`: the window in which a fresh token is lost is that of one push.
* `SeatsOutliveAccounts`: nothing is overbooked; the counter is too high by
  exactly the seats that deletions left behind.
* `RidesOutliveHosts`: accepted passengers lose their ride only when it had
  been handed over before.
* `MutesAgree`: what the chat list says differs from the pushes in one case
  only (below).
* `PagesPartition` is about the order by departure without a place or a text,
  for rides of distinct times (ties come out in any order, page by page).
* `PageRight` promises a ranked first page only where the candidates were not
  cut: then no ride that the page leaves out is better than one on it.
* `IntendedOrder` is about the weights of `search_scoring.go` as they are, radii
  up to 10 km, and of early and late about rides alike in all but the time, up
  to 90 minutes from the wanted one.
* `ChipsMirrorReasons`: a card has at most six chips, so a reason may go without
  its chip when there are six others.

* `CuratedWins`: a name that is suggested twice is of two places with positions,
  if its texts fit alike. Names that agree only once their punctuation is gone
  may not ("(gate" fits "(gate" better than "- (gate" does, by 55 points); then
  a place without a position may replace one with one, beside a third.

Every property of a passing run has a mutant in `PROJECT.json`: a definition
changed the way a bug would change the code (a lost guard, a forgotten
rollback, a reset at the wrong place), under which TLC finds the property
violated. The mutants stand in the modules, above the definition they mutate.

`CHECK_DEADLOCK FALSE` everywhere: once every bounded thing has been used up
and all requests are answered, the model may stop. Whether the *program* can
stop is what `RequestsFinish` and `ConnectionsEnd` ask.

## Bounds

* `Lifecycle`: one ride of 2 or 3 seats, three users, two requests in flight,
  each user booking up to twice (`MaxGen`, so that a removal can meet a newer
  row of the same pair). Handlers touch one ride each; overbooking needs as
  many accepted passengers as seats, and two competitors for the last one.
* `AllRoutes`: two users, two requests, all ten routes. `EditSeats = {3}` and
  `EditBooked = {0}` keep edits from shrinking a ride: no rule of the source
  says what should happen then (see [Proofs](#proofs), premise `NoSeatEdits`).
* `Finish`: three requests, so that two can deadlock while a third waits.
* `ChatRoom`: `Cap = 2` for a channel of 256. What matters is that a channel
  can be empty, partly filled and full; a newcomer's snapshot and one more
  item fill it. Three connections of two users: one user with two devices, or
  with a dead connection that is not yet noticed. `ChatMessages`: one message,
  two connections.
* `AfterTrip`: a host and two passengers, of whom one sends requests, two
  requests in flight; every start of the bookings, with and without a host who
  was promoted; phases instead of hours. The views depend on one user's booking
  and on the number of the others, so a third passenger adds nothing; rides are
  as full as they can be or have one seat left.
* `Verification`: `MaxAttempts = 1` for 5 and two requests at a time. With these
  the bound of `ChallengesBounded` is met exactly (two wrong codes), as it is
  with three attempts and two requests or two attempts and three. Three
  challenges, so that more could be open within one cooldown than requests
  overlap.
* `AuthCache`: `TTL = 2`, `Grace = 1`: five minutes and the few seconds a
  lookup may take, in that proportion or worse. Three requests are needed for
  the worst case of `StaleBounded`; two writers overlap.
* `Notices`: `Period = 2`, `MailTo = 6`, `PromptFrom = 7`: the window of mails
  covers three scans (in the code 210), the lookback of prompts is one period
  as in the code. `MaxLag = 2` bounds how late the loop is by one period. The
  code does not bound it: a query without timeout may hang for ever, and
  nobody is mailed then; `LateAcceptsMailed` says how the delay counts.
* `Search`: families of tables rather than all tables, each around one
  question: the edge of the radius and missing coordinates, departure and
  price, names, times near midnight, target times, chips, taken seats. Up to
  four rides, pages of one and two cards, three pages; `CandidateFactor = 2`,
  floor 3 and ceiling 4 (8, 80 and 250 in the code) let four rides exceed the
  limit of candidates; at most one page with failing calls. `FeedAnswers`: one
  searcher, two taps of one inviter, the background fetch.
* `Services`: two uploads and two manifests; three messages of which one is the
  reader's, pages of one, two ticks to a second and two requests of the reader
  at once; three people and two rides of three seats, so that a ride can be
  handed over twice; one recipient in a ride and a direct-message room, three
  pushes of which the third comes with calm tokens, two tokens, four minutes
  with a window of two; one user, one note and three edits of the settings;
  trips at two names 8 and 15 km apart, so that merging is not transitive.
  Edits rename the chat or mute it; bodies of a ride edit mention neither
  setting, one, or both. Archives are whole or cut off, flat or all under
  `dist/`, with a part at each place, and without a bundle or metadata.
  Recipients, users and rooms do not meet in these modules: each row is read by
  its key.

What these bounds leave open the theorems close, for all properties but those
named at the end of [Proofs](#proofs).

## Fairness

* `Bookings!FairSpec`: strong fairness of each request's next statement, since
  the database grants row locks in the order they were asked for, and weak
  fairness of the deadlock detector. Nothing obliges a client to send a
  request. The liveness run leaves out `/ride/delete`, whose cascade locks all
  bookings of a ride at once and would need the lock queue to be modelled.
* `ChatHub!Spec`: weak fairness of the hub's announcements, of unregistering
  and of the write pump: Go schedules every runnable goroutine, `select`
  chooses among ready cases at random, and a write that the peer does not take
  ends at its deadline. A peer is never obliged to connect, talk or hang up.
* `ExternalFeed!FeedFairness`: weak fairness of each request's and each fetch's
  next step: goroutines are scheduled, the HTTP client and SES have timeouts,
  and a broadcast wakes all waiters. Nobody is obliged to ask or to list rides.
* The other specifications state no fairness and make no liveness claims.

## Proofs

`tlapm` checks these for every value of the constants: users, rides, requests,
connections, capacities, messages, windows. Besides the assumptions named in
the modules they rest on the premises named here.

Bookings (`SeatsProof`)

* `SeatGatesAgree`: the Go gate of `/bookings/request` and the SQL gate of
  `/bookings/accept` decide alike for all natural seat counts, although one is
  written over unsigned and the other over signed numbers.
* `TypeCorrect`: `Spec => []TypeOK`.
* `BookedBounded`: `BookedInBounds` under the premise `NoSeatEdits` (rides are
  not edited), at any isolation level and with every other route. The
  inductive invariant `BoundsInv` adds what makes the guards last: from the
  UPDATE that takes a seat to its commit the ride row is locked
  (`SeatLocks`), so the guard it passed still holds when the new count shows.
* `SeatsCounted`: `SeatsMatchBookings` under the premise `FlowOnly`
  (serializable, and only the routes of the app). The invariant `CountInv`
  adds `HandlersSound`: a handler that is to delete an accepted row still
  finds it accepted or gone, and holds its lock from the DELETE to the commit.
* `NeverOverbooked`: from the two.
* `DecidedOnce`: `DecisionsFinal`, from `CountInv`: every statement leaves a
  decided row alone or deletes it.
* `LedgerImplemented`: the refinement `LedgerSpec`. The tables map to the
  ledger's variables; a commit that accepts maps to boarding, one that removes
  to leaving, creating and deleting a ride to opening and closing, and every
  other statement stutters. That boarding finds room is `SeatsCounted`.

Chat (`ChatProof`)

* `ChannelsStaySafe`: `ChannelsSafe`. `ChannelInv`: a connection once
  registered is in the room's map or has its channel closed, never both, and
  the two maps agree; throwing out and unregistering both test the map first.
  `HubTypeCorrect`: the types.
* `PresenceStaysHonest`: `PresenceHonest`, which is inductive beside the types
  of the queues (`Queued`) and `Fresh`: nothing is in the channel of a
  connection that has not registered. What an app will make of its channel,
  `Reading`, is stated by positions and not as a fold: the last item that
  speaks of a user decides. Two lemmas say what putting an item into a
  channel and taking one out do to it, and one (`UnderstoodWell`) what the
  announcement that the hub still owes will do.
* `MessagesReach`: `NobodyMissed`. `CoverInv`: between the broadcast and the
  look at who is connected, whoever is connected got the message on that
  connection or came after the broadcast. Who is thrown out, or leaves, is no
  longer there to be taken for present, and becomes a target. A user spared a
  push was pushed for the room just before.
* `HistoryTypeCorrect`; `BadgesHonest` (`BadgeHonest`) from `OfferedInv`:
  whatever time the cursor has or is about to get, earlier messages were
  offered to the reader; `CursorOnlyForward` from `AloneInv` (the cursor goes
  back only after two marks overlapped); `HistoryScrolls` (`ScrollComplete`)
  from `GapInv` (what was there at first and is not shown is before the end of
  the last page or in the second of an end).

Scheduler, pushes, preferences (`NotificationsProof`)

* `NoticesTypeCorrect`; `MailedOnce` (`MailOnce`) from `MailInv`: no lease, or a
  mail still on its way, means no mail yet; `LatePassengersMailed`
  (`LateAcceptsMailed`) from `LoopInv` (the lag of the loop and the ticker's
  countdown add up to a period) and `LateInv` (a passenger no scan has seen is
  seen by a tick within a period); `PromptedByOneScan` (`PromptsMeetScans`) from
  `PromptInv`: it counts the prompts of a ride by the time of the next scan,
  which stays in step with the ticker while the loop is on time; none before
  the window opens, one within a period, and two only if a scan falls on the
  instant at which the 12 hours end.
* `PushTypeCorrect`; `TokensKept` (`TokenKept`) from `TokenInv`;
  `PushesAreSpaced` (`PushesSpaced`) from `ThrottleInv` (an entry is at least as
  late as the push it stands for, or that is longer ago than the purge waits)
  and `CooldownInv` (an edit that ran alone is known to those after it). The
  first needs that the purge waits long enough for a goroutine that queues for
  the lock: `PurgeAfter + 2 >= 2 * Window`, in the code 20 minutes against 4,
  and the model lets a goroutine wait up to a window.
* `MutesTypeCorrect`; `SettingsAreKept` (`SettingsKept`) from `EditInv`: alone, an edit knows what
  the settings still are, be they as they were set or as an edit of the ride
  left them; `MutesHonoured` (`MutesAgree`) from `WatchInv`: the
  history of who wanted a push covers what the filters read.

After the trip (`AfterTripProof`), from `TripInv`, the types with three parts:

* `OneMarker` (`MarkerOnce`), by `MarkerInv`: of the requests that are about to
  post a payment card for a booking there is one at most, none once a card is
  posted, and the signal they claimed stays set for as long as the row lives.
* `TravellersRate` (`RatingsBetweenTravellers`), by `RateInv`: the people whom a
  request has been let through to rate are those it may rate, also when it
  writes them later, because who travelled never shrinks.
* `MembershipDerivedAlike`, `TravellersDerivedAlike` and `ScreensAreHonest`
  (`MembershipAgrees`, `TravellersAgree`, `ScreensHonest`), by `HostInv`: the
  host's own row is accepted and soft-deleted if he was a passenger, and gone
  otherwise, and no other row is soft-deleted. That is the whole difference
  between the queries that ask for `deleted_at IS NULL` and those that do not.

Auth (`AuthCacheProof`): `AuthTypeCorrect`; `StaleForAWhile` (`StaleBounded`) from
`AgeInv`. Only a request that was under way at an invalidation can bring an
overwritten row back into the cache, and it has what is left of its `Grace` to
do so. The invariant bounds the age of what requests still carry when nothing
is cached (`UncachedAges`), and of what is cached and can be copied from the
cache (`CachedAges`), by the number of invalidations so far: each lets an old
row live for two lookups more. `NeverPurged` is the first of these steps, and
`Fresh` says that an entry does not expire under a request that saw it. The
bound is `TTL + (2 * Cardinality(Writers) + 1) * Grace`; the writers are those
whose changes follow each other within that time.

E-mail verification (`VerificationProof`), from `VerifyInv`:

* `UsedMeansVerified` (`ConsumedVerifies`).
* `MailsAreSpaced` (`MailsSpaced`), by `SpaceInv`: while the cooldown of the
  newest challenge lasts, the starts that may still insert are those that were
  let through before it; with the challenges made they are no more than there
  are requests at a time.
* `ChallengesStayBounded` (`ChallengesBounded`). Confirmations, also alone in
  `ConfirmsBounded`: by `UseInv` (a row still open has not been used, and the
  requests that will use it count). Wrong codes: by `TallyInv`. `Ahead(r, v)`
  are the requests that can still bring a try when the count of `r` is at `v`;
  a table `S` bounds the tries brought below each count, growing at `v` by
  `Gain(MaxAttempts - 1 - v, Cardinality(Ahead(r, v)))`, a difference of
  binomial coefficients. A try that sets the count back to `s + 1` was not ahead at
  `s` and now is; Pascal's rule (`WaysTable`) says that this pays for all tries
  the others had brought above `s` (`TallySetBack`, `GainsAddUp`). Factorials
  and binomials are characterised first (`Factorials`, `WaysTable`), by least
  counterexamples, since the recursion of a library function cannot be unfolded.
* `TriesOneByOne`: if requests do not overlap (premise `OneAtATime`), no more
  wrong codes are compared than `MaxAttempts`, as the comment in the source says.

Bundles, accounts and places (`ServicesProof`)

* `OtaTypeCorrect`; `WholeUpdates` (`ManifestsWhole`) from `ManifestInv`: what is
  published has every file of its archive, hoisted or left under `dist/`, and is
  never written to again, and the directory that a
  manifest is being made from is newer than any named before; `LastIsServed`
  (`LastUploadServed`) from `ServedInv`: an upload that overlapped no other has
  the newest modification time from its first write on.
* `SeatsAfterDeletions` and `RidesAfterDeletions` (`SeatsOutliveAccounts`,
  `RidesOutliveHosts`) from `AccountsInv`: the counter is the passengers plus the
  ghosts, only a host who once was a passenger has a dead row, and rides with
  one have been handed over. The order of bookings is a strict order, so the
  handover has a first one. Types: `AccountsTypeCorrect`.
* `PlacesTypeCorrect`; `CuratedPlacesWin` (`CuratedWins`) from `PlacesInv`: what is
  cached and what was answered are `Right`. A list is `Mergeable` if, of one
  name, nothing but the user's place comes before a curated one and no place is
  followed by a better one without a position. Merging such a list result by
  result keeps `MergedFrom` (`AppendStep`, `ReplaceStep`, `MergedAll`): all that
  is kept was given, who counts is stood for, and what shares a name is `Apart`.
  Sorting is a strict order, so a cut drops only what scores no better
  (`Ordered`, `SortedAndCut`, `ShownIsBest`). The first list is mergeable since
  curated names are distinct, and since a position is worth the 35 points that
  the texts of like names may differ by (`RidesAlike`, premise `TextsAlike`); the
  list after the user's place, and the one before Nominatim's, because what
  was ranked is apart (`ApartIsMergeable`).

Search (`SearchProof`). Tables, queries, skews, limits and failures are
arbitrary; `SearchInv` says of every answer given what the properties ask.

* `PagesKeepTheirPromise` (`PageRight`): the box on the flat map is padded by
  five units, and the skew is at most that, so that no ride within the radius
  is lost in SQL; cutting a ranked list keeps the best.
* `ScrollIsWhole` (`PagesPartition`): rides of distinct times have one order; a
  page is cut out of the candidates from an offset, which are a piece of that
  order, and sorting that piece again changes nothing. It rests on
  `limit <= CandidateCeiling`, in the code 50 against 250.
* `SurfacesAgree` (`SurfacesNest`).
* `WeightsDoWhatIsMeant` (`IntendedOrder`): the weights other than the day's add
  up to less (109524 hundredths) than missing the chosen day costs (110000), for
  radii up to 10 km. Of two rides alike in all but being as early as the other
  is late, the late one loses points for it, and nothing else tells them apart.
* `ChipsMatchTheLine` (`ChipsMirrorReasons`): the priorities of a ride's chips are
  distinct, so that "the six strongest" are six, and each threshold of a chip
  implies that of its reason.

External feed (`SearchProof`): `FeedTypeCorrect`; `OneFetchAtATime` (the flag
tells whether a fetch runs, and nobody waits without one), which is the safety
half of `FeedAnswers`; `InvitedOnce` (`InvitesOnce`) from `LeaseInv`: whoever
mails holds the lease alone, and a mail that surely left keeps the lease taken.

Premises are hypotheses of the theorems and not assumptions of the module, so
the same module runs without them.

Only model-checked, not proved: liveness (`RequestsFinish`, `ConnectionsEnd`,
`FeedAnswers`), which is out of the prover's reach, and `CuratedWins` without the
premise `TextsAlike`: TLC checks the texts it is given.

## Where code and documentation disagree

Shown by a run:

* `DeleteAccepted`: `/ride/delete` counts the accepted bookings
  (`RideCRUDRoutes.go:461`) and deletes the ride in a later statement (493); an
  accept in between goes with the ride.

Known from the models, whose properties carve them out, or from reading:

Bookings and rides

* `helpers/seats.go:13` and `Reject.go:126` say that `booked_seats` counts the
  accepted bookings; `PATCH /booking/update` and `POST /booking/create` change
  the status and count nothing. With `Routes = AllRoutes` the model has such
  behaviours, hence the premise `FlowOnly` of `SeatsCounted`.
* `TripCard.go:190` calls a repeated dismissal a no-op; the UPDATE at 285 sets a
  confirmed payment back to pending.
* `viewerState.go` offers what endpoints refuse: see [Surfaces](#surfaces).

Accounts (`SeatsOutliveAccounts`, `RidesOutliveHosts`)

* Deleting an account deletes accepted bookings, or soft-deletes the one of the
  promoted host, and does not give the seat back.
* When a ride is handed over a second time, the leaving host's own dead booking
  is found first; the ride, accepted passengers and all, cascades away.
* A promoted host can never delete the ride: `RideCRUDRoutes.go:461` counts dead
  rows.
* `users.email` has no unique index, although the model's tag asks for one.

Chat and pushes

* A page of chat history ends at a time cut to whole seconds, and the next page
  asks for strictly older messages (`ScrollComplete`).
* `chat.go:1040` takes who is found in the room for somebody in whose open
  conversation the message already appeared; who entered after the broadcast
  has not been sent it (`NobodyMissed`).
* `rideSettings.go` changes settings field by field; `PUT /ride/update`
  (`RideCRUDRoutes.go:252, 314`) replaces them all: renaming the chat there
  unmutes it, and turning off the last setting there does nothing
  (`SettingsKept`).
* `RideCRUDRoutes.go:361` says overlapping edits do not both push; the cooldown
  is read at the start of the request (328).
* `fcm_service.go:322` clears the token of a user by user id, also if it is no
  longer the token that failed (`TokenKept`).
* A chat muted in general and unmuted for the ride is called muted by the chat
  list, while its pushes come (`MutesAgree`).
* The ride-updates preference is offered and never asked; the scheduler ignores
  preferences when it cannot read them; `FilterAllowedRecipients` has no caller.

Verification and auth

* `EmailVerificationModel.go` says "After 5 we mark the row dead". No row is
  marked, and a slow request sets the count back: `n` requests at a time get
  `(5 + n over n) - 1` wrong codes compared, 20 for two (`ChallengesBounded`).
  It also calls the token single-use; it confirms once per overlapping request,
  which changes nothing more.
* `auth_middleware.go:311` says that stale identity is never served after a
  mutation; a lookup that read the row before it and stores it after the
  invalidation (297) is served for up to a TTL. `StaleBounded` says how long.

Search

* `applyDirectionFilter` (`searchRides.go:457`) calls itself the cure for rides in
  the opposite direction; only `searchWithAdaptiveRadius` calls it, which nobody
  calls.
* `search_scoring.go:741` calls "Just listed" "Mutually exclusive with the date
  chips"; it comes together with them. Between 60 and 90 minutes before the
  start the chip says "Leaving soon" and the line "Good timing today".
* A ride that ends exactly at the destination can rank below one that ends a
  kilometre past it: the tiers are not monotone once the bonuses are added.
* Paging by relevance, price or distance ranks each page by itself, and may skip
  or repeat rides; so may a text search whose later page falls back.
* Strict matches (`matchingCreate.go:190`) may be rides that have departed: the
  window reaches back from the wanted time.

External rides, places, bundles

* `external_invite.go:79` says that an insert of zero rows means the invite has
  gone out; the lease comes before the mail (`InvitesOnce`).
* A list of places is one short when the user's position takes the name of a
  curated place that was cut for it; names chained by places without
  coordinates can repeat; a list that Nominatim failed to fill is cached for ten
  minutes like any other (`CuratedWins`).
* `ota.go:429` hoists `dist/` without looking at errors and publishes what is
  left (`Hoist`): such an update answers errors to manifests until the next one.
* `ota.go:17` speaks of a `current` update by sort order; the order is that of
  modification times. An upload for one platform hides the other platform's
  last bundle.

## Not modelled

* The other views (`appstate`, `RidePreview.go`, `GetUser.go`, ...): they change
  nothing and format what other modules hold.
* Mail templates, token verification by Firebase, signing in on the web,
  connecting and migrating the database.
* `routes/CRUD/MessagingCRUDRoutes.go`: not registered with the server.
* `routes/reports` and `Institutes.go`: a single insert, reference data.
* Within modelled parts: which ride the trip card shows, stars and their
  averages, texts of pushes and system messages, the order of lists, the
  parsing of the other service's documents, the multipart format and headers of
  bundles, the token cache (immutable facts until they expire), and creating
  and editing a profile beyond its invalidation of the cache.

Narrower than the code, in modules that are modelled:

* `RideSearch`: the skew between the flat and the spherical distance is at most
  the padding of the box. The radius of `/ride/search` has no upper bound
  (`searchRides.go:678-683`); beyond some 500 km it would have to be larger, and
  `PageRight` says nothing of such searches. The box of the nearby rides
  (`nearbyCount.go:79-94`) carries no skew at all: `SurfacesNest` compares the
  filters, not their geometry.
* `RideScore`: the chip `same_area_destination` is paired with no reason;
  `ChipsMirrorReasons` is about the others.
* `Push`: only a token that is no longer the app's is answered as dead. The
  code drops a token on `INVALID_ARGUMENT` too (`fcm_service.go:100`), which FCM
  may answer to a message it does not like; `TokenKept` does not cover that.
* `Push`: the server does not restart. The throttle's map is in memory, so the
  first push after a restart may follow the last one at once.

## Plan

Done: every module of the table above, with runs, and theorems about all of
them.

Left, the most important first:

1. Account deletion statement by statement inside `Bookings`, beside accepts
   and removals of the same ride.
2. What a removal should do to an open socket, and a property for it.
3. Which ride the trip card shows (`GetActiveTripCard`).
4. Proofs: `BookedBounded` with edits, once the source says what shrinking a
   ride means.
