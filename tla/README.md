# Obrolan API: a formal model

The repository is the backend of a discussion forum with live chat (Go, Gin, GORM on
PostgreSQL, gorilla/websocket).  This directory holds TLA+ modules for the parts of it
that run concurrently or fail half-way, TLC configurations that check them on small
instances, and proofs, checked by TLAPS, of what holds for every size.
`PROJECT.json` maps each definition to the lines it models and lists the hazards, line by
line; paths below are relative to `src/internal/`.

## The system

| Component | State | Operations | What makes it hard | What makes it correct | Modules |
|---|---|---|---|---|---|
| Chat hub and connections (`services/chat_service.go`, `handlers/chat_handler.go`) | `Hub.rooms` under an RWMutex; channels `RegisterCh`, `UnregisterCh`; a channel `Send` per client | `Hub.Run`, `broadcastToRoom`, `ReadPump`, `WritePump`, `HandleWebSocket` | one goroutine for the hub and two per connection; the lock is given up inside a loop over the map; the hub sends on a channel only it reads | no send on a closed channel, nobody forgotten, no deadlock, no leaked goroutine, messages of one sender in order | `ChatHub`, `ChatRoom`, `MCChatHub`, `ChatHubProofs`, `ChatRoomProofs` |
| Auth and refresh tokens (`services/auth_service.go`, `handlers/auth_handler.go`, `repositories/refresh_token_repository.go`) | tables `users`, `refresh_tokens` | `Register`, `Login`, `Refresh`, `Logout`, hourly `DeleteExpired` | several statements per request, no locks, ignored errors, expiry, answers that are lost with the server | a token is spent once, one session per user, logout ends sessions | `Sessions`, `MCSessions`, `ServerProofs` |
| Server process, JWT, auth middleware (`cmd/server/main.go`, `database/database.go`, `config/config.go`, `utils/jwt.go`, `middleware/auth_middleware.go`) | nothing that outlives the process; JWTs in the hands of clients | start, attempts to connect, migration, death; `GenerateToken`, `ValidateToken`, `AuthMiddleware` | tables and JWTs outlive a restart, requests and connections do not; a JWT outlives the session it came with | nobody ends another's session; who has lost every right to act gets it back by a password only | `Server`, `MCServer`, `ServerProofs` |
| Rate limiter (`middleware/rate_limiter.go`) | map of visitors under a mutex | `Allow`, a cleanup goroutine | time, boundaries, a record forgotten between requests | no more than the limit in a window, a pause always helps | `RateLimiter`, `Limiter`, `MCRateLimiter`, `RateLimiterProofs` |
| Threads, comments, likes, messages (`services/{thread,comment,like}_service.go`, their repositories, the hook in `models/thread.go`) | tables `threads`, `comments`, `likes`, `messages`, with soft deletion | `Create`, `GetByID`, `Delete` with cascade, `Toggle`, the INSERT of a chat message | every statement commits on its own; checks come before writes; a unique index that sees deleted rows; errors ignored in the hook | one like per user, users are told what is stored, cascades are complete | `Forum`, `MCForum`, `ForumProofs` |
| Image upload, and threads as they show images (`services/upload_service.go`, `Create`, `Update`, `Delete` of `services/thread_service.go`) | images at Cloudinary; `image_url` of `threads` | `UploadImage`, `DeleteImage`, `Create`, `Update`, `Delete` | two stores, changed one after the other; the URL is read before the row is deleted and used afterwards; two threads may show one image | no image goes before its thread, none is left when its thread goes | `Images`, `MCImages`, `ImagesProofs` |
| User accounts (`services/user_service.go`, `repositories/user_repository.go`) | one row of `users` | `UpdateProfile`, `ChangePassword` | the whole row is read and the whole row is written back | changes are not lost; only who knows a password changes it | `UserAccounts`, `MCUserAccounts`, `UserAccountsProofs` |
| Pagination (`utils/response.go` and the listings) | none | `GetAll`, `Search`, `GetByThread`, `PaginatedJSON` | rows come and go between two pages, and between the count and the page; rows of the same time come in any order | a walk shows every row, once | `Listing`, `MCListing`, `ListingProofs` |
| Routes, CORS, connection pool, generated docs | none | wiring | – | – | see "What is not modelled" |

How they interact.  Every HTTP request passes the rate limiter (on the auth routes) and the
JWT check, then runs in a goroutine of its own; requests share nothing but the database,
where `database.go` sets `SkipDefaultTransaction`, so that two statements of one request are
two commits.  The chat shares memory: handlers give a connection to the hub through
`RegisterCh`, the pumps take it away through `UnregisterCh`, and all of them broadcast under
the hub's read lock.  A ReadPump saves a message (a step of `Forum`) before it broadcasts it
(a step of `ChatHub`).  One goroutine deletes expired tokens every hour, one forgets quiet
visitors.  All of them die with the process, which nothing shuts down in order, and start with it
again; what is left of a request is the statements it has committed.

## Modules

### ChatHub

One process per goroutine.  `hubPc` is where `Hub.Run` is (its select, a section under
`mu.Lock`, the broadcast of a join or leave), `read[c]` and `write[c]` where the pumps of a
connection are, `send[c]` and `closed[c]` its channel.  A critical section under the write
lock is one step, enabled while no process is inside a loop over a room (`NoReader`).
`broadcastToRoom` is a "cast" of the process that runs it, one step per client visited:
`CastSend` when the buffer has room; otherwise `CastFull` gives up the lock, `CastEvict` blocks
on `UnregisterCh`, and `CastRelock` goes on with the loop, by Go's rules for a `range` over a
map that changed: deleted keys are not visited, added ones may be.  Messages are a sender and
a number.  `last` and `missed` are history.

`ChatRoom` is what one connection is promised: join once, leave once, events only while a
member, messages of one sender in order, and no gap unless it was marked as lagging.
`ChatHub` implements it under the mapping `Abstract` (a client is "outside", "member" or
"left" by its presence in the room and its closed channel; its outbox is `send`).

### RateLimiter

`Allow` and the cleanup each hold the mutex throughout, so each is a step; `Tick` moves the
clock between them.  A visitor record is `[count, lastSeen]`, 0 standing for an absent key.
`asked` and `admitted` are the histories of request times.

`Limiter` is the promise without the mechanism: it knows the times of the requests and
nothing else, and refuses a request exactly when it and the `Limit` before it came without a pause
longer than the window (`Pressing`).  `RateLimiter` implements it with the same `now`, `asked` and
`answer`; its cleanup is a stutter, so nobody can tell whether or when it runs.

### Sessions

One step per SQL statement that commits.  `pc[r]` is the statement a request runs next.
`FindByTokenHashAndDelete` runs its SELECT and DELETE in one transaction, but at PostgreSQL's
default level, without `FOR UPDATE` and without a look at `RowsAffected`, so nothing keeps a
second SELECT out and they are two steps.  Any statement can fail; the failures of
`DeleteByUserID` in `issueTokens` and in the reuse branch are ignored, as in the code.  A statement
that has committed can be an error to its request as well, when the database's acknowledgement is lost.
A request issues at most one token, which bears its name.  A logout carries a JWT (`given`), of a session
that may long be over.  `disturbed` is the history of users who may have two sessions; they are so no
longer when all their tokens have been deleted and none is being issued (`Calmed`).  `Crash` ends every
request in flight: what it has committed stays, and a token it has inserted may be one that nobody was
given.

### Server

What `main` does (`Start`, `Connect` up to five times, `Migrate`, then requests until `Die`) around
the actions of `Sessions`, which it extends.  Every JWT is issued with a refresh token and bears the
same name, but has a life of its own: `Lapse` is the passing of its `exp`, and `Valid` looks at
nothing else.  A call is a request to a protected route or a WebSocket connection: the middleware, or
`HandleWebSocket`, lets it in with a JWT (`Authorize`) and never looks again, so `bearer[k]` may
outlive the JWT.  Logout is the protected route among the requests to /auth.

### Forum

One step per statement.  A row of comments, likes or messages bears the name of the request
that inserted it and is "live" or "gone" (soft-deleted); an unlike removes the row for good.
The deletion of a thread is a check of the owner, three statements of the hook `BeforeDelete`
whose errors are ignored, and the deletion itself.  `Taken` is the unique index on user and
thread, which has no condition on `deleted_at`.  A view of a thread asks for the user's like
(`ViewLike`), and takes a query that failed for a like that is not there.  A statement that deletes
may have committed though its request answers with an error.

Four histories tell what the properties except.  `alone` are the toggles and views of a user that have
overlapped no toggle of his of the same thread.  `shown[u][t]` is the last that u was told of his like of
t; it is "unsure" after an answer that was not alone, after one that was lost with the server or
replaced by an error, and after an is_liked that could not be looked up, until the next answer to a
request that is alone.  `late` are rows inserted after a cascade that should include them, and `spared` those that
were there when a statement of a cascade failed.  `Crash` ends all requests in flight.

### Images

A file is uploaded (`Upload`; `Acceptable` are the files that pass the checks of size, first bytes and
extension) and is then an image known by its URL, which a client can put into a thread
with `Create` or `Update`, also into several.  `Find` is the check of the owner in `Update` and
`Delete`, whose copy of the row they go on with; `UpdateThread` changes no row if the thread is gone,
unnoticed, until `Reread`; `DestroyImage` comes after the deletion of the row and is tried once,
and if it fails, or the server dies before it, or the deletion committed and its acknowledgement was
lost, nothing remembers the image (`leftover`).  `showed`
is the history of the images of a thread, `raced` that of the threads updated between the two
statements of a deletion.

### UserAccounts

The row has two columns, the password and the profile.  A request copies the row (`Find`,
which also compares the old password) and later writes the whole copy (`Save`), which may commit
though the answer is an error.  `written` and `last` are the histories of what was committed.

### Listing

A client asks for page after page with one limit, as long as `total_page` says that there are
more; others insert and delete rows.  The listings are ordered by `created_at` and nothing else, so a
page is cut from any of the orders in which no row comes before a newer one (`Newest`): rows of the same
time can change places from one query to the next.  A row may be inserted with any time, since GORM sets it
before the INSERT, in goroutines that run concurrently.  `Count` and `Find` are two statements.  The services
replace a limit out of 1..100 by 10 (`Served`), while `PaginatedJSON` divides by the limit of
the query; with 0 it panics.

## Runs

`CHECK_DEADLOCK` is on where the system can always go on.  It is off in `ChatHub_stuck` and
`ChatHub_safe`, where `UnregisterCh` can fill and the Hub then stops for good: which deadlocks there are
is the invariant `OnlyTheHubBlocks`, which TLC's check could not tell from the harmless end of all
connections.  It is off as well in the runs of `Forum`, `Images`, `UserAccounts` and `Listing`, whose
instances have finitely many requests or rows and then stop.

| Run | Question | Instance | Result |
|---|---|---|---|
| `ChatHub_safe` | Does the loop that gives up its lock ever send on a closed channel, forget a client, or let a skipped one stay?  Which goroutines can block each other?  Who is left in a room when its connection is over?  Does the whole keep `ChatRoom`'s promise? | 2 connections of a room, up to 3 messages of one or 1 of each, buffers of 1, an `UnregisterCh` of 2 | holds |
| `ChatHub_live` | Does the hub always get back to its select, are skipped clients unregistered, do all pumps end? | the same with 1 message of one, fair scheduling, an `UnregisterCh` of 8 | holds |
| `ChatHub_ghost` | Is a connection that has ended in no room once the hub has handled everything? | 2 connections | violated |
| `ChatHub_stuck` | Is a client with a full buffer unregistered, if `UnregisterCh` can fill? | `UnregisterCh` of 1 | violated |
| `RateLimiter_safe` | Do resets and cleanups ever let more than the limit pass in a window?  Does a pause help?  Is the cleanup noticed? | 2 addresses, limit 2, window 2, 8 ticks, 4 requests each | holds |
| `Server_safe` | What do rotation, logout and registration keep when requests interleave, statements fail and the server dies?  What is taken for reuse?  Who ends whose session?  Who can act? | 2 users, 3 requests to /auth, 2 calls | holds |
| `Sessions_replay` | Is a replay of a redeemed token noticed as reuse? | 1 user, 4 requests | violated |
| `Forum_safe` | Are likes unique, counted and, after an undisturbed answer, as users were told; are conflicts only of overlaps; are cascades complete up to late rows and failed statements; does nobody delete what is not his? | 2 users, 2 threads, 3 requests | holds |
| `Images_safe` | Is an image destroyed before its thread, or left behind after it?  Is an update that was answered with success shown? | 2 users, 2 threads, 3 files, 2 updates or deletions | holds |
| `UserAccounts_safe` | Do changes hold that do not overlap?  Can a password be changed without knowing one? | 4 requests | holds |
| `UserAccounts_lost` | Is the password of the latest successful change the one that works? | 4 requests | violated |
| `Listing_walk` | When does a walk through the pages repeat, skip or miss a row? | 4 rows, 3 times, limits 0 to 4, `MaxLimit` 3, `DefaultLimit` 2 | holds |

### Bounds

- `ChatHub`: `Talks` and `MaxSends` bound the chat messages.  With buffers of one message
  (`SendCap` 1 for the code's 256) a single join event fills a buffer, so evictions are common, and
  the loss of a message between two others needs three of one sender.  Two talkers give two
  concurrent loops besides the hub's.  Rooms share nothing but the hub, so one room
  is enough; the proofs are for any number of rooms, clients and slots.  `UnregCap` 8 is more
  than two clients can fill and stands for a channel that never fills; `UnregCap` 1 and 2 scale the
  256 slots down to some that do: with 2, ReadPumps wait for a slot and get one, and the Hub
  waits for one and gets none; with 1, `ChatHub_stuck` needs fewer steps.
- `RateLimiter`: the boundary cases are at window + 1, with limit + 1 requests; `MaxTime` and
  `MaxRequests` leave room for two windows and two resets.
- `Server`: three requests are a login and two refreshes of its token that race, or a login, a refresh
  and the logout in its middle; the proofs are for any number.  Two calls are one whose JWT lapses and
  one that begins later.  `MaxAttempts` is the code's 5.
- `Sessions_replay`: four requests are a login, a refresh, another, and the replay.
- `Forum`: three requests are a comment, a reply and a deletion, three toggles, or two toggles and a
  view; two threads give replies across threads, two users forbidden deletions.
- `Images`: of the three files two are accepted and one is refused.  Two requests are an update and a deletion that
  overlap, or two deletions of threads that show one image.
- `UserAccounts`: four requests are two overlapping pairs.
- `Listing`: with four rows and limits up to 3 there are walks of four pages, and full, half-full and empty
  last pages; limits 0 and 4 are ones the services replace.  Three times for four rows give ties, rows that
  tie with none, and rows inserted before, between and behind the others.

Symmetry is used over connections in `ChatHub_safe` (the instance treats them alike), over
addresses, over requests and rows, and over users, threads and calls where the instance treats them alike; in
no run with a liveness property.

### Fairness

`FairSpec` (ChatHub) has strong fairness for the hub's two receives, since a `select` with several
ready cases picks one at random, and for each goroutine's other steps, since an `RWMutex` keeps new
readers out while a writer waits and blocked senders on a channel are served in order; weak
fairness for a WritePump.  Of the errors of a connection only those after `Conn.Close` are certain:
`ReadMessage` fails at once, and the next ping fails within 54 seconds.  Peers owe nothing: a
connection may stay open, silent, for ever.

## Findings

The four runs that are violated show where the code does something else than a comment, a test
or the README says.

- `ChatHub_ghost`: registration and unregistration travel in two channels; the hub may take the
  unregistration of a client first, do nothing, and then register it (`handlers/chat_handler.go:89`).
  Nobody empties the buffer of such a client, so it stays until broadcasts have filled it and
  `broadcastToRoom` evicts it, 256 messages later.  `GhostsComeLate`, which is proved, says that this is
  the only way: a member whose connection ends has its removal under way from then on.
- `ChatHub_stuck`: the hub, while it broadcasts, sends on `UnregisterCh`, which only it reads
  (`services/chat_service.go:142`).  `OnlyTheHubBlocks`, which is proved, says that this is the only
  deadlock of the chat: giving up the lock around the eviction does rule out the others.
- `Sessions_replay`: rotation deletes the row, so the branch that detects reuse finds nothing for
  a token that was used; it fires only for tokens that expired unused
  (`services/auth_service.go:208`).  `ReuseMeansExpired`, which is proved, says that it never fires for
  a live token.
- `UserAccounts_lost`: a profile update that read the row before a change of password, and saves
  after it, restores the old password (`repositories/user_repository.go:49`).

The properties that hold say exactly how much of a promise is kept, and their exceptions are
disagreements too.  The models have these behaviours; no run is spent on them, as reading the
code shows them:

- "find and delete in one transaction with row lock" (`services/auth_service.go:205`) takes no lock, so
  two refreshes can redeem one token (`RedeemedTwiceOnlyInRace` excepts those that overlap).
- README "20 req/min per IP": a refused request moves `lastSeen` as well, so an address that asks
  every 50 seconds is refused from its 21st request on (`Pressing` in `Limiter` says when).
- README "Logout: revoke all refresh tokens": a login or refresh in flight inserts its token
  afterwards (`LogoutEndsSessions` excepts it).  JWTs and connections outlive a logout in any case; when
  they end is in `BackOnlyByPassword`.
- README "JWT (15min)": without `JWT_EXPIRES_IN` it is 72 hours (`config/config.go:49`).
- README "Thread soft-delete cascades": comments and likes checked before, and every message of a
  chat that is still open, are inserted after the cascade (`CascadeMissesOnlyLateRows`).
- README "nested reply (1 level)": a reply is accepted as parent, and such replies outlive the
  deletion of the comment at the top, of which `DeleteRepliesByParentID` deletes the direct replies.
- README "avoids unique conflict": if the deletion of a thread fails after the hook, its likes are
  in the trash, where the unique index still sees them; these users can never like the thread again
  (`ConflictOnlyOfOverlaps` excepts it).
- README "`is_liked` per user": a view whose query for the like fails says that it is not liked
  (`services/thread_service.go:82`; `LikedAsShown` excepts that answer, not the next).
- README "Auto-delete from Cloudinary when thread deleted": an image that an update brings between the
  two statements of a deletion stays, and so does one whose deletion failed or that the server did not
  live, or did not learn in time, to ask for (`ImageGoesWithThread` excepts them).  The image an update
  replaces is never deleted, and one that two threads show goes with the first
  (`DestroyedOnlyWithThread`).
- README "Extension matching": any of the extensions passes for any of the types, and ".jpeg" for none.
- `limit` out of 1..100: the number of pages is computed from the limit that was not used, and 0
  panics.  After a Count of comments that failed the total is 0 (`repositories/comment_repository.go:26`).
  `NothingMissed` excepts both; `NothingSkipped`, which excepts neither, says that a walk then
  only ends too early and leaves no gap.
- The listings have no order among rows of the same `created_at` (`repositories/thread_repository.go:46`,
  `:82`, `repositories/comment_repository.go:39`), so two pages can show one of them twice and the other not at
  all, though nothing was inserted or deleted.  The three properties of `Listing` except rows that are
  `Tied`; that times are distinct is nowhere assumed.
- README "last 50 messages": the query orders ascending, so the history is the first 50.
- README "Accurate count": comment_count counts soft-deleted comments; like_count counts such likes too,
  which there are only after the cascade of a deletion (`LikeCountIsAccurate`).

## Proofs

For every value of the constants, from the assumptions named in the modules, `ChatHubProofs`,
`ChatRoomProofs`, `RateLimiterProofs`, `ServerProofs`, `ForumProofs`, `ImagesProofs`, `UserAccountsProofs` and
`ListingProofs` prove every type invariant and every safety invariant that a run finds to hold, the
two refinements (`RefinesChatRoom`, `RefinesLimiter`) and the action properties
`SessionsEndByTheirUser`, `BackOnlyByPassword`, `GhostsComeLate` and `OnlyOwnersDelete`.

- **ChatHub.** `NoPanic` is not inductive.  `IInv` adds: where the hub is fits whom it handles
  (`HubControl`), and where a process is in its loop fits its victim (`CastControl`); a client is
  waiting in `RegisterCh` or in the hub's hand at most once (`RegisteredOnce`), and is then in no
  room and not closed, while a member is open (`Placement`); a loop inside the read lock visits
  members only (`LoopsInside`), which the write lock preserves; and a skipped client waits for
  nothing that could register it again (`SkippedInv`).  A loop's next send thus goes to a member,
  and a member's channel is open.  `OnlyTheHubBlocks` follows from where the processes are: whoever
  waits for the lock waits for a loop that holds it, a loop inside the lock can go on because no `Send`
  holds more than its buffer (`Going`), and whoever waits for a slot waits for the Hub, which
  can go on, or waits for a loop, or is the exception.  `GhostsComeLate` needs that a client on its
  way out stays so until it is out of its room (`DoomedStays`), and that a ReadPump ends by
  putting its client on the way (`DoneByExit`).
- **ChatRoom.** `Hearing` says where each client stands with the messages of each sender: who has not
  entered has heard nothing and no loop knows it; before a loop starts everybody is behind by the
  one message; inside it, whoever is still to be visited is, and whoever was visited is up to date or was
  skipped.  Nobody becomes a newcomer again, so members that join while a loop has given up its lock
  are served or left out without a gap.  `EverybodyServed` and the refinement, action by action, follow.
- **RateLimiter.** `AtMostLimitPerWindow` is about pairs of requests `Limit` apart.  The invariant
  `AdmitInv` relates the visitor's counter to the history: the requests counted are the latest, and
  `Parted` says that those before are more than a window away.  `AskInv` says the same of `asked`,
  whose last `count` entries are `Dense`.  When the cleanup forgets a record, its last request is
  over a window old, so nothing is lost.  The refinement of `Limiter` needs equivalence where the two
  invariants need one direction each: the counter reaches back exactly to the latest pause
  (`CountsAll`), so it exceeds the limit just when the last `Limit` + 1 requests had none.  That a pause
  always helps (`RefusedOnlyWhenBusy`) is the half of it that a client relies on.
- **Sessions.** `Typed` and `Ended` say which requests own rows and present tokens; `OneRedeemer`
  that a request between SELECT and DELETE is the only one, and the first, for a token not in
  `raced`; `OneIssuer` the same for the INSERT of a user's token; `Looking` that a request that has not
  found its token live never will, since a token that was handed out gets neither its row nor its time
  back, whatever happens between the two lookups.  Actions that touch none of this are
  `Calm`; the others have a lemma each.  That a redeemed token has no row (`RedeemedTokensAreDead`) is
  a part of the invariant, which the rest needs.
- **Server.** The server's actions are built of those of `Sessions`, so the theorems about `Sessions`
  carry over (`ServerKeepsPromises`); that says nothing about the code by itself.  What `Server` adds is
  proved of its own.   `SessionsEndByTheirUser` goes through the statements that delete tokens: each
  deletes those of the request's user, whom it has from the token or JWT it presented, or from a
  password.  `BackOnlyByPassword`: of the five actions that hand out something to act with two are
  logins, and the other three hand it to somebody who can act already, by a token, a request under way or
  a JWT; `Bearers` ties calls to JWTs that were granted.
- **Forum.** `Sound` says what a request can have at each of its statements.  On it rest two groups.
  `Kept` is about rows: what a cascade has swept of each table by the statement it is at (`Sweeping`), what it
  leaves behind when it is over (`Swept`), and the same for the replies of a comment (`Answered`); a row past
  its check inserts late.  `Trusted` is about what users were told: a toggle or view that is alone and about to
  act on, or tell, what it read is right about the like, and no toggle of its user overlaps it (`Inserting`,
  `Deleting`, `AsAnswered`, `Overlaps`).  Most steps are `Quiet` for the first or `Silent`
  for the second group; the others have a lemma each.  `OnlyOwnersDelete` compares a row before and
  after a step: `Entitled` carries the check of the owner, made in one statement, to the
  statements after it, and what the check compared never changes while its request is in flight.
- **Images.** The promises are about rows and images; requests carry them through the steps in between.
  A request holds a URL its thread has shown (`Underway`), which is still the one in the row unless an update
  got in between (`HoldsCurrent`).
- **UserAccounts.** Stale copies bring old passwords back, so `Chained` follows every password that
  is, or can become, the account's.
- **Listing.** The rows are sorted, and the offset of the next page parts them.  The rows behind it are
  older than all that was shown, until an insertion pushes rows behind it (`Once`); the rows before
  it were shown, until a deletion pulls rows before it (`Complete`).  `PagesSuffice` is that the number of
  pages, a division rounded up, is enough, and `PageProperties` what a page consists of.

Only model-checked is the liveness of the hub and the pumps (`ChatHub_live`), since the proof system
does not reason about fairness and ENABLED; that is why `OnlyTheHubBlocks` spells out when a process
can go on (`CanGoOn`).  The four violations are counterexamples of TLC.  What recursive definitions compute is
not proved; no module of this project declares a RECURSIVE operator.

## What is not modelled

- The HTTP server, routes but for what they let a client call, CORS, JSON, validation of fields, hashing,
  signatures.
- `Hub.StopCh`, on which only tests send; pings that succeed; frames `ReadPump` skips.
- The comment_count of a thread, the history of a chat, and other reads of one statement.
- The room key, which is the thread id as spelled in the URL: two spellings of a UUID are two rooms.
- `getClientIP`: an address is whatever it returns.
- The connection pool and the SQL of `AutoMigrate`; the values of the configuration.
- `NoOpUploadService`, whose answers are those of a store in which every call fails; the avatars of
  users, which are never deleted; image URLs that are not Cloudinary's.
- The generated documentation.

## Plan

In this order, most important first:

1. `ChatHub` with `ChatRoom`, runs and proofs – done.
2. `RateLimiter`, `Sessions`, runs and proofs – done.
3. `Forum`, `UserAccounts` (with proofs), `Listing` – done.
4. `ForumProofs` – done.
5. `Images`, `Server`, runs and proofs – done.
6. `ChatRoomProofs`, `ListingProofs` – done.
7. `Limiter` and its refinement; the delimitation of the findings (`OnlyTheHubBlocks`,
   `GhostsComeLate`, `ReuseMeansExpired`) and `OnlyOwnersDelete`, with proofs – done.
8. An abstract account, one password and one profile that change at once, and when `UserAccounts`
   implements it; the same for a row of likes and `Forum`.  Not begun.
9. The composition of `Forum` with `ChatHub`: a ReadPump saves a message and then broadcasts it, while
   the thread is deleted.  `Forum` has the INSERT and `ChatHub` the broadcast; together they would say
   that what a client was shown is in the table or the INSERT failed.  Not begun.
