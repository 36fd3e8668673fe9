# A TLA+ model of the ECOBNB API

The repository is a NestJS server for renting homes: users list properties, ask
to rent them, are approved by the owner, pay, and lose the property again when
the rented days are over. It keeps its documents in MongoDB, its short-lived
values (answers of GET handlers, one-time passwords, verification links, request
counters, mail jobs) in Redis, and images on disk. Paths below are relative to
`src/`; `rents.service.ts` is `src/domains/rents/rents.service.ts`.

Every handler is an `async` function on one event loop. Between two awaited
calls any other handler runs, no call is part of a database transaction
(sessions are opened, transactions never started), and nothing rolls back when a
later call of a handler fails. That is what the models are about.

## Inventory

| Part | State | Operations | Hard because | Correct when |
| --- | --- | --- | --- | --- |
| Rents `domains/rents` | rents collection: property, occupant, duration, `status` | requestRent, approveRent, rejectRent, payingRent, payRent, cancelRent, cancelRentPayment, getRent, listRents | status is read, checked and written in separate calls; the write names the rent only, not the status it expects | nobody pays without the owner's approval; one payment at a time on a property; a receipt for every tenancy and a tenancy for every receipt |
| Rent reminder `rents.service.ts:229-285` | none of its own; reads rents, transactions, the clock | remindRentsJob, remindRent | acts only if a run falls into the right hour; one failure among many rents; rounding of dates | no rent expires early, every rent expires, its occupant was reminded |
| Transactions `domains/transactions` | transactions collection, append-only | createTransaction (from payRent), listTransactions, getTransaction | its one writer is the first of two writes of payRent | see Rents |
| Properties `domains/properties` | properties collection: owner, `active`, `hidden`, images | createProperty, updateProperty, removeProperty, updatePropertyImages, getProperty, listProperties | cached answers, images replaced while files move | a reader sees an update within the TTL; no image is lost |
| Users, profiles `domains/users`, `domains/profiles` | users collection: email (unique), `verified`, `hidden`, rights | createUser, setAdmin, updateUser/updateProfile, removeUser, sendVerification | document, cache entry, mail and file are written one after the other | no half-done update is hidden from its author |
| Login `domains/auth` | `AUTH_PASS:email` in Redis, five minutes | requestPassword, login, authenticate, decode | lifetime against use, two codes for one user | only the last code opens a session, for as long as it lives; nobody is refused a code without having one |
| Email verification `auth.service.ts:82-95`, `users.service.ts:123-139` | `VERIFY_USER:code` in Redis, one day | createUser, updateUser, sendVerification, verifyUser; setAdmin | links opened out of order; key deleted before the user is updated | no address without a link, no link spent for nothing |
| Response cache `redis-cache` | one Redis key for each path of a cached GET handler, TTL | RedisCacheInterceptor, RedisCacheClearInterceptor, get/set/del | cleared after the answer, without waiting, only on success; a slow GET stores what it read before the write | a stale answer lives no longer than the TTL |
| Request limiter `guards/limit-requests.guard.ts` | `LIMIT_REQUESTS:url`, five minutes | canActivate | read and stored in two calls | a bound on accepted requests |
| Mail and queue `mail`, `queue` | Bull jobs in Redis, 10 s delay | sendMail, producer, consumer | consumer does not wait for the mail | every queued mail is sent or retried |
| Storage `shared/storage.ts` | files | upload, move, cut, copy, base64ToFile, reset | fallback of move, answer before the fallback is done | a path in a document names a file |
| Jobs `jobs/jobs.service.ts` | cron jobs of the process | add, stop, clear | stopped jobs stay registered | unused: nothing registers a job |
| Database `database` | connection | transaction helper | abort is not awaited | unused: no caller |
| Notifications `domains/notifications` | notifications collection | listNotifications, getNotification; createNotification has no caller | listed page by page while it grows | as Listings |
| Listings of all domains | - | find, sort, limit, skip; the pages are cached | the collection changes between two pages, and a page may be older than the one before | no document is missed or met twice |
| Guards, filters, pipes, logger, OpenAPI | none | - | stateless | - |

Interactions: Rents calls Properties (`getProperty`, for `active` and `owner`),
Transactions, Users and Mail; Mail puts a job on the queue; all the GET handlers
with a cache key go through the response cache; the request for a login mail
passes the limiter; Users, Auth and the limiter share Redis; a profile change
checks the password of the login; the images of a property are moved by Storage.

The hazards of this code are listed, each at its line, in `PROJECT.json`, with
the properties that cover them.

## Modules

    RentDomain            users, properties, rent ids, the states of a rent
      RentLifecycle       what RentsService promises: each handler atomic
      Rents               what it does: each awaited call a step
        MCRents           one property, three rents, two requests at once
        MCRentsSerial     two properties, one request at a time on each
        Rents_proofs, RentsSerial_proofs
    Reminder              remindRentsJob and remindRent against the clock
      MCReminder
      Reminder_proofs
    ResponseCache         cached answers of users and properties, and their writers
      MCResponseCache
      ResponseCache_proofs
    RequestLimit          the number of requests for a url, and its lifetime
    MailQueue             a mail from the producer through Bull to the consumer
      Login               (extends both) requestPassword, login, authenticate, the guards
        MCLogin
        Login_proofs
    EmailVerification     registration, change of address, links, the default admin
      MCEmailVerification
      EmailVerification_proofs
    PropertyImages        uploads, the moves of their files, the list of images
      MCPropertyImages
      PropertyImages_proofs
    Pages                 the five listings, page by page, over the response cache
      MCPages
      Pages_proofs

### Rents

| Model | Code |
| --- | --- |
| `status[r]` | `status` of the document; `"NEW"` before `create` |
| `active[p]` | `active` of the property |
| `receipts[r]` | number of RENT transactions whose `item` is r |
| `granter[r]` | history: the user whose `approveRent` wrote last |
| `req[q]` | a handler between its first read and its answer: next call, rent, caller, and the status it read |
| `RequestRent` ... `CancelRentPayment`, `RemindRent` | the first reads of each handler with the checks made on them alone |
| `RequestPaid`, `RequestOpen`, `ApproveCheck`, `PayingCheck`, `RemindDue` | the searches that follow, and the checks in the order of the code |
| `*Write`, `RequestCreate`, `PayRecord`, `PaySettle`, `RemindExpire` | the writes |
| `UpdateProperty` | `updateProperty`, as far as `active` |
| `Fail(q)` | the next call rejects, or the process dies: the request is gone, what it wrote stays |

Abstractions. A request that its first reads refuse changes nothing and is a
stuttering step, so it has no action. Reading the owner and the occupant is one
step with reading the status because neither ever changes. In `payRent` the
transaction of the body is taken to name this rent (the code refuses others
before anything is written). `approveRent` and `payingRent` check the status
they read only *after* their search for a payment, which the model keeps.
`getProperty` does not look at `hidden`, so a removed property can still be
rented; the model has no `hidden` for that reason. Whether `remindRent` finds a
rent due is open in `RemindDue`; Reminder has the clock.

`RentLifecycle` has one atomic action per handler, with every check evaluated in
the state the write happens in. `Rents` implements it (`ImplementsLifecycle`)
with `receipts` mapped to the receipts of *settled* payments (`Settled`),
because `payRent` stores the transaction one call before the status. This holds
under `SerialSpec`, in which the requests on one property take turns and no call
fails; requests on different properties still interleave. Without taking turns
it does not hold, and the properties of `Spec` say what is left.

### Reminder

`left[r]` is the time to the end of the rent in ticks, `next` the time to the
next run of the job, `job[r]` the call `remindRent` makes next for r. A run
(`RemindRentsJob`) starts a `Look` for every PAID rent at once, as `Promise.all`
does; the clock stops for the reads only. `Whole` is date-fns' difference in
whole units, rounded towards zero. What the model assumes is said at its head: a
run's reads are answered within a tick, all its calls before the next run. A day
is 24 hours (no change of summer time).

Nothing in the repository schedules the job; `Period` is the distance of runs a
cron expression would give. `PromiseOk` says whether the MongoDB driver accepts
the *promise* of a session which `remindRentsJob` hands on (line 230). The
driver is not part of the repository; the code of every other handler awaits the
session. Everything Reminder promises about expiry needs `PromiseOk`.

### ResponseCache

| Model | Code |
| --- | --- |
| `doc[d]` | whether the document exists and is `hidden` |
| `k` in `Keys` | the name of an entry: the kind of answer, the document, and, for a property, the url it was asked for under. The interceptor uses the path with its query string, so a property has an entry for each |
| `cache[k]` | the Redis entry of a GET handler: none, what the database would answer now (`current`), or made before a write to one of its documents (`old`) |
| `Lookup`, `Read`, `Store` | a miss in the interceptor, the handler's read, and the storing of the answer, which happens after it was sent and waits for nothing |
| `UpdateProfile`, `RemoveProfile`, `UpdateProperty`, `RemoveProperty`, then `Write` | the first reads of the handler, then its `findOneAndUpdate` |
| `Own`, `Elsewhere` | the entry under the url of the writing request, which is deleted by name, and those under other urls, which nothing deletes |
| `Answer`, `FindKeys`, `DelKey`, `Cleared` | clearing: by the interceptor after the answer for users (`@CacheClear`, both patterns side by side), by the service before the answer for properties; a pattern is KEYS, then DEL of each name found |
| `CreateUser`, `VerifyUser`, `CreateProperty`, `UpdatePropertyImages` | the writes that clear nothing |
| `Expire` | `CACHE_TTL` |
| `FailGet`, `FailPut` | a rejection (the mail, or an image that is not base64, after the document is stored) or the end of the process |
| `excused` | history: entries that were old when they were stored, or that a write passed over because it failed, clears nothing, or deletes a property's entry under another url |

Contents are abstracted to current and old because no handler looks at them. A
profile is kept under several names, too, and a listing page by page; a pattern
takes in all of these, so one entry stands for them. The cached answers about
transactions and notifications are not in this model: no handler clears them,
they just lapse; Pages has them.

### Login, RequestLimit, MailQueue

| Model | Code |
| --- | --- |
| `count[u]`, `window[u]` | `LIMIT_REQUESTS:url` for a url as it was written, and the ticks Redis keeps it |
| `AddressOf[u]` | the address the url names: several urls, differing in the query string, name one |
| `code[a]`, `life[a]` | `AUTH_PASS:email`, and the ticks Redis keeps it |
| `account[a]` | whether the database has a user of this address, `hidden` or not |
| `job[m]`, `stalls[m]` | the job in Bull: delayed, active, completed, failed, or stalled because its process died |
| `sending`, `inbox[m]` | the sendings the consumer has started and not awaited; how often the mail was delivered |
| `req[s]` | a request: its next call, its url up to the guard and its address after it, the number its guard has read, its password |
| `ReadCount`, `Refuse`, `Accept` | the two calls of `LimitRequestsGuard` |
| `FindByEmail`, `StorePassword`, `MailPassword` | the calls of `requestPassword` |
| `LoginUser`, `Authorize`, `Authenticate`, `ChangeProfile` | `login`; `AuthorizeGuard` and `AuthenticationGuard` before a profile change |
| `MailJob`, `Complete`, `Deliver`, `Reject` | the consumer returns at once; the mail goes, or is lost with nobody told |
| `Tick`, `Fail`, `Crash`, `Recover` | the lifetimes, a call that rejects, the death of the process, Bull giving a stalled job out once more |
| `missed`, `lost` | history: addresses whose last counted request made no password; mails a failure has lost |

The limiter counts urls, not addresses: `request.url` has the query string in
it, and Nest finds the same handler and the same address with any. What it
promises is therefore stated for a url (`AcceptedBounded`, `RefusalsEnd`), and
nothing bounds the requests of an address. That it locks nobody out
(`LimitedHasPassword`) holds for the address, whichever urls were counted.

Authenticate compares the password and leaves it in Redis, so it is good for
more than one login and for the profile changes that ask for it again, until it
lapses, another takes its place, or no user has its address any more. The mail
and the schema call it a one-time password (`templates/mails/otp.hbs:2`,
`auth.schema.ts:7`). The name is all the repository says about it, so there is
no property either way; the model does what `auth.service.ts:66-72` does.

Abstractions. Each password is a draw with a name of its own; that two random
numbers of five digits may be equal is left out. A mail is named after its
password, and a name is used again once nothing holds it any more (`Reuse`), so
the runs do not end after a few passwords. `findByEmail` asks Redis under a name
nothing is stored under, so it always asks the database. `GET /auth/:email` has
no cache key and its answer is not cached. Tokens are not in the model: signing
has no state.

### EmailVerification

| Model | Code |
| --- | --- |
| `address[u]`, `verified`, `hidden` | the fields of the user |
| `link[c]` | `VERIFY_USER:code`: unused, live, spent or lapsed, and the user and address it stands for |
| `req[s]` | a request: its next call, user, address and link |
| `CreateUser`, `UpdateUser`, `UpdateWrite` | `createUser` and `updateUser` up to the stored address |
| `Look`, `StoreLink`, `MailLink` | `sendVerification`, call by call |
| `VerifyUser`, `Spend`, `Confirm` | `verifyUser`: the link is read, deleted, and the address stored |
| `Boot`, `CreateAdmin`, `admins`, `up` | `setAdmin` of a server that starts |
| `RemoveUser`, `Lapse`, `Fail` | `removeUser`; the day is over; a rejection or the end of the process |
| `uses`, `proven`, `refused`, `gone` | history: what links have done, and why some did not |

The unique index of `email` is taken to be built before the first user is
stored; a removed user keeps the address, as in the code. The unique index of
`phone` is left out: it can only refuse more. `setAdmin` filters by `right`,
which the schema does not have, and mongoose 6 drops such a condition: any user
will do, which is why `Boot` asks for any user.

### PropertyImages

| Model | Code |
| --- | --- |
| `where[f]` | the file: in `temp`, whole in the property's directory, being copied, empty, part of a copy, or gone |
| `move[f]` | the promise of `Storage.move` |
| `images` | the list in the document |
| `req[s]` | an upload: receiving, about to find the property, moving, or answering |
| `Receive`, `TooMany`, `Invalid`, `Received` | multer and the validators |
| `Find`, `Write`, `Answer` | `updatePropertyImages` |
| `Rename`, `Cut`, `MoveFails`, `Copied`, `CopyFails` | `Storage.move`, its fallback, and the streams of `cut` |
| `Vanish`, `Fail`, `FailWritten`, `Crash` | temp is cleaned; the database rejects, before or after the write; the process dies |
| `listed`, `told`, `unheard`, `left`, `spoilt` | history |

Every file has a name drawn at random, so uploads for several properties share
nothing and there is one property. The fallback after `ENOENT` runs on after
`move` has resolved (`storage.ts:37`): the request goes on while the copy is
made, and an error of the streams reaches nobody.

### Pages

`kind`, `sort` and `maxDate` are the query; `list` the documents it selects,
`created` their `createdAt`; `cache[p]` the stored answer for a page; `at`,
`offset` and `seen` the reader. `Sorted` is the set of orders the database may
return (equal dates come in any), `Cut` is `skip` and `limit`. The other filters
(text, amount, item, occupant, property) only decide which documents `list` has.
Listings that differ in nothing the model has are one kind: users and properties
(documents can leave; no dates), transactions and notifications (nothing leaves;
dates), rents (no cache key). A document gets its date when it is made (`Make`)
and is in the collection later (`Join`).

## Runs

| Run | Checks | Result |
| --- | --- | --- |
| `rents_concurrent` | `Spec` with every interleaving of two requests and every failure: `TypeOK`, `PaidWasGranted`, `ReceiptBeforePaid`, `PaymentOverlapBounded`, `OpenRequestsBounded`, `WritesFollowReads` | hold |
| `rents_serial` | `SerialSpec`: `OnePaymentPerProperty`, `OneOpenRequest`, `OneReceiptPerTenancy`, the refinement `ImplementsLifecycle`, and `ReceiptIsHonoured` (a recorded payment ends in a tenancy) | hold |
| `reminder` | `TypeOK`, `NeverExpiresEarly`, `RemindedBeforeEnd`, `TenancyEnds` | hold |
| `cache_users` | `TypeOK`, `OldHasReason` with two users, two GETs, two writers | hold |
| `cache_properties` | `OldHasReason`, `SettlesCurrent` with one property under two urls, two GETs, two writers | hold |
| `login` | `TypeOK`, `AcceptedBounded`, `LimitedHasPassword`, `PasswordIsMailed`, `TwiceOnlyAfterCrash`, `RefusalsEnd`, with two urls of one address | hold |
| `verification` | `TypeOK`, `UnprovenHasLink`, `SpentLinkConfirms`, `LinkUsesBounded`, `AdminFirst` | hold |
| `property_images` | `TypeOK`, `ListedIsThere`, `ReplacedIsTold`, `FilesAccounted`, `UploadEnds` | hold |
| `pages` | `TypeOK`, `NothingMissed`, `NothingTwice`, `PastIsExact` | hold |
| `pay_race` | `PaidFromPaying` under `Spec` | violated: a payment and the cancellation of the payment overlap |
| `exclusive_tenancy` | `ExclusiveTenancy` under `SerialSpec` | violated with no overlap at all: request, request, approve, approve, pay, pay |
| `promise_session` | `TenancyEnds` with `PromiseOk = FALSE` | violated: no rent ever expires |

The last three are findings; `PROJECT.json` quotes the lines they contradict.

Many properties name exceptions ("unless ..." in their comments), and each
exception is something the code does. The limiter lets 2 requests for a url
through where two overlap and the limit is 1 (`Burst`; 5 with a limit of 2, and
far more with a larger one or more at once), because both may read the number
before either stores it, and a slow one even puts a larger number back. The
entry of a property under another query string than that of the request that
changed it stays old until it lapses. A stored password may be lost on the way,
for the consumer does not wait for the mail. A link whose address another user
took meanwhile is spent and refused. An image in the list may be empty or
broken, and nobody is told. A reader of pages misses documents when one is
hidden, and meets some twice in the default order when one is created. A
property with such an exception is listed in `PROJECT.json` only under the
hazards it does exclude; a hazard the exception lets happen is listed with a
note instead.

Bounds. `rents_concurrent` has three rents of one property and one occupant, so
all handlers meet on the same documents, and two requests at once. Two are
enough for any stale write to land on another's; with three rents the bounds of
`PaymentOverlapBounded` and `OpenRequestsBounded` (at most as many as requests)
could be exceeded, and they are when a guard is dropped. `MaxReceipts` stops a
second payment of a rent from starting after one receipt (two in the serial run,
where `OneReceiptPerTenancy` would see the second). `rents_serial` has two
properties with different owners, and two rents of the first by the occupant who
also rents the second, so that all the guards have something to refuse and the
turns on one property interleave with those on another (`exclusive_tenancy`
gives the second rent to somebody else). `reminder` has days of four hours,
half-hour ticks and a run every three ticks, the longest period below the two
hours (four ticks) in which a rent is found due; one rent of one day and one of
two. With a period of two hours or more runs can miss that window, and nothing
makes up for it. A rent of one day is reminded only if a run falls on the very
moment of payment, hence the two days in `RemindedBeforeEnd`.

`cache_users` (1.7 million states) has two users, so that a listing is made from
several. `cache_properties` (1.2 million) has one property under two urls, so
that an update deletes one of its entries and passes the other over, and the
listing. Both have two GETs and two writers, so that one's clearing meets the
other's write and a slow GET meets both; the two kinds share nothing but the
interceptors' code. `Asked` keeps the GETs to entries that have documents.

`login` (3.7 million states) has one address, because addresses share nothing
but the queue and the requests at a time; two urls that name it, two requests
and two mails at a time, a lifetime of two ticks and a limit of 1. With two
requests the guard's read and store come apart and the bound `Burst` is reached;
with two urls a request that is refused under one may have been mailed its
password under the other. A larger limit, at which a slow request puts a larger
number back (`docker-compose.test.yml:32` has 3), is too long to run with two
urls; `EachUrlIsBounded` proves the bound for any. `verification` (0.5 million)
has two users who want the same two addresses, two links and two slots, enough
for links to be opened out of order, twice at once, and after another user took
the address; a run with three links held as well but is too long to keep.
`property_images` (0.1 million) has three files and two uploads of two at most,
so that one is refused for too many and one of two moves can fail. `pages` (0.5
million) has three documents, pages of two and three dates: a full page, one
that is not, and documents that shift from one to the other.

Symmetry is used in `rents_concurrent` (slots, rents), `cache_users` (slots,
users), `login` (slots, mails, urls), `verification` and `pages` (see their MC
modules), which check no liveness property, and in no other run.

Fairness. `Spec` of Rents has none. `SerialSpec` assumes that awaited calls are
answered (`WF` of the continuation of each slot), which is what its "no failure"
says; nobody is assumed to make a request. Reminder assumes that time passes,
that the scheduler runs the job, and that the calls are answered. ResponseCache
assumes only that entries lapse, because each is stored with `CACHE_TTL`; no
request is assumed to finish. PropertyImages assumes that the event loop, the
database and the file system answer (`WF` of `Handle` for each slot, of `Move`
and `Copy` for each file); a client need not finish what it sends. Login,
EmailVerification and Pages have none: what they promise about ends is stated as
what a step may not do (`RefusalsEnd`).

Every property has a mutant in `PROJECT.json`: an operator marked "Slip" in the
module, put in the place of a definition, makes TLC find the property violated.

## Proofs

All theorems hold for any users, properties, rents, requests and bounds that
satisfy the assumptions of the modules: `DomainAssumption` and `RentsAssumption`
(finitely many rents and requests, `None` not a user or rent),
`ReminderAssumption`, `CacheAssumption` and `AskedAssumption` (ids of users and
properties differ), `LimitAssumption` (a limit and a lifetime, not zero),
`AddressAssumption` (every url names an address),
`SlotsAssumption` (finitely many requests at a time), `NoneAssumption`,
`VerificationAssumption` (`None` is no user, address or code; finitely many
slots), `ImagesAssumption` (multer takes at least one file) and
`PagesAssumption` (finitely many documents, at least one to a page, `None` is no
answer). Every invariant and every safety property of a step that the passing
runs check is a theorem.

- `Rents_proofs`: `TypeCorrect`, and one inductive invariant from which
  `PaymentsAreGranted`, `ReceiptsPrecedeTenancies` and `WritesAreReadBased`
  follow. `PaidWasGranted` is not inductive: a handler writes on the word of a
  status it read earlier. The invariant therefore says of every request in
  flight what its next write needs (`Committed`: it has read a status the move
  is allowed from), and that whoever has ever read APPROVED or later on a rent
  finds it granted and whoever read PAID finds a receipt, facts that no later
  write can undo. `PaymentOverlap` and `OpenRequestOverlap` have an invariant of
  their own: payments under way, and requests about to start one, together
  number at most the slots, for a request goes on to the write only if at that
  moment there is no payment, so the sum starts from the requests alone and each
  write gives up its slot for one payment.
- `RentsSerial_proofs`: `SerialRefinement` (`SerialSpec` implements
  `Lifecycle!Spec`) and `SerialPromises`. The invariant is that with turns taken
  what a request in flight has read is still so (`Current`); then each write
  maps to the atomic action and each other step to a stutter. The promises
  follow for the atomic specification and carry over. So does `SerialMoves`:
  every move is allowed from the status the rent then has. It includes
  `PaidFromPaying`, which `pay_race` refutes when requests overlap: taking turns
  is what the handlers lack. `NoReceiptForgotten`: a recorded payment has its
  tenancy, or its request is one call from storing it.
- `Reminder_proofs`: `ReminderTypeCorrect`; `NotExpiredEarly`, from the
  invariant that a rent that is expired, or decided to be, has less than an hour
  left; and `RemindedInTime`, for a job that runs at least once a day (`Period
  <= Day`). Its invariant (`ToCome`) says that a tenant not yet reminded has a
  run to come early enough: at the next run at least two days less a period are
  left. `NoTenancyOverlooked` is the part of `TenancyEnds` that is about states:
  with runs less than two hours apart, a rent that is an hour past its end is
  expired, or found due, or its occupant is removed (`RunToCome`: the next run
  comes within the hour after the end). With two hours it is false, as TLC shows
  for the instance of `reminder` with a period of four ticks.
- `ResponseCache_proofs`: `CacheTypeCorrect` and `OldAnswersExplained`. The
  property is inductive with the types: whoever makes an entry old will reach
  it, or it is a property's under another url and so excused, and nobody stops
  reaching it before it is gone or excused. `OnlyWritesOutdate` is the part of
  `SettlesCurrent` that is about steps: while nothing is written, a name with
  nothing old in the cache or on the way to it stays that way.
- `Login_proofs`: eight theorems, for any limit, lifetime, urls, addresses,
  requests and mails. `LimitedHasPassword` is inductive with the types, since
  number and password get the same lifetime and one call lies between them.
  `PasswordIsMailed` needs to know that a job that has been given out left
  something of its mail: a sending, a delivery or a loss (`Traced`); and that a
  name in use is not drawn again. `EachUrlIsBounded` bounds what the limiter
  lets through for a url. The stored number goes up and down, so it measures
  nothing; what only moves one way is the *profile* of a url: for each number
  below the limit, how many requests under way hold it or a smaller one, and for
  the numbers not yet stored, how many could. Whatever is let through gives up
  its own place in the profile and opens only places above it, which puts the
  profile further on in a lexicographic order (`Before`); nothing takes it back
  but the end of the lifetime. So no more are let through than there are
  profiles before the last one, which is `Burst` (`MovesOn`). `BurstIsPascals`
  says how many that is: one less than the binomial coefficient of n + k over k
  for n requests at a time and a limit of k. TLC compares the two for small
  numbers when `login` starts (`BurstIsBinomial` in MCLogin). With one request
  at a time the limit is exact (`EachUrlIsExactInTurns`).
- `EmailVerification_proofs`: for each user and address, `Covered` (there is a
  live link, a request that will make or use one, or a reason); for each link,
  `Bounded` (its uses and the requests that hold it together are at most the
  slots, and it has no use before it is spent); for the servers, `OneAdmin`. All
  of them rest on `Linked`: a request that holds a link has the user and the
  address the link stands for.
- `PropertyImages_proofs`: one invariant with a part for the files (`FileInv`),
  one for the requests (`SlotInv`), one that no two requests hold the same file
  (`Disjoint`) and one for the list (`ListInv`); `FilesFit` adds that a request
  has no more files than multer takes. `UploadsWaitForMoves`: an upload never
  waits for a move that has failed or was never begun.
- `Pages_proofs`: for any documents, dates, page size and order among equal
  dates. A sorted sequence is handled through one fact: the place of a document
  is the number of documents ahead of it (`Place`, counted with a bijection), so
  the page it is on is known without the sequence (`PageByPlace`), and documents
  that join or leave move it by how they change that number (`AheadGrows`,
  `AheadShrinks`). From there the invariants are about numbers: what the reader
  began with is in `seen` or no earlier than the next page (`ToCome`, for
  `NothingMissed`); what it has seen is before that page (`Done`, for
  `NothingTwice`); and up to a past date nothing joins or leaves but what is
  late (`Settled`, for `PastIsExact`).

Only model-checked: the liveness properties (`ReceiptIsHonoured`, `TenancyEnds`,
`SettlesCurrent`, `UploadEnds`), for the prover has no rules for fairness here.
The safety part of each is a theorem (`NoReceiptForgotten`,
`NoTenancyOverlooked`, `OnlyWritesOutdate`, `UploadsWaitForMoves`): until the
promised end there is always a step left that leads to it, or, for the cache, no
step but a write that leads away; that the steps are taken is what the runs
add. That `Burst` is the binomial coefficient itself needs induction over the
rule that is proved, which is out of the prover's reach.

## Not modelled

- `JobsService` and `DatabaseService`: nothing in the repository calls them, so
  there is no use to be faithful to. What the reminder needs of a scheduler is
  `Period`.
- `RolesGuard`: no handler uses it.
- `base64ToFile`: `updateUser` writes the avatar of a user to one file and
  answers its path; the schema has no field for it and nothing reads it. That
  the write can fail after the document is stored is `FailPut` of ResponseCache.
  `Storage.copy` has no caller, `reset` runs in tests only.
- `getRent`, `getTransaction` and `getNotification` as answers of their own:
  each reads one document and renders it.
- Error filters, logging, validation pipes, OpenAPI and the wiring of modules:
  no state. Where a filter decides what a caller learns (a duplicate key ends in
  409) the handler's action says so.
- The provider of mails, the MongoDB driver, Redis, Bull and multer, except for
  what the models assume of them; those definitions are marked external.

## Plan

Done: RentDomain, RentLifecycle, Rents; Reminder; ResponseCache; RequestLimit,
MailQueue and Login; EmailVerification; PropertyImages; Pages; with the theorems
above. Left:

1. A bound on how old a cached answer can be (the TTL and the longest GET),
   which needs a clock in ResponseCache.
2. Liveness of the mail queue, with a fairness for Bull's worker, on an instance
   smaller than that of `login`.
3. JobsService and DatabaseService, when something calls them.
