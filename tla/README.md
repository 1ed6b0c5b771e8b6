# EarnHub: a verification project

EarnHub is a NestJS backend (`src/src`): users complete daily tasks, admins
review them, and users collect rewards, claim a daily profit and withdraw
money. MongoDB holds the data, Redis locks, counters and caches, S3 the files.
This directory holds TLA+ models of its logic, the TLC configurations that
check them and TLAPS proofs about them.

Any number of instances serve requests at once, and every handler is an
`async` function: between two `await`s of one request, any number of other
requests run. Hardly any test exists (a health check and an e2e stub), so what
happens between two awaits is where this code can go wrong, and what these
models are about.

## The system

### Components, their state and their operations

| Component (source under `src/src/`) | State it keeps | Operations |
|---|---|---|
| Wallet (`modules/wallet/services/wallet.service.ts`) | `users.balance`, `withdrawals`, `walletTransactions`, Redis `profit_claimed:<id>` | `claimProfit`, `requestWithdrawal`, `approveWithdrawal`, `rejectWithdrawal`, reads |
| Admin credit (`modules/user/services/user.service.ts`) | `users.balance`, `walletTransactions` | `creditUser` |
| Task review (`modules/task/services/task.service.ts`) | `tasks`, `userTaskCompletions`, `users.balance`, `walletTransactions`, `activityLogs`, Redis `task_submission_count:<id>:<day>` | `submitTask`, `approveSubmission`, `rejectSubmission`, `createTask`, `updateTask`, `softDeleteTask`, `hasCompletedAllActiveTasksToday` |
| Referrals (`modules/referral/services/referral.service.ts`) | `referrals`, `users.balance`, `walletTransactions` | `handleSignupReferral`, reads |
| Auth (`modules/auth/services/auth.service.ts`) | `users.passwordHash`, `users.hashedRefreshToken`, Redis `blacklist:<jti>`, `otp:<email>` | `register`, `login`, `refreshToken`, `logout`, `forgotPassword`, `resetPassword`; `JwtStrategy.validate` reads |
| Redis adapter (`redis/redis.service.ts`) | the connection's readiness; every key above | `get`, `set`, `del`, `incrementWithExpiry`, `setIfNotExists` |
| Rate limit (`common/middleware/rate-limit.middleware.ts`) | Redis `ratelimit:<ip>` | one count per request |
| Caches (`user.service.ts`, `task.service.ts`) | Redis `users:profile:<id>`, `task_list_cache:<query>` | `getProfile`, `updateProfile`, `listTasks` |
| Uploads (`modules/upload`, `s3/s3.service.ts`) | file metadata, S3 objects | `uploadFile`, `deleteFile` |
| Settings, dashboard (`modules/admin/services/admin.service.ts`) | the `adminSettings` singleton | `getSettings`, `updateSettings`, reads |
| User administration | `users.isActive`, `isBanned`, new users | `updateUserStatus`, `provisionUser` |
| Pagination (`database/helpers/pagination.helper.ts`) | none | `paginate`: a page and the total, two queries |
| Plumbing: guards, filters, interceptors, config, DTOs | none | |

### How they interact

The components meet in three places. The **user document** is written by the
wallet, by `creditUser`, by task review and by the referrals: the wallet's four
methods inside a MongoDB transaction, everybody else with a plain `save()`.
Mongoose sends the changed paths of a document as absolute values, and all
schemas say `versionKey: false`, so a save outside a transaction overwrites
what came after its read without anybody noticing. **Redis** carries the lock
of the daily claim, the counters and the caches; it may be away, and then the
adapter answers `null`/`false` or does nothing. The **gate**
`hasCompletedAllActiveTasksToday` lets task review decide whether the wallet's
claim may start. Calls are plain awaited method calls; there are no queues,
timers or background jobs.

### What is hard here, and what makes each component correct

PROJECT.json lists each hazard at its line. By component:

- *Wallet*: no overdraft; every cent is accounted for; the ledger agrees with
  the balance; one claim in flight per user; a withdrawal ends approved or
  refunded, never both. Threatened by interleaved transactions, by the
  unchecked save of `creditUser` and the unchecked amount it saves, by approvals
  in any status, by an unknown commit outcome.
- *Task review*: one submission per user, task and day; limits on
  submissions and resubmissions; each approval pays once; the gate lets nobody
  through with an active task undone. Threatened by check-then-save, by four
  writes with no transaction, by counts read at different moments.
- *Daily profit*: at most one profit a day, no day lost. Threatened by crashes
  between lock and payment, by Redis being away, by a rolling 24-hour key
  against a calendar day.
- *Referrals, registration*: one bonus per referred user, each milestone once,
  no half-registered user. Threatened by count-then-insert and by failures in
  the middle.
- *Sessions, password reset*: a revoked token stays revoked, an OTP works once.
  Threatened by check-then-act, by late writes, and by a logout that asks whose
  token it is given as little as whether it is genuine.
- *Redis adapter, rate limit*: a counter always expires. Threatened by INCR
  and EXPIRE being two commands.
- *Caches*: what is served is out of date only for a known cause, and not for
  good. Threatened by read-then-set and by writes that leave the cache alone.
- *Uploads, proofs*: every document has its object. Threatened by failures
  between the two stores.
- *Settings*: one document, the latest values in force. Threatened by
  find-then-create and by saves that send differences.
- *Pagination*: a walk through the pages shows everything once. Threatened by
  documents that come and go meanwhile, and come back at their old place.
- *Accounts*: every administrator goes back to the founder; a barred account stays
  out. Threatened by sign-ins and refreshes under way.

## Plan

| # | Modules | What for | Status |
|---|---|---|---|
| 1 | `UserDocument`, `Wallet`, `MCWallet` | the money | done |
| 2 | `WalletProofs` | its properties for every number of users and requests | done |
| 3 | `TaskReview`, `MCTaskReview` | submissions, reviews, rewards, the gate | done |
| 4 | `TaskReviewProofs` | types, limits, `OneSubmissionPerDay`, `PaidIsApproved`; over `UserDocumentProofs`, the lemmas on `UserDocument` it shares with rows 2 and 13 | done |
| 5 | `DailyProfit` | the claim over days: key with TTL, crash, Redis away, lost reply; liveness: the key is released | done |
| 6 | `Referral`, `MCReferral` | registration and bonuses over `UserDocument`, milestones | done |
| 7 | `Sessions`, `PasswordReset` and their MC modules | tokens, blacklist, one-time passwords | done |
| 7a | `SessionsProofs` | the sessions' properties for every number of users, requests and tokens, every lifetime and clock; the one-time passwords', and that resets leave the former as they were | done |
| 8 | `RateLimit` | INCR and EXPIRE as two commands under the middleware that counts; liveness: a counter is gone in the end | done |
| 9 | `Caches`, `Files`, `Settings`, `Listing`, `Accounts`, and `MCPlatform` over these and rows 5 and 8 | the small components, with their overlaps and failures | done |
| 10 | `Settlement` (abstract) and its refinement by `Wallet` | each operation of the wallet as one decision, and where the code departs from it | done |
| 11 | `SettlementProofs` | `Wallet` implements `Settlement`, for every number of users and requests; builds on `WalletProofs` | done |
| 12 | `PlatformProofs` | every safety property of the `platform` run | done |
| 13 | `ReferralProofs` | types, bonuses and milestones, and that rows and balance agree | done |
| 14 | `Earnings`, `EarningsProofs` | all the writers of one balance at once: everything earned is pending, approved or held; `Wallet`, `TaskReview` and `Referral` each implement it, which `SettlementProofs`, `TaskReviewProofs` and `ReferralProofs` prove | done |

What is left: rewards, deadlines and settings that change while they are used,
task review over several days, and one theorem that the three services running
side by side implement `Earnings`, which is an argument now (see Proofs).

## Modules

### UserDocument

The `users` collection as the services use it: `account` is what is stored,
`copy[r]` the document request `r` has in memory. `Find`, `Save` and `Commit`
are what Mongoose and MongoDB do for `findById`, `save()` and
`save({ session })` followed by the commit. `stale` marks the paths of a copy
that others have written since: the storage engine knows this (its write
conflict), the code does not. `clobbered` is a history variable: the users on
whom a plain save has overwritten somebody's update; properties that the lost
update breaks are stated for the others, and the loss itself is a finding.

A transaction is two steps: its reads at its snapshot, and its writes with the
commit. That is what snapshot isolation with first-committer-wins gives; a
conflict is met at the write in MongoDB and at the commit here, which makes no
difference to what anybody can see. Nothing is refused when a save changes
nothing (a profit of 0 is not sent), as in Mongoose.

### Wallet

| Code | Actions |
|---|---|
| `claimProfit` | `ClaimStart` (SET NX), `ClaimFind`, `ClaimCommit`, `ClaimReplyLost` (committed, but the driver throws), `ClaimRetry` (write conflict), `ClaimAbort`, `ClaimUndo` (catch: DEL, or nothing while Redis is away), `ClaimKeyExpires` |
| `requestWithdrawal` | `WithdrawFind`, `WithdrawCommit`, `WithdrawRetry` |
| `approveWithdrawal` | `ApproveWithdrawal` |
| `rejectWithdrawal` | `RejectFind`, `RejectCommit`, `RejectRetry` |
| `creditUser` | `CreditFind`, `CreditSave`, `CreditLog` |
| crash, or an await no catch covers | `Drop` |

`withdrawal`, `ledger`, `claimKey` are the collections and the Redis key;
`job[r]` is the local state of a request. The ledger is kept as a net amount
and the latest row per user. `held`, `unlogged`, `refunded` and `docked` are
history variables; `SettlesAtOnce` and the second half of `Conservation`,
`HeldByWithdrawals`, tie them to the withdrawal documents, and `KeepsEarnings`
says which writer of `Earnings` each step is.

A credit may be of any amount: the route takes it from the body with no DTO, and
`creditUser` adds it as it is (that the body holds a number is assumed). The rate
of the profit is of any sign too, since `updateSettings` takes any document, and
`ProfitOf` rounds as `toFixed` does on both sides of zero. So a balance may be
negative, and `docked` names the users who were given less than nothing.
`NoOverdraft` says what is left, which is what the check in `requestWithdrawal`
is for: no withdrawal takes a balance below zero, whatever was credited before
it and while it was under way; and nothing else does for a user who is not
`docked`.

### TaskReview

| Code | Actions |
|---|---|
| `submitTask` | `SubmitFind`, `SubmitCount` (INCR, or Redis away), `SubmitCreate` (insert under the unique index) or `SubmitAgain` (save of what was read) |
| `approveSubmission` | `ApproveFind`, `ApproveSave`, `ApproveFindUser`, `ApprovePay`, `ApproveLog`, `ApproveAudit` |
| `rejectSubmission` | `Reject`, `RejectAudit` |
| `createTask`, `updateTask`, `softDeleteTask` | `SetActive` |
| `hasCompletedAllActiveTasksToday` | `GateStart`, then `GateActive` and `GateCompleted` in any order, `GateReply` |
| refusal of the proof, failure, crash | `Drop` |

One UTC day; no request spans midnight here (that is `DailyProfit`'s subject).
`RewardsReconcile` is about all users and counts what is still on its way: what
was paid has its row or is in `unlogged`, and the approvals about to write their
row (`RowsToCome`) are a part of that.

### DailyProfit

| Code | Actions |
|---|---|
| a user has today's tasks approved | `Complete` |
| `claimProfit` | `ClaimGate`, `ClaimLock` (SET NX, or Redis away), `ClaimBegin` (settings, session), `ClaimPay` (committed, the reply arrives or is lost), `ClaimAbort`, `ClaimUndo` (DEL, or nothing while Redis is away), `ClaimThrow` (an await outside the `try`, or DEL itself) |
| `RedisService`: `error`, `end`, `close` | `LoseRedis`; with `retryStrategy` answering `null`, only `Restart` undoes it |
| crash and start of an instance | `Restart` |
| the clock, the TTL | `Tick` |

`key[u]` is the time the key has left, `hour` that since midnight; both run
over the same `Day`, which the code spells 86400 seconds and one UTC date. The
gate's answer may be a day old when the lock is tried: a request waits between
any two steps, through midnight too. The transaction is one step here, with
its three outcomes. `age`, `blocked` and `doubted` are history variables.
`OneProfitADay` says what the key is for, with its one exception: a payment
whose commit reply was lost frees the key, and the next claim pays again
(`doubted`). `KeyHasCause` lists everything that may lock a user out, and
`KeyIsReleased` that none of it lasts: a refused claim does not renew the key.

### Referral

| Code | Actions |
|---|---|
| `register` | `RegisterFind` (the e-mail is free, the code is somebody's), `RegisterCreate` (insert under the unique index) |
| `handleSignupReferral` | `SignupFind`, `SignupPay`, `SignupLog`, `Count`, and at a milestone `MilestonePay`, `MilestoneLog`; `SignupInsert` |
| failure, refused insert, crash | `Drop` |

`Users` are the referrers, whose documents come from `UserDocument`; a user who
registers is an e-mail, and `referredBy[e]` says whether that user exists and
who referred it. `referral` is the collection. What a request still has to
write is in `unlogged`; `raced` and `lost` name the referrers and e-mails for
which the exact properties are not promised, because sign-ups overlapped or
broke off. They overlap in what the code does, not in what it says: no doc or
test speaks of milestones under concurrency, so the loss is a hazard, not a
finding.

Over HTTP the validation pipe (`whitelist`, `forbidNonWhitelisted`) may refuse a
`referralCode`, as the field of the DTO has no validator; then the module has
more behaviours than the running program, never fewer. Bonuses are assumed not
to be below zero, which is how the schema's defaults are and what nothing checks:
`updateSettings` would take others.

`BonusesReconcile` is to the bonuses what `RewardsReconcile` is to the rewards,
and `StatsAreHonest` compares what `getStats` adds up with what was paid.

### Earnings

Four services write the balance in a user document: the wallet and the refund
in transactions, `creditUser`, `approveSubmission` and `handleSignupReferral` in
plain saves. `Earnings` has all of them over one `UserDocument`, each reduced to
what it does to the document it has read:

| Code | Actions |
|---|---|
| `findById`; the end of a request or of its transaction | `Load`, `Forget` |
| `claimProfit` | `Profit`, of the approved balance that was read |
| `creditUser` | `Credit` |
| `approveSubmission`, both bonuses of `handleSignupReferral` | `Earn` |
| `requestWithdrawal` | `Withdraw`, no more than the balance that was read |
| `rejectWithdrawal` | `Refund`, no more than withdrawals hold |

`EarningsAddUp`, `DebitsCovered` (a withdrawal leaves no balance below zero) and
`NothingNegative` (nor is one of a user who was never given less than nothing, by
a credit, a profit or a reward of whatever sign) are what it promises. `Wallet`,
`TaskReview` and `Referral` implement it (`KeepsEarnings`) under the mapping
`Writers == INSTANCE Earnings WITH ...`, which gives each its own amounts: the
wallet has no `Bonuses`, the other two have nothing else and hold nothing. The
guards of `Withdraw` and `Refund` are what each operation must have made sure
of by the time it writes: that is the point of the mapping, since the code
checks the balance, and the status of the withdrawal, some steps earlier. TLC
checks the mapping for the wallet, whose guards are the interesting ones; for
the other two, and for what `Earnings` itself promises, there are theorems.

### Sessions

| Code | Actions |
|---|---|
| `login`, the end of `register` | `Login`, `Store`, `Reply` |
| `refreshToken` | `RefreshCheck` (verify, blacklist), `RefreshMatch` (the user's hash), `RefreshRevoke` (blacklist the old pair, sign the new one), `Store`, `Reply` |
| `JwtStrategy.validate` and a protected route | `Authenticate`, `Serve` |
| `logout` | `Authenticate`, `LogoutRevoke`, `LogoutClear` |
| failure, crash | `Drop` |
| the clock | `Tick` |

A pair is the access and the refresh token signed with one `jti`. `hashed[u]`
is `users.hashedRefreshToken`, named by the pair it was made from.
`compareValues` is what bcrypt makes of two JWTs: it reads 72 bytes, and a JWT
spends them on its header and the user's id, so `Matches` compares users. (Two
users are never compared: the hash is that of the token's `sub`.) Each Redis
command asks `Answers` whether Redis is there; when it is not, a pair is not
blacklisted and none is found to be. `revoked`, `dropped`, `broken`, `foreign`,
`exchanged` and `loggedOut` are history variables, of which no action's guard
speaks. Merged into one step: verification and the blacklist look-up (the
clock may not tick between them, which is less than a tick), the two reads of
the user in `refreshToken` (only the second is used), and the write of the
blacklist with the signing that follows it (signing touches nothing shared).
`logout` decodes the token in its body and neither verifies it nor asks whose it
is: it revokes whatever pair the token names, one's own or another user's
(`foreign`), expired or not, or none. `StoredIsLive` therefore promises a user a
stored pair that is accepted only as far as the user's own requests go; nothing
in the code promises more.

### PasswordReset

| Code | Actions |
|---|---|
| `forgotPassword` | `ForgotSet`, `ForgotMail` |
| `resetPassword` | `ResetCheck`, `ResetWrite`, `ResetDel` |
| failure, crash | `ResetDrop` |

It EXTENDS `Sessions` and takes its steps beside those of the sessions, on the
same clock, the same Redis and the same `hashed`. A one-time password is a
model value that is drawn once: the one chance in 900000 that two are alike is
left out, and a wrong guess is refused with no effect.

### Settlement

What the wallet promises, without requests, copies, transactions or ledger: a
`balance` per user, a `deal` per withdrawal (open, taken, returned), and one
step for each decision: `Profit`, `Credit`, `Take` (only what the balance has),
`Return` (once, to the owner, in full). `Wallet` implements it under the
mapping `Promise == INSTANCE Settlement WITH ...`: the balance is the stored
approved balance; a withdrawal is taken while it is held and returned once it
is refunded (`DealOf`); and `overwritten` is `clobbered`. So an operation of
many steps, with its retries and lost replies, looks like one decision or none.
The code departs from the promise where `creditUser` writes back a balance
others have changed since; the abstract specification has a step with that
name, `Overwrite`. From then on it promises nothing about the balance of *that*
user, but still everything about the withdrawals and the other users.

### RateLimit

| Code | Actions |
|---|---|
| `RateLimitMiddleware.use` | `RateArrive`, and `Verdict` on the answer |
| `incrementWithExpiry` | `RateCount` (INCR), `RateExpire` (EXPIRE, for whoever got 1), `RateUncounted` (Redis away: `null`, which passes) |
| a command fails, its answer is lost, a crash | `RateBreak`, before or after Redis carried it out |
| `RedisService`: connection lost, restart | `RateConnection` |
| the clock, the TTL | `RateTick` |

One address, whose `count` is shared by both kinds of route (`AuthMax`,
`OtherMax`). `passed` counts what this counter has let through, `severed` says
that whoever began it broke off before EXPIRE. The counter of daily submissions
is the same code; `TaskReview` has its limit.

### Caches

| Code | Actions |
|---|---|
| `getProfile`, `listTasks` | `GetProfile`, `ListTasks` (both `LookUp`), `Load` (from MongoDB), `Put` (SET with the TTL) |
| `updateProfile` | `UpdateProfile` (findByIdAndUpdate), `Put` |
| `updateUserStatus`, balance changes | `OutdateProfile` |
| `createTask`, `updateTask`, `softDeleteTask` | `OutdateLists` |
| Redis away at SET, failure, crash | `DropVisit` |
| the clock, the TTL | `CacheTick` |

A document, or the answer to a query, is a `version`. `overtaken` are the
requests that hold one that was superseded meanwhile, `excused` the keys whose
entry may be out of date and why that is no surprise. What is not excused:
an entry must never be older than the write its own request has made.

### Files

| Code | Actions |
|---|---|
| `UploadService.uploadFile` | `Upload` (`PutObject`), `UploadCreate` |
| `UploadService.deleteFile` | `RemoveFile` (the document), `RemoveObject` |
| `submitTask` | `SubmitProof` (`PutObject`, or a text), `StoreProof` (insert under the unique index, or save of the document found) |
| `approveSubmission`, `rejectSubmission` | `Review` |
| failure before or after the store carried it out, crash | `FileBreak` |
| `S3Service` with and without credentials | `Redeploy` |

`object` is the bucket, `metadata` and `proof` are the two collections that
name its objects. `again` is `resubmissionCount >= 1`. What `submitTask` asks
of the task and the daily limit is left to `TaskReview`; here a submission goes
on unless its own document refuses it. `approveSubmission` and
`rejectSubmission` write a status whatever it is by then, so `Review` does.

### Settings

| Code | Actions |
|---|---|
| `getSettings` of the three services | `AdminGetSettings`, `WalletGetSettings`, `ReferralGetSettings` (`FindNone`, each with its defaults), `Create` |
| `updateSettings` | `UpdateFind`, then `Create` or `UpdateSave` (the fields that differ from what was read) |
| failure, crash | `DropDesk` |

`settings` is the collection in the order of insertion, which is the order
`findOne` answers in: the first is in force. `latest` and `lost` say what each
field should be, and for which fields that is not promised: those of an update
that created a second document, and those set to what had been read while
somebody else changed them.

### Listing

| Code | Actions |
|---|---|
| `paginate` | `ReadItems` and `ReadTotal` in any order, `Answer` |
| inserts; updates after which a document matches the filter, or no more | `ComeIn`, `DropOut` |

A document that comes in may be new, and then has the latest `createdAt`, or as
old as any: a rejected submission that is submitted again is `pending` again, a
task is made active again, and so is a user, and each comes back where its
`createdAt` puts it. `ComeIn` therefore takes any document that is not listed.
A client walks from page 1 to `totalPages`, oldest or newest first. A document
is its `createdAt`, and a page the set of documents whose `Place` in the sort
order lies after those skipped and within the limit. `WalkIsComplete`
(`NothingMissed` and `ShownOnce`) says in which walks every document that
stayed is shown, and which walks show none twice. `moved` has the causes of the
others, and they are no wider than needed: a document left, and those behind it
moved up (`"out"`); one came in ahead of a document that had been shown or was
being read, which moves down and may be met again (`"ahead"`); one came in ahead
of a document not yet shown between a page's total and its items, so that the
last page is counted too early (`"between"`). Oldest first, a new document is
behind all others and causes none of this; one that comes back may.

### Accounts

| Code | Actions |
|---|---|
| `register` | `Register`, `SignIn` |
| `login`, on either door | `Login` (the standing is looked at), `SignIn` |
| `refreshToken` | `Refresh` (it is not), `SignIn` |
| `logout`, expiry | `SignOut` |
| `JwtStrategy`, `RolesGuard` before an administrator's route | `AdminRoute` |
| `provisionUser`, `updateUserStatus` | `ProvisionUser`, `UpdateUserStatus` |
| failure, crash | `GiveUp` |

`signedIn` are the people who have a token that passes; which one is
`Sessions`' subject. `madeBy` is a history variable: who made an account, or the
account itself if nobody did. `AdminsFromFounder` says that going from each
administrator to the one who made it ends with the founder: a set of
administrators that has the founder, and whoever a member made, has them all, so
none stands alone and none made each other in a circle. A ban ends no session: `BarredStaysOut` promises only that
an account that is out stays out.

### MCPlatform

`DailyProfit`, `RateLimit`, `Caches`, `Files`, `Settings`, `Listing` and
`Accounts` share no variable, so their product says nothing that each alone
does not. `MCPlatform` extends them all, and `focus`, chosen in the initial
state, says which of them moves; the others rest in one initial state. Every
behaviour of each component is a behaviour of `MCPlatform`, and the fairness of
a component speaks of its own steps only.

## Runs

| Run | Instance | Question |
|---|---|---|
| `wallet` | 1 user, 3 requests, 2 withdrawals of 2 or 4, credits of 3 and -5, at most 4 operations | Does any interleaving of claims, withdrawals, reviews and credits overdraw the account, lose or invent a cent, write a row that is not true, refund an approved withdrawal, or let two claims run at once? Is what is held just what the stored withdrawals hold? Is every step one decision of `Settlement`, or none (`SettlesAtOnce`), and one of the writers of `Earnings`, or none (`KeepsEarnings`)? |
| `task_review` | 1 user, 2 tasks, 2 documents, 2 requests, daily limit 2, at most 5 operations | Do racing submissions and reviews keep the limits, is every reward paid backed by an approval, and do balance, rows and payments agree? |
| `platform` | each component alone: a user and 2 instances with days of 3 ticks; 3 requests under limits of 1 and 3; a profile, a list and 2 readers; 2 uploaders, 3 objects, a submission; 2 clerks and 2 fields; 3 documents, listed or not, in pages of 1 and 2; 3 people and 2 sign-ins | Is a profit paid once a day, what locks a user out, and does it end? Does overlap let more through than the limit, and when does a counter not expire? When is a cached answer out of date, and does it stay so? Does every document name an object, and who leaves one behind? Are the settings in force the latest? What may a walk miss or repeat? Who becomes an administrator, and does a barred account stay out? |
| `referral` | 2 referrers, 3 e-mails, 2 requests, milestones at 2 and 3, fairness | Is a bonus paid once per user and a milestone never early, and exactly once where sign-ups do not overlap; are balance, rows and the reported statistics what was paid; is everybody who registered with a code listed in the end, unless that registration broke off? |
| `sessions` | 2 users, 2 requests, 2 pairs, lifetimes 1 and 2, clock up to 2, Redis away at any command | Is an old pair revoked before its successor is handed out, is a stored token one that will be accepted, and is a revoked pair refused at every later moment? |
| `password_reset` | 1 user, 1 session request, 2 pairs, 2 resets, 2 one-time passwords, clock up to 1 | Is a one-time password refused once it was used and deleted, or replaced while sessions log in, refresh and log out on the same store? |
| `wallet_overdraft`, `wallet_refund`, `task_reward_twice`, `task_gate`, `session_logout`, `rate_atomic` | smaller | the findings below |

Why the bounds are enough to be interesting. A lost update takes two requests,
a request that has to retry because of two others takes three; two withdrawals
let one be rejected while the other is placed. The profit rate and the amounts
are chosen so that a profit is not zero and a balance is not enough for both
withdrawals; the credit of -5 takes the opening balance of 4 below zero, where a
profit is negative too, and beside a withdrawal it takes the money it was checked
against. `MaxOps` bounds only how many operations begin; every operation
may fail or be retried at each of its steps. In `task_review` five operations
are enough for submit, reject, submit again with two approvals racing; the
daily limit of 2 is reached and crossed. In `referral` each milestone may be
skipped, met or met twice by two sign-ups that race for it, with a third before
or after them, and the rows of one referrer must not be counted for the other.
In `platform` a day of three ticks lets a key be taken early or late in a day
and expire in the next one, under a gate that was asked before midnight; two
instances let one see Redis while the other does not. Three requests pass a
limit of one twice over and meet one of three at its edge, and the limit of one
is spent by the others; a counter lives two ticks, long enough to show an
EXPIRE that would renew it. Two readers and two writes are a read that one
write overtakes and another put in between. An upload, a deletion and two
proofs of one submission overlap on three objects. Two clerks are a reader and
an updater of an empty collection, or two updaters of one field. Three
documents in pages of one and two leave a last page full or not; two that are
listed can each be shown while the third, older, newer or between them, comes in
or goes and comes back. The third person is made an administrator by the second, who may be
barred meanwhile. The sessions need a pair and its successor, and two requests
that present the same one; a pair can be signed at 0, revoked, and presented at
the last moment of its life, when a key that lived any shorter would be gone.
(`SessionsProofs` covers any other number.) Two users are run together in
`sessions`, where the logout of one may revoke the other's pair; elsewhere what is
done for one touches nothing of another, and the proofs quantify over users. Requests, users and documents are symmetric, so symmetry is used where
no liveness is checked. No run checks for deadlock: each system is idle when
its bound is used up or its walk is over, and no request waits for another one.

Fairness is assumed in two runs. In `referral` each request in flight goes on
or breaks off (`WF_vars(Register(r) \/ Drop(r))`). In `platform` a claim in
flight takes its next step or throws (`WF_vars(Claim(r))`), a request that
counts or fills a cache goes on or breaks off (`RateFairness`,
`CacheFairness`), because every `await` of this code is a call of a driver that
answers or gives up after a timeout; and time passes (`Tick`, `RateTick`,
`CacheTick`). Nothing is assumed about requests that have not begun, about
restarts, or about Redis coming back. `CachesSettle` speaks of the time after
the writes stop, which the bound on versions brings about; reads never stop.

## Findings

Each is a statement the code makes, refuted by a run, with a short trace.

1. `wallet_overdraft` (`NeverOverdrawn`): `creditUser` reads the balance, a
   withdrawal commits, `creditUser` saves the balance it read plus the credit.
   The debit is undone and the same money can be withdrawn again, although
   `requestWithdrawal` refuses more than the balance.
2. `wallet_refund` (`RefundedIsRejected`): a withdrawal that was rejected and
   refunded is approved afterwards; `approveWithdrawal` looks at no status.
3. `task_reward_twice` (`RewardOnce`): two approvals of one submission both
   read it pending; both save, both pay.
4. `task_gate` (`CompletedAll`): the gate compares numbers; an approved
   completion of a task taken down makes up for an active task not done.
5. `session_logout` (`LoggedOutHasNone`): a refresh that began before a logout
   stores its new token after it.
6. `rate_atomic` (`AtomicWithExpiry`): the repository's README calls the rate
   limit an "atomic increment with expiry"; a request that breaks off between
   INCR and EXPIRE leaves a counter that never expires, and its address is
   refused for good once it has reached the limit.

The models have more such behaviours, which no run singles out:

- Two resubmissions in flight are both accepted while the stored count says one
  (so `CountWithinLimit`, a part of `WithinLimits`, speaks of the count and not of
  the acceptances).
- Two refreshes with one token look at the blacklist before either writes it,
  and both get a new pair (so `ExchangedIsRevoked` does not say how many).
- Two resets both read one one-time password before either deletes it (so
  `SpentIsRefused` begins with the deletion); and a reset deletes whatever is
  stored under the user's key by then, a newer one that was mailed and not used
  included (`ResetDel`).
- A token other than the one stored is accepted by `refreshToken`, because
  bcrypt compares 72 bytes (`Matches`).
- A banned user who has a token goes on refreshing it (`Refresh`).
- A deletion that broke off after the document was removed cannot be tried
  again: the document is gone and the object stays (`RemoveFile`, `torn`).
- An update of the settings that overlaps their creation is stored in a second
  document nobody reads (`Create`, `lost`).
- A profile or task list that was read before a write and put into the cache
  after it is served until its TTL ends (`overtaken`), as is every profile whose
  balance or standing changed (`OutdateProfile`).

## Proofs

Eight modules hold proofs; each theorem is for every value of the constants.
All safety properties that the passing runs check are proved, and so are the
refinements; only liveness is left to TLC. Each argument has the same form: the
types and what a request at some point of its handler knows (`JobFits`,
`Shape`) are inductive together, since no step can be told to do right without
knowing whose document it holds; on top of them stand the invariants that carry
a property.

### The user document and the wallet

`UserDocumentProofs` has the lemmas on `UserDocument` that three components
need: its operations keep its types, and a path of a copy that is not `stale`
equals the stored one (`Fresh`); and one on counting, that a set from which a
step takes one element, or to which it adds one, changes in size by one
(`OneMoves`).

It also has what the reconciliations need of sums, `SumFunctionOnSet` of the
community modules: it is a number (`SumType`), it is the weight of any element
and the sum of the rest, in whatever order (`SumStep`, `SumRemove`), it depends
only on the weights (`SumEqual`, `SumZero`), and a step that changes one weight
changes the sum by as much (`SumPoint`). The community module defines it with a
CHOOSE of a function that satisfies the recursion, so first there is exactly one
on each finite set (`SumExists`, `SumUnique`). The induction theorems of the
library take an operator as a parameter, which the provers cannot instantiate;
each of these lemmas argues instead from a smallest subset without the property
(`WFMin` with `FS_StrictSubsetOrderingWellFounded`), which an element less contradicts.

| Theorem of `WalletProofs` | States |
|---|---|
| `TypeCorrect` | `TypeOK` |
| `ClaimsExclude` | `ClaimExclusive` |
| `CopiesFresh` | a copy differs from the store only in paths others have written since |
| `Reconciles` | `LedgerReconciles` |
| `NeverNegative` | `NoOverdraft` |
| `ApprovalIsFinal` | `ApprovedIsFinal` |
| `LedgerIsHonest` | `LedgerHonest` |

`Shape` says that a request in the middle of an operation holds a copy of the
right user's document. With `Fresh`, a commit (never stale where it writes) and
a save that clobbers nothing apply their delta exactly once (`ExactEarned`,
`ExactMoved`). That what was earned is in the balance or held (`EarnedOrHeld`)
and that the rows add up follow: each step books the same amount on both sides
(`Entry`, `BooksKept`). `NoOverdraft` is not inductive, because a withdrawal in
its transaction has checked the balance earlier: `Solvent` says that the copy
it holds still covers it, whoever asks, and that nobody who is not `docked` has
or is about to save a balance below zero (`InTheBlack`). A commit is refused
when the balance has been written since the copy was read, so what covers the
copy covers what is stored. `LedgerHonest` and `ApprovedIsFinal` are properties
of a step from a state in `Shape` and `Fresh`. Assumed: `NoUserAssumption` and
`WalletAssumption`: withdrawals are of positive whole amounts, as their DTO has
it, the opening balance is not below zero; credits and the rate are of any sign.

### The wallet implements its promise

`SettlementProofs` proves `WalletSettles`: Spec => `SettlesAtOnce`, the
refinement the `wallet` run checks. The initial state maps to one of
`Settlement`; each action is a case of its own, which ends in `Profit`,
`Credit`, `Take`, `Return`, `Overwrite` or a stutter under the mapping. The
invariants of `WalletProofs` give the balance and that it covers what is
taken; `Lent` adds what the withdrawals need: a document not stored yet is
blank, one refunded is not pending any more, and the amount and user a
rejection has read are still those of the document it returns.

`HeldIsWithdrawn`: Spec => []`HeldByWithdrawals` is next in that module. `Loan(u)`
is what each withdrawal holds of `u`'s earnings, and `LoanMoves` says that a step
in which one of them comes to hold more or less keeps the sum and `held` equal;
`Lent` supplies that a debit is of a blank document, and a refund of the amount
and owner in the document. With `EarnedOrHeld` from `WalletProofs` that is
`Conserves`: Spec => []`Conservation`. It also gives `WalletKeepsEarnings`: Spec =>
`KeepsEarnings` its hardest case, that a refund is of no more than is held: one
term of a sum of natural numbers is no more than the sum (`LoanWithin`). The
others are that a debit is covered by the copy it is reckoned from (`Solvent`),
that both count the same users as `docked` (`SameGiven`), and that what is
refunded was asked for once (`Asked`).

### All the writers of a balance

| Theorem of `EarningsProofs` | States |
|---|---|
| `BooksInvariant` | the inductive invariant `Books` |
| `NothingIsLost` | `EarningsAddUp` |
| `NothingBelowZero` | `NothingNegative` |
| `DebitsAreCovered` | `DebitsCovered` |

A write that takes nobody's update away adds to what is stored just what it
added to the copy, path by path (`AddsExactly`, from `Fresh`), and what is added
to the total is added to one of the three places (`Entry`, `EntryAddsUp`). That
nothing of a user who is not `docked` goes below zero does not need `Fresh`: what
is stored after a write is, path by path, what the writer computed from a document
that was not negative, or what was stored before (`SoundWrite`), so not even an
overwriting save gets there. `DebitsCovered` does need it: a debit that is
committed is of the balance that is stored, whoever was docked while it was under
way. Assumed is `AmountsOK`: the opening balance and what users withdraw are
natural numbers, and credits, rewards, bonuses and profits are whole numbers of
any sign; `WalletAssumption`, `ReviewAssumption` and `ReferralAssumption` give at
least that of theirs.

With the three refinements this covers each service alone. Side by side, on the
same collection and with requests of their own, they implement `Earnings` with
all amounts together: a step of one is a writer at work there too, because what
the refinement needs of a request's own copy, that it was read and is of the
right user, no step of another service touches, but for its `stale` paths, of
which no guard but that of `Commit` speaks. This last step is an argument, not
a theorem.

### Task review

| Theorem of `TaskReviewProofs` | States |
|---|---|
| `TypeCorrect` | `TypeOK` |
| `OneADay` | `OneSubmissionPerDay` |
| `LimitsHold` | `WithinLimits` |
| `PaymentsApproved` | `PaidIsApproved` |
| `CopiesFresh` | a copy differs from the store only in paths others have written since |
| `RowsReconciled` | `RowsReconcile` |
| `MoneyInvariant` | the inductive invariant `Money` behind the sums |
| `RewardsReconciled` | `RewardsReconcile` |
| `ReviewKeepsEarnings` | `KeepsEarnings` |

The two limits and the payments are counted in two places at once: `counted`
and `paid` say what was done, the requests in flight what is to come. `Tally`
adds them up (a request that Redis counted and that has not stored yet, one
that saved an approval and has not paid yet) and compares the sum with
`submissions` and `approvals`, which bound it; a step moves a request out of
the set and into the count. `CountWithinLimit` needs that a request that
resubmits read a count below the limit, however old.

`RewardsReconcile` is two sums, over the submissions (what was paid for each) and
over the requests (rows about to be written). `Money` says that the first is the
rows and `unlogged` together and the second at most `unlogged`, and with it that
an approval works for the owner and the task of its submission (`Owned`) and that
nothing was paid for a submission that is not stored. A step changes at most one
weight of each sum, so `SumPoint` gives the change: a payment adds the reward to
both, its row takes it off the second, and a request that breaks off in between
takes it off the second only, which leaves `unlogged` the larger.
`ReviewKeepsEarnings` needs no more than `Shape`: whoever pays holds the
owner's document and a stored submission's task. Assumed is `ReviewAssumption`,
which says also that the requests, the submissions and the tasks are finite sets,
as in any run of the program; without it their cardinalities and sums say nothing.

### Referrals

| Theorem of `ReferralProofs` | States |
|---|---|
| `TypeCorrect` | `TypeOK` |
| `OneBonus` | `OneBonusPerUser` |
| `MilestonesInTime` | `MilestoneNotEarly` |
| `MilestonesPaid` | `MilestonesExact` |
| `CopiesFresh` | a copy differs from the store only in paths others have written since |
| `RowsReconciled` | `RowsReconcile` |
| `LedgerInvariant` | the inductive invariant `Ledger` behind the sums |
| `BonusesReconciled` | `BonusesReconcile` |
| `ReportsInvariant` | what is listed and what is still to be listed is what was paid |
| `StatsHonest` | `StatsAreHonest` |
| `ReferralsKeepEarnings` | `KeepsEarnings` |

`OnePayer` (one registration of an e-mail goes on to the bonus, thanks to the
unique index) makes the bonus a matter of the one request that pays it.
`NotEarly` carries the count a request has taken to the payment: referrals are
only ever added. `MilestonesExact` is the hardest: it holds of a referrer when
no sign-up of theirs is in flight, so `Exact` says for a `Clean` referrer what
holds in between too: at most one request pays, the milestone it decided on is
the one the next referral reaches (`Coming`), and what was paid are the
milestones within the referrals listed and the one paid `Ahead` of its
referral.

The sums go as in task review, over e-mails, milestones and requests (`Ledger`).
`StatsAreHonest` speaks of moments when no sign-up of a referrer is in flight, so
`Reports` says what holds in between: for a referrer none of whose sign-ups broke
off, the bonuses in the listed referrals and those of the requests about to list
theirs add up to what was paid. Assumed is `ReferralAssumption`, with the e-mails,
the milestones and the requests finite sets.

### Sessions and password reset

| Theorem of `SessionsProofs` | States |
|---|---|
| `TypeCorrect` | `TypeOK` |
| `RevokedRefused` | `RevokedIsRefused` |
| `ExchangedRevoked` | `ExchangedIsRevoked` |
| `StoredLive` | `StoredIsLive` |

`Shape` adds to the types whose pair is whose: a pair presented by a request
(other than in the body of a logout), made by it or stored for a user carries
that user as `sub`; a pair being made
was delivered to nobody and is made by no other request. `Covered` says that a
revoked pair was delivered, and that its blacklist key expires no earlier than
its refresh token: the key is written after the pair was signed and lives as
long, which is all `RevokedIsRefused` needs. `Spent` extends
`ExchangedIsRevoked` to the requests about to deliver. `StoredIsLive` is
inductive with `Shape` and `Covered`: what `Store` writes nobody has yet, so it
is not revoked; and whoever revokes the token stored for a user is a request of
that same user, which is next to replace it, or the logout of another, which the
property excepts. (That is why `JobShape` says whose the presented pair is of
every request but one in the middle of a logout.) The assumptions are
`SessionAssumption`, of which the proof needs that an access token lives no
longer than a refresh token and a blacklist key no shorter.

The theorems on `PasswordReset` are in the same module:

| Theorem of `SessionsProofs` | States |
|---|---|
| `ResetTypeCorrect` | `ResetTypeOK` |
| `SpentRefused` | `SpentIsRefused` |
| `SessionsKept` | `RevokedIsRefused`, `ExchangedIsRevoked` and `StoredIsLive`, beside resets |

A reset touches nothing of the sessions but `hashed`, which it clears
(`SessionsBeside`); a stored token that is gone cannot be revoked, so the
invariants of the sessions are kept. `KeyFits` is what the one-time
passwords need: the key of a user holds the one made last for that user, and
none that a reset has deleted.

### The components of the platform

| Theorem of `PlatformProofs` | States |
|---|---|
| `PlatformTypes` | `PlatformTypeOK` |
| `DailyOnce`, `DailyKeys` | `OneProfitADay`, `KeyHasCause` |
| `RateLimitHolds`, `RateTimer` | `LimitHolds`; a counter without a TTL is one a broken call left, or a call in flight has yet to see to |
| `CacheStaleness` | `StaleHasCause` |
| `FilesNamed`, `FilesOrphans` | `NamedIsThere`, `OrphanHasCause` |
| `SettingsInForce` | `LatestInForce` |
| `WalkComplete` | `WalkIsComplete` |
| `AdminChain`, `BarredOut` | `AdminsFromFounder`, `BarredStaysOut` |

They are theorems of each component's own specification, except the first,
which is one of `MCPlatform`'s: a step in focus is a step of its component and
a stutter of the others (`FocusStep`), so all invariants hold there too
(`PlatformInvariant`). By component:

- *Daily profit*: only one request holds a user's key (`OneHolder`, by SET NX),
  and the time since the last paid claim and the time the key has left add up
  to a day (`AgeAndKey`); so a key that is gone means that a day has passed,
  which the claim that takes it next relies on (`HolderAge`).
- *Rate limit*: INCR answers each request a number of its own, so what has
  passed under a limit is no more than what was counted (`PassedIsCounted`,
  with `ToPass` for the request whose EXPIRE is still out); only who got 1 sends
  EXPIRE (`OneExpiring`), and until then the counter cannot run out and another
  one begin.
- *Caches*: a request that no write has overtaken holds what MongoDB holds
  (`HeldIsStored`), and what it caches is not out of date.
- *Uploads*: each object key belongs to one request, document or proof
  (`KeysApart`, `ErrandKeys`), so a deletion never takes an object another
  document names.
- *Settings*: with the types, that only a document that exists is saved over;
  `LatestInForce` is inductive with that.
- *Listings*: what was shown, listed still or not, has its place before the page
  asked for as long as nothing comes in ahead of it (`ShownBehind`), and what
  stayed and was not shown lies behind it as long as nothing moves up, within the
  total once that is read (`StayedShown`). Two facts of arithmetic close it: the next page begins where
  this one ends, and the pages up to `totalPages` cover the total.
- *Accounts*: `AdminsFromFounder` is inductive with the types. A new administrator
  is in every set that has its maker; without it, such a set is one of those the
  property spoke of before, and so has all the others.

### What is only model-checked

Liveness (`KeyIsReleased`, `CounterExpires`, `CachesSettle`, `ReferralListed`):
it rests on fairness and ENABLED, which the prover does not handle.

## Assumptions and what is left out

- MongoDB runs as a replica set and gives transactions snapshot isolation with
  write conflicts. (The compose file starts a single node, on which
  `withTransaction` fails altogether.) Unique indexes exist, although
  `autoIndex` is off in production.
- Data in Redis survives; the connection may be away at any command.
- A claim in flight is younger than its key's TTL of a day: the driver gives up
  a transaction after two minutes.
- Amounts are whole cents. The code keeps IEEE doubles and rounds only the
  profit, so its sums drift by fractions of a cent that no property here sees.
- Users and tasks are never deleted: no code path does, so the `not found`
  branches are never taken for a stored id.
- A task's reward and the settings are constants. A reward is not below zero
  (`@Min(0)` in its DTO); nor are the bonuses, which is assumed, as nothing checks
  what `updateSettings` is sent. Of the rate of the profit nothing is assumed.
- The amount in the body of a credit is a number.
- A blacklist key lives as long as a refresh token. For a lifetime in one of
  the forms `parseExpiryToSeconds` knows (the default is `7d`) it does; another
  form, such as `2 weeks`, makes it a week whatever the JWT library reads.
- The instances' clocks agree with that of Redis, to a tick.
- A login of `Sessions` is one that succeeds: passwords are not modelled, and the
  account's status, which only `login` looks at, is `Accounts`'.
- No two listed documents share a `createdAt`, no two uploads a key (a random
  UUID, or user, task and millisecond), no two resets a one-time password.
- An instance that has lost Redis does not notice in the middle of a command
  other than by that command's failure.
- `updateUserStatus` reads and writes in one step, and the guard's look at the
  role is merged with it, because no code path changes a role.
- Nobody passes `refreshToken` or the access check with a token that was not
  issued to them, by this service. `logout` takes anybody's.
- No fields but the balance of a user, no proof contents, notes or texts.

Not modelled, and why:

- *The dashboard* and the other read-only listings: they answer from queries at
  different moments, and no decision rests on the answer. `paginate`, which most
  of them call, is `Listing`.
- *Mail* beyond the fact that an OTP reaches its user, *presigned URLs* beyond
  the check that S3 is configured: calls out with no state of their own here.
- *HTTP plumbing* (filters, interceptors, request ids, logging), *configuration*
  and *DTO validation*: one request, no shared state.
- *`softDeletePlugin`*: it hides documents with `isDeleted`, which nothing sets.
- *Tests*: a health check and an e2e stub.
