# Northstar Dispo in TLA+

Specifications of Northstar Dispo: a FastAPI application over a SQL database
(`src/backend`), with which a real-estate desk publishes deals and buyers save
them, ask to see them and make offers, and the browser client's calls to it
(`src/frontend/src/shared/api/client.ts`). Each module is
translated from the code, is checked by TLC on small instances and, where a
`*Proofs` module exists, proved with TLAPS for every value of its constants.

    tlc -workers 2 -config Desk_pair.cfg MCDesk.tla
    tlapm ShowingsProofs.tla

## 1. Inventory

File names are relative to `src/backend/app/`.

| component | state | operations | talks to |
|---|---|---|---|
| refresh-token sessions (`services/auth.py`, `api/v1/auth.py`, `core/deps.py`) | `refresh_tokens` (family, parent, used, revoked), `users.token_version`, `users.status`, KV keys `user:{id}:ver` and `jti:{jti}` | login, refresh, authenticate, logout, revoke one / all others, change password | users admin (bump, revoke), KV, browser client |
| users admin (`services/users.py`, `api/v1/admin_users.py`) | `users.status`, profiles | approve, reject, suspend, patch | sessions |
| one-time tokens (`services/auth.py`) | KV `tok:{jti}`, JWT `ver` | forgot/reset password, verify e-mail | sessions, KV, mail |
| registration and import (`services/auth.py`, `services/import_buyers.py`) | `users`, `imported_buyers` | register with claim of an imported row, CSV import | users |
| TOTP (`services/totp.py`) | secret, recovery codes | enroll, confirm, disable, verify | login |
| key-value store, limiter (`core/kv.py`) | keys with TTL; hit lists in process memory | get, setex, delete; allow | all of auth |
| deals (`services/deals.py`, `api/v1/admin_deals.py`, `services/status.py`) | `deals`, `deal_photos`, both histories, audit log | create, patch, soft delete, upload photo or document | match, markets, offers, showings |
| matching and alerts (`services/match.py`) | `notifications`, `outbox` | notify_matches, notify_price_drop, notify_gone | deals, saves, interests |
| engagement (`api/v1/deals.py`) | `saved_deals`, `interests`, `deal_acknowledgments`, events | save, unsave, interest, acknowledge, download | match, offers |
| offers (`api/v1/desk.py`) | `offers` | create, withdraw, patch (counter, accept, ...) | deals, acknowledgments |
| showings (`api/v1/desk.py`) | `showing_windows`, `showing_rsvps` | create window, RSVP, cancel RSVP | deals |
| threads and notices (`api/v1/desk.py`) | `threads`, `messages`, participants | open thread, post, read all | inbound mail |
| inbound mail (`services/imap_inbound.py`) | `email_links`, bounces, `last_imap_uid` | ingest, link unmatched, poll | threads, profiles |
| blasts (`services/blasts.py`, `api/v1/admin_extra.py`) | `blast_campaigns`, recipients | create, send, pause, track, unsubscribe | mail |
| markets, managers (`services/deals.py`, `api/v1/admin_managers.py`) | `markets`, `market_managers` | ensure, create from a place, deactivate, assign | deals |
| metrics (`services/metrics.py`) | none | dashboards, contract clock | notifications |
| browser client (`src/frontend/src/shared`) | in-flight refresh, cookies | fetch with refresh and one retry | sessions |
| the rest | configuration, seed, migrations, media, mail, geocoding, CLI | run once, or pure input and output | |

How it runs, and what that means for the models:

* **Requests interleave at every `await`.** Two gunicorn workers, each an event
  loop, serve requests over one Postgres (READ COMMITTED) and one Redis. No
  SELECT takes a lock, and there is one COMMIT at the end of most handlers. So a
  handler is one action per SELECT (or cache call) whose result it keeps and one
  for its commit, run by a member of `Workers`; the cardinality of `Workers` is
  the number of requests in flight.
* **A commit writes what was computed from the reads**, and only columns whose
  value changed with respect to the value read (the unit of work of SQLAlchemy).
  Hence lost updates of a column, but never of a whole row. Rows that an
  *autoflush* has written are held until the commit: the accepted offer in
  `OfferDesk`, the users row in `Sessions`.
* **Crashes**: a request may end between any two of its steps (`Abort`), the
  process dying, a client gone, a later check failing. What was committed or
  written to the cache stays.
* **No transaction spans the two stores.** The version cache is written before
  the commit that makes the version true.
* **Nothing is scheduled.** No job runs in the background
  (`workers/settings.py` has no functions): nothing must *eventually* happen on
  the server's own account, and no module of the server assumes fairness. The
  browser's event loop does go on, and `Browser` says so.
* **UNIQUE constraints and foreign keys are guards of the flush** that an INSERT
  or UPDATE goes out with: it waits for a row another request holds and fails
  once the other is committed.

What makes each component correct, in a sentence: a session is a chain of
tokens with one live end, and what was revoked stays revoked; a bump kills the
access tokens issued before it; a reset token and a recovery code are used up by
being used; an account comes of an imported row or of a verified address, and
of one of them only once; a buyer has one open offer per deal, behind the
acknowledgment Texas asks for, and decided offers stay decided; a window is not
overbooked; a deal moves along its status table and its histories tell how; an
alert goes once, and to those who may see the deal; a campaign that reads done
has been sent to its whole list; a message_id is posted once; a question
reaches the desk; a deal is in a market that is open; a page's call comes to an
end, and one tab does not sign itself out.

Much of that the code keeps only as long as two requests do not meet at the
wrong moment, since a check and the write that goes by it are separate
statements. The models do not rule such meetings out. A *history* variable
(`raced`, `dealRaced`, `clashed`) records which of them have happened so far, no
action reads it, and the properties say what each meeting costs: what holds of
everything nobody raced for, with every other race going on, or a bound on the
damage that holds in any case.

## 2. Modules

| module | models | proved about in |
|---|---|---|
| `DealStatus` | the status tables of deals and of offers | (used by `OfferDeskProofs`, `DealDeskProofs`) |
| `Showings` | windows and seats | `ShowingsProofs` |
| `OfferDesk` | offers, acknowledgments, the accept, and the deal moving meanwhile | `OfferDeskProofs` |
| `DealDesk` | one deal: patch, accept, histories, photos, early access, alerts | `DealDeskProofs` |
| `SessionBook` | abstract: what refresh tokens promise | `SessionsProofs` |
| `Sessions` | tokens, version, cache, denylist of one user; implements `SessionBook` | `SessionsProofs` |
| `Credentials` | reset tokens, password, second factor, recovery codes of one user | `AccountsProofs` |
| `Registration` | one address: imported rows, registration, verification, approval | `AccountsProofs` |
| `Limiter` | the limiter in the memory of a server process | `AccountsProofs` |
| `Browser` | calls of the client in several tabs and their refresh | `BrowserProofs` |
| `Blast` | one campaign: send, pause, crash, clicks | `BackOfficeProofs` |
| `Mailroom` | mail that comes in, bounces, linking by hand | `BackOfficeProofs` |
| `DeskThreads` | a buyer's first questions, an admin's notices | `BackOfficeProofs` |
| `Markets` | markets, managers, the deals placed | `BackOfficeProofs` |
| `MCDesk`, `MCAccounts`, `MCBackOffice` | several modules side by side, with the instances TLC checks | |
| `MCDealDesk`, `MCSessions` | the instances of one module TLC checks | |

The operators named "Mutant" beside a definition are plausible slips in the
code it stands for. Nothing uses them; putting one in the place of its neighbour
must break a property, which tells that the property does depend on that code.

`MCDesk`, `MCAccounts` and `MCBackOffice` put several modules side by side: a
variable `part` picks one at the start and only that one moves, so a run explores
the sum, not the product, of the parts' states. The parts of one such module
share no state that a property on both sides reads. `MCDealDesk` and
`MCSessions` run one module whose full state space is too large: a variable
`corner` confines a behaviour to one of three parts of it, the ones the
properties are about (`MCDesk` does the same to `OfferDesk`, in its parts
`offers` and `deal`). The proofs are about the specifications of the modules,
without corners.

Where components do act on each other, the actions are in one module: the deal
moves inside `OfferDesk`, the accept inside `DealDesk`, the patch of a deal's
access inside `Showings`, the buyers' saves inside `DealDesk`, the users admin
and the reset of a password inside `Sessions`, deals being placed inside
`Markets`, the server's rotation inside `Browser`.

### Showings

`access` is `deals.access`, `capacity` and `rsvp` are the two tables, `request`
what each worker has read, `raced` the windows that two RSVPs past their check
have ever waited for at once. `create_window` is `ReadAccess`, `InsertWindow`;
`rsvp` is `CountSeats` (window and count), `FindRow` (the buyer's own row),
`Confirm` (insert or update, with the unique constraint `uq_rsvp`);
`rsvp_delete` is `FindSeat`, `Decline`; `SetAccess` is the patch of a deal.
In `int(payload.get("capacity") or 6)` the default replaces whatever is false: no
capacity, null, 0; all that is `NULL` in the model. `"0"` and 0.5 are true and are
stored as 0; they are the model's 0. A window of the code always has status `open`, and party size is not
counted by the capacity check, so neither is in the model.

* `desk_pair`, its part `showings` (2 workers, 4 buyers, 1 window, capacities
  -1, 0, 1 and none, with a default of 2): `SeatsBound`. Seats taken and promised
  are within the capacity unless two RSVPs raced for the window, then they exceed
  it by fewer than the requests in flight; a window of 0 or less seats nobody.
  Four buyers are more than the largest capacity plus one, so an excess would fit.

What the model also showed, and no rule of the code covers: a deal switched to
`drive_by_only` keeps its windows, one that `create_window` was about to insert
included, and seats in them go on being taken.

### OfferDesk

`deal` is the status of the deal, whether its market is in Texas and whether it
is there at all; `revision` the version of the Texas notice, and `acks` the
acknowledgment rows of each buyer with the version each of them stores (a
sequence, because `create_offer` reads them with a call that raises on two).
`offer` is the table. `create_offer` is `ReadDealForOffer` (market included),
`ReadNotice`, `CheckOpen`, `InsertOffer`; `withdraw` is `ReadForWithdraw`,
`WriteOffer`; `admin_offer_patch` is `ReadForPatch` and then `WriteOffer`, or for
an accept `FlushAccept` (the autoflush that takes the offer's row, and the read of
the deal) and `CommitAccept`. The deal's side is `ReadForMove`/`CommitMove`, which
patches status, market or both, and `ReadForDelete`/`CommitDelete`; `ReviseNotice`
is a new version of the notice. Amounts, ranks and lateness are left out; no
handler decides by them. Histories: `outside`, the offers whose request read the
deal in another state than Texas; `raced`, the buyers with two creates past the
check at once, or two writers of one offer; `dealRaced`, whether two writers of
the deal's status ever were in flight at once.

* `desk_pair`, its part `offers` (2 workers, 1 buyer, 3 offers, a deal nobody
  patches): `OpenOffersBound`, the check-then-insert may let a second open offer
  through, but never more than one per request in flight, the offers a patch is
  about to reopen counted; `OneOpenOffer` and `TerminalOffersStay`, for buyers not
  in `raced`, with two requests in flight all the same. Three offers are one more
  than the bound.
* `desk_pair`, its part `deal` (2 workers, 1 buyer, 1 offer, 1 acknowledgment, 2
  versions of the notice, patches to available, pending and under_contract, into
  and out of Texas): `OffersAcknowledged`, an offer without an acknowledgment is of
  a request that read the deal outside Texas; `DealMovesAlongTable`, unless
  `dealRaced`. The deal may be moved to Texas between the read and the insert, or
  after it, and the offer is in Texas then; no rule of the code looks again.
* `offers_two_acks`, `offers_stale_notice`: disagreements, section 4 (1 worker, 1
  buyer, 1 offer: a legal sequence of calls is enough).

Also seen: a second offer (a backup) may be accepted while the first stays
accepted, and an accept on a deal that is not `available` leaves it as it is.

### DealDesk

One deal. `deal` is the row as far as the code decides by it, `moves` and
`cuts` the two histories, `photos` the number of photo rows and of covers,
`told` the notifications by kind and buyer. A patch is `ReadForPatch` (all
checks are made on what was read), `CommitPatch` (row and histories), and, for
each alert due, `SelectAudience` and `InsertNotifications`: the alerts have
their own transactions, and go by the object the session kept (its `view`), as
sessions are made with `expire_on_commit=False`. `ReadForAccept`/`CommitAccept` is
the deal's side of an accepted offer, which writes no history.
`ReadForUpload`/`CommitUpload` is `upload_photo`; `Save`, `Unsave`, `ShowInterest`
the buyers; `EarlyAccessEnds` the clock. `create_deal` accepts any status and early
access, so `Init` does. The buy box is its price limit; a patch of
`early_access_until` itself, of markets and of the other columns is left out, and
buyers do not change tier. The history `raced` names what requests in flight at
once have contended for: the price (two patches that cut it), the status (two
writers of it, accepts included), the alert (a publication or its alerts beside
anything that moves, deletes or alerts about the deal).

`deals_corners` (3 workers, of whom the first two corners use two at a time; one
buyer outside tier A, two prices, four statuses) has three corners:

* `histories` (2 moves and 2 cuts after creation): `PriceHistoryChains`, unless
  the price was raced for the history has no gap and ends in the list price;
  `StatusHistoryChains`, unless the status was raced for the history is a path
  through the table to the stored status, but for the move from available to
  pending that an accept makes without a row. Two moves and a silent one in between
  are enough to leave the table or lose the end.
* `alerts` (1 move, 1 cut, a save or an interest): `ToldOncePerOccasion`, under any
  race and crash nobody gets more alerts of a kind than there were committed changes
  that call for it; `AlertedCanSee`, unless the alert was raced for it reaches only
  buyers who can see the deal, early access checked after the commit included.
* `photos` (3 uploads in flight, 4 photos): `CoversBound`, the uploads that all find
  a deal without photos all insert a cover, no other does, and so covers are no more
  than requests in flight.

Not properties, because the code has no step that could make them true: a crash
after the commit of a patch loses its alerts; buyers who are not of tier A
are never alerted when early access ends; `moves` does not tell of accepts,
although src/DESIGN.md:1684 has "accepted offer writes status history" (the gap
`StatusHistoryChains` names).

### SessionBook and Sessions

One user. A token row is minted together with one access JWT, so an element of
`Tokens` stands for both; `row[t].ver` is the version inside that JWT, `denied`
the denylist of JWTs. `cache` is `user:{id}:ver`. `login_user` is `LoginRead`,
`LoginCommit`; `rotate_refresh` is `RotateRead`, `RotateUser`, `RotateCommit`;
`authenticate_access` with `cached_ver` is `AuthLoad`, then `AuthHit` or
`AuthMiss`, `AuthFill`; `_revoke_family` is `SelectFamily`, `CommitRevoke`,
with `DenyToken` between them on logout; `change_password`, `approve`, `reject`
and `suspend` go through `BumpCache`, `SelectAll` (not approve) and `CommitUser`.
`CacheLost` is the TTL or a lost Redis. Token expiry is left out: every property
is about what expiry does not decide.

`SessionBook` says what the tokens promise: by family a set of live tokens,
`Open`, `Rotate` (one out, one in), `Close` (families, for good). `KeepsBook` is
the refinement, with `live` the unused and unrevoked rows and `spent` the others.

Two histories: `raced` has the families one of whose rotations was ever in
flight together with another rotation or a revocation of the family; `clashed` has
`"version"` when a bump has run into another or into a request that had loaded the
user, and `"status"` when a decision ran into another or into a login or rotation
that had found the buyer in order. The refinement mapping counts a family in `raced`
as closed. `consume_reset` is one of the bumps that revoke (`ConsumeReset`); what makes
its token good is in `Credentials`.

`sessions_corners` (2 workers, 3 tokens, versions to 3) has three corners:

* `families` (3 tokens, no bump): `RevocationSticks` and `ChildOfUsed`, whatever
  races; `FamilyRevokedTogether` and `KeepsBook` for every family not in `raced`. A
  family of three tokens is a login and two rotations, of which two may be of one
  token; or two families, one of them raced and the other not.
* `users` (2 tokens; approvals, suspensions, passwords, resets): `DisabledHasNoLive`,
  unless the status clashed.
* `versions` (1 token, two bumps in a row, lost keys and crashes): `CacheFollows`, the
  cache is not behind the committed version, and `BumpKillsAccess`, a bump leaves no
  token of its version, unless the version clashed. Two bumps let a cache that a crash
  left ahead meet the next bump.
* `sessions_stale_allow` (1 token, versions to 2): a disagreement, section 4.

What a race costs: two rotations of one token make two live children, and a
rotation that commits between the SELECT and the commit of a revocation leaves a
live token in a revoked family; two bumps at once write one version, and tokens
issued after the first survive the second.

### Credentials

One user. `version` is `users.token_version`; `reset[t]` the version inside a
reset JWT and `kv[t]` its key; `secret` is `users.totp_secret`, named by the set
of recovery codes handed out with it (every enrolment mints fresh ones), `code`
the rows of those. `spent`, `changed` (how often a reset token has set a password)
and `signins` are histories.
`issue_reset_token` is `ForgotRead`, `StoreToken`; `consume_reset` is
`ResetLookup`, `ResetLoad`, `SpendToken`, then, as `change_password` after
`PasswordRead`, `HoldForPassword` (the autoflush by the SELECT of the sessions)
and `CommitPassword`. `login_user` with `verify_user_factor` is `LoginRead`,
`SelectCode`, `FlushCode`, `CommitLogin`; `confirm_enroll` is `ConfirmRead`,
`HoldForCodes`, `CommitEnrolment`; `disable_totp` is `DisableRead`, the factor,
`HoldForCodes`, `CommitDisable`. `KeyLost` is the end of the key's TTL or a lost
Redis. That a password or a six-digit code is right is a choice.

* `accounts_pair` (2 workers, 1 reset token, 4 codes of which 2 make an
  enrolment, versions to 3): `ResetTriesBound`, the token is good for as many
  tries as were in flight together and for none after that, crashes between the
  two stores included; `CodeUsesBound`, the same of recovery codes;
  `CodesOfSecret`, the codes that exist are those of the secret in force,
  which rests on the row held by the autoflush. Four codes are two enrolments,
  so that one can replace the other.
* `accounts_reset_twice`: a disagreement, section 4. `ResetTriesBound` is what is left
  of the single use: as many passwords as there were requests between the lookup and
  the mark at once.

### Registration

The people behind one address. `account` is the users rows, `imported` the
imported rows and who has claimed them, `verify` the key of the token an account
was registered with. `commit_import` is `ImportRead`, `CommitImport`;
`register_user` is `RegisterRead`, `SelectImported`, `InsertAccount` (the flush,
with the UNIQUE address), `StoreVerify`, `CommitRegister`;
`consume_verify_email` is `VerifyLookup`, `VerifyLoad`, `SpendVerify`,
`CommitVerify`; `approve_user`, `reject_user`, `suspend_user` are `DecideRead`,
`CommitDecision`. The address of an imported row is not UNIQUE, so two imports
at once may insert it twice: registrations of the address raise from then on.

* `accounts_pair` (2 workers, 2 accounts, 2 rows, approval required):
  `ClaimsMatch`, `ActiveVetted`.

### Limiter

One key of `MemoryLimiter`: `allowed` is every time at which it said yes, `hits`
the entries of that history still on the code's list, `Recent` the filter `allow`
applies to them. `Allow` is the whole of `allow`, `Tick` the clock, `Restart` the
process. `accounts_pair` (2 hits in 3 steps, the clock to 7):
`WindowBound`. Seven steps hold two windows and the boundary between them. Two
server processes have two limiters, each with this bound.

### Browser

`tab` assigns calls to tabs; `access` and `jar` are the two cookies the tabs
share: the access cookie is `good`, `stale` (the user's version was raised since)
or `gone`, the refresh cookie is the one the server would rotate or an older one.
`revoked` is the server's family, `flight` the refreshes on their way. `apiFetch` is
`Start`, `Answer` or `Fail`, and `TryRefresh`, which waits for the refresh of
its tab or sends one; `Rotate` is the server's `rotate_refresh`; `Arrive` and
`FailRefresh` end the refresh and resume all who wait. `Expire` is the clock: the
access cookie lives as long as its token (`core/cookies.py`), so the browser drops
it, and a call without it is answered `token_invalid`, on which the client does not
refresh. `Bump` raises the user's version: a call that carries an older one is
answered `token_stale`, which does start a refresh. It stands for the approval of
the buyer, the bump that leaves the family alone; the others are in `Sessions`.

* `browser_tabs` (3 calls, 2 tabs): `CallsSettle`, under the
  fairness of section 3; `ReuseNeedsCause`, the server takes a refresh for reuse
  only when two tabs made calls or an answer was lost. Three calls are a refresh
  with one who waits, and one in another tab.
* `browser_expired_cookie` (2 calls, 1 tab): a disagreement, section 4.

Two tabs whose access tokens become stale together do sign the user out: both send
the cookie of the jar, and the second is reuse to the server.

### Blast

One campaign. `recip`, `marked`, `clickers` are the recipients with their
`sent_at` and `clicked_at`; `mails` counts the messages that left, `lost` those
no row remembers: of sends that never committed, and of sends the provider raised
for after the message had left (the SMTP connection is closed inside the same call,
so the row is counted as failed and mailed again). `create_campaign` is `CreateRead`,
`CommitCreate`; `send_campaign`, for send and for resume, is `SendRead`,
`SelectRecipients`, `SendOne` for each row in any order, `CommitSend`, with the
campaign row and recipient rows held from the autoflush in the loop on; pause is
`PauseRead`, `CommitPause`; `track_click` is `ClickRead`, `ClickCampaign`,
`CommitClick`; `SetAlerts` is the buyer's switch.

* `backoffice_pair` (2 workers, 2 buyers, at most 1 message to each
  lost): `MailsBound`, `DoneMeansSent`.

Also seen: a pause does not stop a send in flight, whose loop looks at the
status its own session holds, and the send then writes its status over the
pause; buyers who opt out after a campaign is created still get it; two sends at
once may count less than was sent, after which the campaign never reads done.

### Mailroom

`kind` says what each piece of mail is, a choice made at the start. A piece in
`Named` carries a message_id, here the piece itself; one that does not gets a new
id from `Drawn` on each delivery, and `source` says which piece an id stands for.
`link` is `email_links`, `posted` and `linked` the messages made of it, all by
message_id; `bounced`, `alerts` one buyer's recipients and switch. `ingest_inbound`
is `IngestRead`, for a bounce `BounceRead` and `BounceCount` (`_record_bounce`),
`FlushLink` (the UNIQUE message_id) and `CommitIngest`; `link_unmatched` is
`LinkRead`, `CommitLink`. A piece may be delivered any number of times, in any
order.

* `backoffice_pair` (2 workers, 2 pieces of mail of which one is named, 2 ids to be
  drawn, 3 recipient rows, 1 message by linking): `IngestedOnce`, whatever is
  delivered again or at once, a message_id is posted once; `TwoBouncesToStop`, no
  buyer loses the alerts to fewer than two bounces that were ingested, each under a
  message_id of its own.
* `backoffice_three_bounces`: a disagreement, section 4.

So the message_id decides, not the piece: a letter that comes without one and is
delivered twice is posted twice, and a bounce like that counts as two. Deliveries
come from POST `/admin/mail/ingest`, whose payload may leave it out; `poll_inbox`
only yields IMAP uids, which nothing hands on. `last_imap_uid` may go back when two
deliveries commit in the other order; the desk shows it and nothing decides by it.

### DeskThreads

`_open_desk_thread` is `OpenRead`, `InsertThread`, `CommitThread` (with the
notices); `read_all_notes` and `read_note` are `NoticesRead`, `CommitNotices`.
`backoffice_pair` (2 workers, 3 threads): `QuestionsReachDesk`, at most as many
threads as requests in flight, each with a notice. Three threads are one more than
the bound. What an admin's page shows is not modelled (`read_all_notes` returns a
count only), so nothing is said of notices marked read that nobody has seen.

### Markets

`market` is each market's presence and `is_active`, `manager` who has it,
`placed` the deals with what their request had seen. `ensure_market` is
`EnsureSelect`, `EnsureFlush`, reached from `PlaceDeal` (create or patch of a
deal) and from `Assign` (create and patch of a manager, by places or by
`market_ids`); `OwnedSelect` and `CommitAssign` are `_assign_places`;
`delete_manager` is `DeleteRead`, `CommitDelete`; `create_market_from_place` is
`CreateRead`, `CommitCreate`; `deactivate_market` is `CloseRead`, `CommitClose`.

* `backoffice_pair` (2 workers, 2 cities, 1 manager, 1 deal, each market switched
  off at most once): `MarketOfDealActive`, a deal's market is active unless it was
  switched off after the request that placed the deal had read it. Switching
  a market off does not look at its deals, so more does not hold.

## 3. Bounds and fairness

Every bound is a CONSTANT that a guard names (`MaxAcks`, `MaxRevisions`,
`MaxVersion`, `MaxMoves`, `MaxCuts`, `MaxPhotos`, `MaxLost`, `MaxPosts`,
`MaxClosings`, `MaxNow`), the size of a set of identifiers (`Offers`, `Tokens`,
`Windows`, `Codes`, `Threads`, `Drawn`, ...), or a condition of a corner, which stands
in `MCDesk`, `MCDealDesk` or `MCSessions` with what it leaves out. Two workers are
enough for every race between a read and a write; the bounds of the form "as many as
the requests in flight" are proved for any number where a proof is named below. A
corner leaves out combinations (three tokens and two bumps, an upload beside a cut),
never a race of two requests that a property of it is about, and the proofs know no
corner. Runs with symmetric sets use symmetry and check no liveness; `browser_tabs`,
which does, uses none. Deadlock is not checked (`CHECK_DEADLOCK FALSE`): when the
bounds are reached and no request is in flight, nothing more can happen, and in the
code a request that has nothing to do is no deadlock.

The server is assumed to do nothing of its own: no fairness, a request may be
aborted or never go on. `Browser` has weak fairness of what a tab's event loop
has ready (`Answer` or `Fail`, `TryRefresh`) and of a refresh on its way, whose
fetch is answered or rejected in the end (`Rotate`, `Arrive` or `FailRefresh`,
together: nothing says which). `Start`, `Expire` and `Bump` are not fair. `CallsSettle`
needs no more: a retry is made once, and those who wait go on however their
refresh ends.

## 4. Where code and documents disagree

| run | property | what TLC shows |
|---|---|---|
| `offers_two_acks` | `AcknowledgedMayOffer` | two acknowledgments, which are legal, and the buyer's offers fail from then on |
| `offers_stale_notice` | `CurrentNoticeAccepted` | the notice gets a new version after a buyer has acknowledged it, and the offer goes through on the old acknowledgment |
| `sessions_stale_allow` | `CacheNotBehind` | authenticate loads the user, a password change bumps cache and database, the key is lost, authenticate puts the old version back |
| `accounts_reset_twice` | `ResetSingleUse` | two requests look one reset token up before either marks it used, and both set a password |
| `browser_expired_cookie` | `ExpiredRefreshes` | the access cookie expires with its token, the next call goes without one, is answered token_invalid, and ends unauthorized without a refresh |
| `backoffice_three_bounces` | `ThreeBouncesToStop` | the count of bounced rows flushes the new one and adds one for it again: the second hard bounce switches the alerts off |

PROJECT.json quotes the lines on both sides.

## 5. Proofs

All are of the form *typing by induction, then a strengthened invariant, then
the property*; they hold for any finite number of workers and any number of
buyers, tokens and offers, under the ASSUMEs of the modules. Those say that the
sets whose size is counted are finite, that bounds are numbers and that `NULL`
(in `Registration` also `"absent"`, the row that is not there) is none of the
values. No theorem assumes that requests come one at a time. The theorems named
"...Unless..." are about every behaviour, all races included: they say of the
windows, buyers, families or columns not in the history variable that the rule
holds, and the histories only grow, so a race elsewhere excuses nothing. Their
invariants hold an implication from "not in the history" and need the history to be
complete: two requests that contend *now* are in it (`Noted`, the first conjunct of
`OrderlyInv`).

A component that is only run beside others is proved about where it runs: the
theorem reads `BackOffice => []IngestedOnce`, the specification and the property
being those of the TLC run. Such a proof module has a lemma (`PartsRun`,
in `ShowingsProofs` `ShowingsRun`) that each step of the composition is a step of the
part or leaves its variables alone; the inductive invariants are then those of
the parts. The assumptions on the constants these parts are instantiated with
are named in `MCDesk`, `MCAccounts` and `MCBackOffice`, where TLC evaluates them.

* `ShowingsProofs`: `ShowingsTyping` (`SeatsTyped`); `OverbookingBound` (`SeatsBound`),
  which is inductive by itself once `Taken` and `Admitted` are known to be finite: a
  request that has counted is in `Admitted`, and its commit trades its place for
  a seat; as long as the window was not raced for, `Admitted` has one request.
* `OfferDeskProofs`: `OfferDeskTyping`; `OpenOffersBounded` (`OpenOffersBound`),
  where the count includes the offers that a patch in flight will reopen, for
  without them a countered offer that the buyer withdraws under the desk's hands
  would break the induction; `TexasGate` (`OffersAcknowledged`) from `AckInv`: a
  request beyond `ReadNotice` that read the deal in Texas belongs to a buyer who has
  acknowledged, wherever the deal has gone since. `OneOpenUnlessRaced`
  (`OneOpenOffer`) and `DecidedUnlessRaced` (`TerminalOffersStay`) from `OrderlyInv`:
  of a buyer not in `raced` no two requests contend, one that has looked for open
  offers found none and there is none still, and the edge a writer has checked is
  one of the status stored. `DealMovesUnlessRaced` (`DealMovesAlongTable`) from
  `DealInv`, the same of the deal's status.
* `DealDeskProofs`: `DealDeskTyping`; `NobodyToldTwice` (`ToldOncePerOccasion`),
  where each alert still due in some request is counted with those sent;
  `CoversBounded` (`CoversBound`), strengthened by covers being photos, so that
  an upload which finds no photo finds no cover. `StatusPathUnlessRaced`
  (`StatusHistoryChains`), `PricePathUnlessRaced` (`PriceHistoryChains`) and
  `AlertsSeenUnlessRaced` (`AlertedCanSee`), from `Noted` and `Chains`: of each column
  not raced for, the history ends in it, and what the one request about to write it
  has read (`Current`) is stored as it is; the accept is the one step that moves the
  status and not the history.
* `SessionsProofs`: `SessionsTyping`; `RevocationsStick` and `ChildrenOfUsed`,
  from commits that name columns and from a child's parent being in its family;
  `CacheFollowsUnlessClashed` and `BumpKillsUnlessClashed` from `VersionInv`, where the
  version every bump or fill in flight has read is the stored one;
  `DisabledUnlessClashed` from `StatusInv`; `FamiliesUnlessRaced` and the refinement
  `KeepsBookUnlessRaced` (`Spec => KeepsBook`) from `FamilyInv`: a family not in `raced`
  is revoked as a whole, has one live end, and the one request that rotates it, or
  those that revoke it, hold what is still so. The step of the refinement goes action
  by action: a login is `Open`, a rotation `Rotate`, each revocation `Close`, a step by
  which families enter `raced` `Close` of them, everything else a stutter.
* `AccountsProofs`, on credentials: `CredentialsTyping`; `ResetTries`
  (`ResetTriesBound`) and `CodeUses` (`CodeUsesBound`), where tries made are
  counted together with the requests that still may make one, and once the token
  or code is marked used nobody joins them; `CodesMatchSecret` (`CodesOfSecret`),
  strengthened by one request at most holding the users row, and what it has read
  being the codes there are. On the limiter: `WindowBounded` (`WindowBound`) from
  `HitsInv`, what was let in less than a window ago is still on the list of this
  process, so that the newest hit of any window has counted the others in it.
  On registration, both from `RegInv`: `OneAccountPerAddress` (`ClaimsMatch`), where
  `ClaimsPaired` says one by one what the property counts and `RegisteringAlone`
  that the INSERT of an address excludes the others until its commit, the claim
  included; `ActiveIsVetted` (`ActiveVetted`), strengthened by an approval in
  flight having seen its account verified, and by verification never being taken
  back. `AccountsTyping` (`PartsTyped`).
* `BackOfficeProofs`, on blasts: `BlastTyping`; `MailsBounded` (`MailsBound`), where
  a recipient not yet marked has had as many messages as there are sends that
  mailed it and have not committed, besides those lost; `Counts` (`DoneMeansSent`,
  and with it `SentNotOvercounted`), strengthened by what each send has read and
  mailed adding up to no more than the rows that will be marked. On the mailroom:
  `ExactlyOnce` (`IngestedOnce`) from `OnceInv`, the exclusion the UNIQUE message_id
  gives requests beyond `FlushLink`; `TwoBounces` (`TwoBouncesToStop`) from
  `BounceInv`, a request's row being counted for a bounce only, and its switch-off
  leaving two rows bounced. Both speak of message_ids, drawn ones included, and not
  of pieces of mail. On threads: `QuestionsReach` (`QuestionsReachDesk`) from
  `ThreadInv`, where the requests about to insert a thread are counted with the
  threads there are. On
  markets: `MarketsOfDeals` (`MarketOfDealActive`) from `MarketInv`: the market of a deal,
  and one that a request for a deal found active, is active or was switched off
  since; a request that found it otherwise raises it in its own commit.
  `BackOfficeTyping` (`PartsTyped`).
* `BrowserProofs`: `BrowserTyping` (`TypeOK`); `OneTabStaysIn`
  (`ReuseNeedsCause`), the invariant `OneFlight` being that as long as no answer was
  lost and one tab calls, there is at most one refresh on its way and it or the jar
  has the live token.

With that every invariant and every action property that a passing run checks
is proved. Only model-checked: `CallsSettle`, since liveness under fairness is
beyond the prover. The six disagreements of section 4 are TLC's: one of their
properties, `AcknowledgedMayOffer`, is about ENABLED, which it cannot reason about
either.

## 6. Plan

What is left, in this order:

1. the clock of the logout denylist against the leeway of the decoder;
2. the pure rules `sort_deals`, `pick_similar`, `estimate_finish` and the preview
   of a CSV against reference definitions on bounded inputs;
3. abstract specifications for the offers and for the accounts, as `SessionBook`
   is for the sessions, in which a race closes what it spoils, with their refinements
   proved.

## 7. Not modelled

Rendering, serialisation, images and PDFs, ciphers and password hashing, mail
transport, geocoding, configuration, seeding, migrations, metrics, the pages of
the browser client and the deployment files. They keep no state that another
part decides by, or are not for TLC. Also out: `poll_inbox`'s talk with the IMAP
server and its parsing, what is said in a thread (`post_message` appends a row
and reads none that changes), documents, tags and notes on buyers, a manager's
card. `unsubscribe` (`api/v1/desk.py`) is out as well: it would do what `SetAlerts`
does, but reaches for a lazily loaded profile in an async session, which
SQLAlchemy refuses. PROJECT.json lists every component with its status and the
reason, and every hazard with the property that covers it or why none does yet.
