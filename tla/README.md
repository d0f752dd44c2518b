# Specifications of the MFA project

TLA+ specifications of the Django application in `src/`: sign-in with a
password, a magic link or an OAuth provider, a TOTP second factor with backup
codes, emailed verification and reset links, and a per-address lockout. TLC
checks each module on a small instance; TLAPS proves every safety property that
the passing runs check for every value of the constants, in one `...Proofs`
module per component.

Every request runs in one gunicorn worker process (three by default), every
ORM statement commits by itself (`ATOMIC_REQUESTS` is not set and no view opens
a transaction), and all state is in PostgreSQL or in the browser's cookie. So
the unit of interleaving is the statement: a handler that reads, decides and
writes is several steps, with the steps of other workers in between, and a
worker may be killed (`--timeout 60`) between any two.

## The system

| Part | Source | State | Operations | Hard because |
|---|---|---|---|---|
| Lockout and audit log | `common/lockout.py`, `common/audit.py` | `LoginAttempt` rows | `is_locked`, `record_attempt` | check and write are apart; two horizons and a slice over one log |
| Sign-in flow | `login_view`, `magic.consume_link`, `oauth.callback`, `mfa.challenge`, `logout_view` | session rows, cookie, `pre_auth_user_id` | first factor, TOTP branch, challenge, `login()`, logout | sessions are copies written back whole; three flows share one pending user; users and devices change meanwhile |
| Emailed links | `accounts/services.py`, `magic/services.py` | three token tables, `is_email_verified` | `issue_*`, `consume_*` | test and set are apart; expiry is tested before the write; crashes between statements |
| Second factor | `mfa/services.py`, `mfa/views.py` | `TOTPDevice`, `BackupCode` rows | setup, confirm, disable, regenerate, use a backup code | get-or-create, delete-then-insert loops, saves of rows loaded earlier |
| Accounts | `accounts/views.py`, `accounts/forms.py` | the `User` row | register, profile, change and reset of the password | full-row and per-column saves from stale copies; uniqueness races |
| OAuth linking | `oauth/services.py`, `oauth/views.py` | `SocialAccount`, `User` rows, state and provider in the session | `start`, `callback`, `link_or_create` | read-then-create of two tables; one state slot per session, in a copy that is written back whole or, after a 5xx, not at all |
| Providers, mail, encryption | `oauth/providers/`, `common/emails.py`, `common/crypto.py` | none | HTTP, SMTP, Fernet | may fail or be slow |
| Demo users command | `accounts/management/commands/create_demo_users.py` | none of its own | makes or resets three users, enrols one, links one | runs again beside the users it made, on what it loaded |
| Admin site | `accounts/admin.py`, `oauth/admin.py` | none of its own | adds, edits and deletes users and their links; `createsuperuser` | stores addresses as they are typed and every flag as it is ticked, under whatever requests are in flight |
| Dashboard, forms, settings | the rest | none of their own | read-only pages, input validation | |

The parts meet in the views. `login_view` asks the lockout, then the password
backend, then the TOTP device, then `login()`, then the audit log;
`magic.consume_link` and `oauth.callback` put a link or a provider in place of
the password; `challenge` asks the lockout again, then the device or the backup
codes. They share the database, and the session carries the pending user from
one request to the next.

## Modules

| Module | Models | How it corresponds to the code |
|---|---|---|
| `Lockout` | the rule of `is_locked` | a log is the sequence of the ages of an address's failure rows, newest first; `Matching` is the query, `Recent` the slice, `IsLocked` the two tests that follow. `LockRule` is the specification: what the settings say, with no query |
| `LoginThrottle` | `login_view` and `challenge` as clients of the lockout | `Check` is `is_locked`, `Refuse`, `LoginView` and `Challenge` write the row each outcome gives; a worker remembers only that it passed the check. `Tick` ages the rows |
| `LoginThrottleProofs` | theorems about the two | |
| `LoginFlow` | sign-in and the session | a request is `LoginView`, `ConsumeLink`, `OAuthCallback` or `Challenge` (session load and first query), then `DeviceBranch` or `ValidCode` with Django's `login()`, `Record` (the SUCCESS row), `Save` (the session middleware). `how` is a history of what the request's login rests on |
| `OwnedSession` | what a session key promises to its browser | the abstract specification of `LoginFlow` |
| `LoginFlowProofs` | theorems about `LoginFlow` | |
| `OneTimeLink` | what an emailed link promises | the abstract specification of `TokenStore` |
| `TokenStore` | the three token tables | `ResendVerification`, `RequestReset`, `RequestMagicLink`, `Issue`, `Send`; `Lookup` (SELECT and tests), `Mark` (`used_at`), `Verify` (`is_email_verified`) |
| `TokenStoreProofs` | theorems about `TokenStore` | |
| `Mfa` | the device and the backup codes of one user | one action per statement: `LoadDevice`, `CreateDevice`, `ShowSecret`, `ConfirmDevice`; `Purge`, `InsertCode`; `DropDevice`, `DropCodes`; `FindCode`, `SpendCode`. The demo command is a second caller of the enrolment: it goes on only with a device that it loaded unconfirmed, and computes the code itself |
| `SecondFactor` | what the device and the codes promise | the abstract specification of `Mfa` |
| `MfaProofs` | theorems about `Mfa` | |
| `Linking` | registration, `link_or_create` and the admin's forms of users and links | `Register` and `Insert` are the form's test and `create_user` (the form's second save sets `is_active` to what it is); `FetchUser`, `FindLink`, `FindUser`, `Insert`, `Complete`, `Link` the statements of a callback after it was accepted; `AdminAdd`, `AdminEdit`, `Delete` and `AdminLink` what an administrator, or `createsuperuser`, does to the rows |
| `Directory` | what accounts and their links promise | the abstract specification of `Linking` |
| `LinkingProofs` | theorems about `Linking` | |
| `Accounts` | the row of one user and the sessions its password guards | `Begin` loads the session, `Anonymous`, `Authenticated`, `Flush` are what `request.user` finds; then `SaveProfile` (every column), `Write` (the password), `Rotate` (`cycle_key`) or `SignInAgain` (`login()` over a session that is signed in), `Save` (the session middleware), `Respond`; `get_or_make` is the demo command's reset of a password |
| `AccountsProofs` | theorems about `Accounts` | |
| `OAuthState` | `start` and `callback` over the session | `StartView` puts a fresh state and its provider into the copy of the session; `Accept` and `Refuse` pop both and compare; an accepted callback ends in `ProviderFails` (502, not saved), `NotSignedIn` (no address, or the TOTP branch) or `SignIn` (`login()`); `Save` is the session middleware; `OtherSignIn` and `Logout` are the browser's other tabs |
| `OAuthStateProofs` | theorems about `OAuthState` | |
| `MC*` | instances for TLC | symmetry sets and time-to-live values |

`Abort` and `EndUnsaved` are a request's end by an exception or a killed worker;
they may come before any statement. What a module leaves out: passwords, hashes
and codes are correct or not, chosen freely; pages and messages are dropped; IP
addresses and user agents do not matter to any test in the code. Some
modules keep history variables (`grants`, `uses`, `alone`, `moves`, `vouched`,
`matched`, `edited`, `assigned`, `overlap`, `how`, `due`, `retired`) that no action reads. In
`LoginFlow` the whole of `Logout` is one step, password changes (which
invalidate sessions by their hash) are left to `Accounts`, and the lockout's refusal
of a challenge is one way to end unsaved. Operators named `X_Mutant...` are
faulty versions of `X`; nothing refers to them, and each property is checked to
fail when one of them takes the place of `X`.

## Runs

| Run | Checks | Bounds |
|---|---|---|
| `throttle` | `TypeOK`, `LockMatchesRule`, `FailuresBounded`, `UnlockOnlyByTime`, `LockoutRunsOut`, `LockoutEnds` | 3 workers, threshold 2, window 1, duration 2, slice +1 |
| `throttle_doc` | `LockoutPersists` (violated) | 2 workers, window 1, duration 3 |
| `login_flow` | `TypeOK`, `MfaGate`, `AuditedBeforeOpen`, `ActiveGate`, `KeysRotate`, `DeletedStayDeleted`, `KeepsPromise` | 2 users, 2 requests in flight, 2 session keys |
| `token_store` | `TypeOK`, `GrantsBounded`, `GrantsInTime`, `VerifiedSpendsLink`, `KeepsPromise` | 2 links, 3 workers, times to live 1, 0, 0, timeout 1 |
| `token_single_use` | `SingleUse` (violated) | 1 link, 2 workers |
| `mfa` | `TypeOK`, `ConfirmedProven`, `UsesBounded`, `CodesBounded`, `BatchComplete`, `ReplacedStayDead`, `KeepsPromise` | 2 requests, 2 devices, batches of 2, 5 codes |
| `mfa_one_batch` | `OneBatch` (violated) | 2 requests, batches of 2 |
| `linking` | `TypeOK`, `OneAccountPerAddress`, `LinkVouched`, `MovesBounded`, `MovesNeedNewAddress`, `KeepsPromise` | 2 requests, 1 identity, 2 account ids, 2 addresses, one with two spellings |
| `linking_verified` | `CreatedVerified` (violated) | 1 worker, 1 identity |
| `accounts` | `TypeOK`, `FormerPasswordsEnd`, `RevivedByOverlap`, `StaysSignedIn` | 2 requests, 3 session keys, 2 new passwords |
| `accounts_reset` | `FormHasStash` (violated) | 1 worker, 2 keys, 1 new password |
| `oauth_state` | `TypeOK`, `OwnState`, `RetiredRefused`, `DueHonoured` | 2 browsers, 2 requests, 3 session keys, 2 states, 2 providers |

`throttle`: with three workers and a threshold of two, a request can be past the
check while two failures of others are written, so logs grow to four rows and
exceed the slice's threshold + 1; ages from 0 to 3 reach both horizons and pass
them. Rows older than both can match no query and are dropped (`MaxAge`), which
makes the state space finite without bounding how long the run lasts.
`LockoutEnds` assumes weak fairness of `Tick` only: the clock goes on. No
request is assumed to come or to end, so the property says that the lockout
expires by itself, and that no stream of refused attempts prolongs it.
`LockoutRunsOut` gives the reason as a step property: `TicksLeft`, what the
newest failure has left of the duration plus a full duration for every request
past the check, never grows while the address is locked, and every tick lowers
it.

`login_flow`: two keys let one session row be replaced by another (the rotation
of `login()`), and a second worker holds a copy of either while that happens.
Once both are drawn no further session can be made, which stops behaviours early
but cuts none short that the properties are about: each speaks of a key and of
the request that writes it. `Users`, `Workers` and `Keys` are interchangeable,
and no property is a liveness property, so symmetry is sound.

`token_store`: one link can be looked up by three workers before the first of
them marks it. The times to live differ so that a link of one kind outlives
another; the timeout of one tick lets a request that judged a link in time
finish after its expiry.

`mfa`: two devices allow a disabled one to be replaced while a request still
holds it; five codes are two full batches and the beginning of a third.

`linking`: with two ids one account can be deleted and another made for the same
address, or the two addresses can have one each, so that a link has somewhere to
move. Of two spellings of one address an administrator can type either. Two
callbacks of the one identity overlap, and with different addresses, because the
profile may change at the provider; a second identity, which the theorems
include, takes TLC beyond reach of a quick run. Ids are drawn once, as from a
sequence. `linking_verified` allows the same steps, the administrator's too.

`accounts`: a sign-in and a password change draw a key each, so three keys leave
one session of the former password beside the one that changed it; two new
passwords (`MaxPassword`) let a change be overtaken by another and a whole-row
save bring back either. Passwords are numbered because every `set_password`
makes a new salted hash, even of the same text.

`oauth_state`: two states let a second start overwrite the first, from the same
browser or from another; two requests are a slow tab that holds a copy of the
session beside a fast one; three keys let a session be rotated, flushed and made
anew while that copy is out. States and keys are drawn once, so behaviours end
when both are used up, but callbacks, reloads and logouts go on.

`KeepsPromise` is in each module the abstract specification under the mapping
that the module's `Promise` instance gives. It rules out what no single invariant
names: a change of the abstract state by a step that has no business to make it.

The system may always go on: a request can come in any state, so deadlock is
checked in every run.

### What the runs show

- The lockout's verdict equals the rule of the three settings, and the
  check-then-insert race lets a window hold at most one failure more per other
  worker than the threshold (with three workers, 7 instead of 5).
- The duration has no effect when the window is the shorter of the two, as in
  the defaults (15 and 30 minutes): the docstring of `is_locked` promises
  otherwise (`throttle_doc`). It would be right for a threshold of one failure
  and a duration within the window (theorem `DurationKept`).
- No session opens without its second factor, as long as the user had a
  confirmed device from the time the request learned who the user is; no
  session opens before its SUCCESS row is written; signing in moves the session
  to a new key; a deleted session stays deleted although slower requests still
  write their copies; and a key that the browser knows never opens the session of
  anybody but the user it was signed in as when it was sent (`KeepsPromise`). A user who was inactive all along gets a session through
  the OAuth callback only (`ActiveGate` has to name it as the exception).
- A link is honoured by at most as many requests as overlap, and not later than
  one worker timeout after its expiry; it is spent before an address counts as
  verified, unless an administrator ticks the box. It is not single-use as its
  docstring says (`token_single_use`).
- A confirmed device is always one for whose own secret a code was entered,
  however enrolments and removals overlap, and a device that was removed never
  gates sign-in again (`KeepsPromise`); a backup code that was replaced is
  never accepted again; codes are bounded by one batch per worker, and not by
  one batch (`mfa_one_batch`). A generation that no other request disturbs leaves
  exactly the batch it shows, whatever a killed worker left behind, a half-filled
  batch or codes whose device is gone (`BatchComplete`).
- Registrations and callbacks never give two accounts one address, although their
  tests ignore case and the constraint does not: they lower-case what they store.
  The admin's forms and `createsuperuser` do not (`normalize_email` lower-cases
  the domain only), and two accounts can share an address up to case, but only if
  an administrator gave one of them capitals (`OneAccountPerAddress`).
- Unless an administrator linked it, an identity is linked only to an account that
  at some moment had an address its own provider had reported (`LinkVouched`). At
  some moment, because the callback reads the address before it links, and an
  administrator may change it in between or afterwards: the link stays. A link
  moves only by callbacks that overlap the one that made it, and only if the
  provider's address changed between them or an administrator had a hand in it
  (`MovesBounded`, `MovesNeedNewAddress`). A callback that dies between its two
  saves leaves an account that later callbacks link but do not verify
  (`linking_verified`). An account that no administrator edits keeps its address,
  also when a callback repairs one that was deleted under it (`KeepsPromise`).
- A session of a former password acts only through requests that were under way
  when the password changed, and who changes the password stays signed in,
  unless another request overlapped. A replaced password comes back only when a
  form that saves every column was in flight meanwhile (`RevivedByOverlap`). A reset link that is followed in a browser
  whose session carries a former password shows a form that cannot be sent: the
  template's look at `request.user` deletes the session after the id was put
  there (`accounts_reset`).
- A callback goes on to the provider only with a state that its own browser drew
  for that provider (`OwnState`), although sessions are copied, rotated and
  written back late. What was popped or overwritten is refused for good, provided
  that no other request of the browser held a copy when the response was written
  (`RetiredRefused`): a slow tab may still bring it back. A state that was stored
  undisturbed is accepted, and again after a failure at the provider, because the
  502 is not saved and the pop is lost with it (`DueHonoured`).

## Proofs

`LoginThrottleProofs` assumes only the named assumptions of `Lockout` and
`LoginThrottle` (a threshold of at least one, natural numbers for the other
settings, a finite nonempty set of workers).

- `LockedIsRule`: on an ordered log the matching rows are an initial segment
  of it (`CountLemma`), so the slice keeps the newest rows and can hide a row
  of the window only if enough others are in it to reach the threshold anyway.
  `DurationHasNoEffect` follows when the window is the shorter horizon.
- `TypeCorrect`: the log stays ordered because new rows have age 0 and come
  first (`NewRow`), and all rows age alike (`AgedRows`). `LockCorrect` follows
  with `LockedIsRule`.
- `FailuresBound`: `FailuresBounded` is inductive as it stands, because it
  counts the requests past the check together with the failures: `Check` adds
  to the one only when the other is below the threshold, an answer takes one
  from the first for at most one it adds to the second, `Tick` only removes
  rows from the window (`WindowGrowth`).
- `UnlockByTime`: a request leaves the log as it is or adds a row of age 0, and
  by `WindowGrowth` the window does not lose rows by it.
- `LockRunsOut`: while the address is locked nobody gets past the check; a
  request that was past it gives up a full duration of `TicksLeft` and resets
  the age of the newest row in return, which is worth less; `Tick` ages that row.
  With weak fairness of `Tick` this is the rank by which `LockoutEnds` holds; the
  step from the one to the other is an induction over the rank, and stays with
  TLC.
- `DurationKept` and `OneWorkerThreshold` say when the documented rule holds:
  the first by `LockedIsRule`, the second by `FailuresBound`.

`TokenStoreProofs` assumes `TokenAssumption`: natural numbers for the times to
live and the timeout, a finite nonempty set of workers. It proves, for any set
of tokens:

- `TypeCorrect`: the only delicate step is `Tick`, which stays within the
  timeout because it waits for the workers that have used it up.
- `InTime` and `VerifiedSpends` (whose statement exempts the administrator's form)
  rest on the inductive invariant `Lives`: a
  mailed link has a row; a request that consumes a link holds a mailed one,
  whose age is at most its time to live plus the time the request has been busy
  (the link was in time when the request looked, and both have aged alike); a
  request about to verify has spent a link that proves the address. `TypeOK`
  says nothing of this, and neither property is inductive without it.
- `GrantsBound`: `GrantsBounded` counts grants and requests in flight together.
  `Lookup` adds to the second only while the link is unused, when there are no
  grants; a return moves one from the second to the first (`InFlightGrowth`,
  `GrantStep`).
- `Refinement`: the initial states are initial states of `OneTimeLink`
  (`PromiseInit`), and every step is one of its steps or leaves its variables
  alone (`PromiseStep`), by `Lives` and `GrantsBounded`.
- `OneWorkerSingleUse`: with one worker `GrantsBounded` is the single use that
  the docstring promises.

`LinkingProofs` assumes `LinkingAssumption`: lower-casing is idempotent, the
markers for no user and no identity are not among the users and identities, and
the workers are a finite nonempty set. Users, identities and spellings may be
infinite. The administrator may take any step in any state. The inductive
invariant `Inv` has four parts besides `TypeOK`:

- `Addresses`: spellings are unique in the table (`Stored`), every address a
  request carries is in lower case, and so is every stored one but those of
  accounts an administrator edited. Without it `OneAccountPerAddress` is not
  inductive, because the constraint compares spellings and the query ignores
  case.
- `Creators`: the account a callback is about to complete is drawn, is no other
  callback's, and has the callback's address while it exists, unless it was
  edited. So when `Complete` brings back a deleted row that no administrator
  touched, it is the same address (`SameAddress`, `Appears`). `TypeOK` is
  inductive only together with it.
- `Vouched`: a pair of an identity and an account is in `matched` at the latest
  when the account has an address that was reported for the identity
  (`MatchedNow`), and the account that a callback is about to complete or link is
  matched with its identity. `matched` only grows, so this outlives edits,
  deletions and repairs.
- `MatchedStays`: the address of a matched account that was not edited is one
  the identity's provider reported, now and if the row should be created again.

`OneAddress` and `Vouching` follow from `Inv`: of two accounts with one address up
to case the spellings differ, so one of them has capitals. `MovesNeedAddress`: by
`MatchedStays` and `Stored` the account a link moves to, if it was not edited, has
an address that was reported, and by `Stored` not that of the account it leaves. `MovesBound` is inductive with `TypeOK` alone: it counts moves together
with the callbacks past strategy 1, to which one is added only while the identity
has no link (`LinkingGrowth`); the link an administrator makes starts a new count,
with the callbacks already on their way.

`Refinement` maps the rows to `Directory`: a row that is written either was there
with the same address (by `Creators` when a callback completes it), or is the
administrator's, or opens its account, and then no account that is not edited
holds the address, because by `Stored` the constraint on spellings is one on
addresses for them (`PromiseWrites`). `Link` connects an account that was matched,
by `Vouched`; `Delete` closes the account with its links.

`OAuthStateProofs` assumes `NoneAssumption` only: the marker `None` is none of
the browsers, keys, states and providers, all of which may be infinite sets. No
property is inductive by itself, because a copy of a session can be written to a
row long after it was read. The inductive invariant `IInv` follows the copies:

- `Owned`: the cookie of a browser and the keys its requests hold were drawn for
  it, so a response writes no row that another browser can load (`KeysApart`).
- `Slots`: a state sits, in rows and copies alike, only in sessions of the
  browser that drew it and beside the provider it was drawn for (`Paired`).
  `Carried` says the same of the state an accepted callback brought, and that a
  callback's copy has been popped. `OwnState` follows.
- `Gone`: a retired state is in nothing that a browser can load and in no copy.
  It holds when the state is retired because the response was alone in its
  browser, and stays true because new states are fresh.
- `Undisturbed`: while a state is due its browser runs accepted callbacks only,
  none of which has got as far as writing. With it `DueHonoured` is inductive.

`LoginFlowProofs` assumes `NoneAssumption` and `RowAssumption` only: the marker
`None` is no user, no key and not the content of a session row. Users, keys and
workers may be infinite sets. `StepCases` first reduces a worker's actions to beginning,
logging in, remembering the first factor, recording and ending, so that each
proof has one case for each of these. None of the properties is inductive,
because a response writes a copy read long before. The invariants are:

- `Holders`: a key that was sent is held by requests whose copies carry the same
  user as the stored row, or nobody as it does, as long as there is one; a key that was not
  sent yet is held by the request that drew it alone, and that request has
  logged in. So a response changes no row from anonymous to signed in under a
  key the browser knew (`KeysAreRotated`).
- `SentRows`: a row carries a user only under a key that was sent.
- `Reasons`: a request whose copy carries a user holds a sent key (then the row
  carried one already) or has logged in itself and notes a second factor or a
  moment without a device, a moment of activity or the OAuth callback, and, once
  it is at the save, its SUCCESS row. `GateHolds`, `OpenIsAudited` and
  `InactiveKeptOut` are read off the one response that opens a session
  (`OpensFacts`).
- `Refinement`: a key becomes known with its first response, which starts its
  session (`PromiseStarts`); what deletes a row that was known ends it
  (`PromiseEnds`); a later response writes a copy with the row's own user, by
  `Holders`, and changes nothing in `OwnedSession`. That the copy carries some
  user whenever the row does, which is enough for `KeysRotate`, is not enough
  here.

`MfaProofs` assumes `MfaAssumption`: finitely many workers, a batch of at least
one code, and that no device is a code. Devices and codes may be infinite.

- `TypeCorrect` needs `Loaded`: a device that a request holds was made.
- `SecretIsProven`: `ConfirmedProven` is inductive as it stands, because the
  confirmation updates the row that was loaded and only while it exists.
- `ReplacedIsDead`: a code no longer stored is not spent, and by `UnspentUnused`
  has no uses, before and after; what was made once is never made again.
- `UsesAreBounded` counts the uses of a code with the requests about to use it:
  one joins only while the code is unspent, when by `UnspentUnused` there are no
  uses; a use takes one from the other count.
- `BatchesAreBounded` counts the stored codes with those the generations under
  way have yet to insert (`Pending`, at most a batch per worker): a DELETE
  starts a batch and removes all codes, an INSERT takes one from the first.
- `BatchIsComplete`: while a generation is alone its remaining inserts and the
  stored codes make a batch (`Whole`), since nobody else writes.
- `Refinement`: the device that gates sign-in is the confirmed one, removed
  devices are those made and no longer stored, offered codes those ever made.
  The confirmation finds its row stored, so it enrols no removed device, and by
  `OneDevice` (the INSERT needs an empty table) no other one gates beside it
  (`PromiseDevice`); a code is offered, accepted and withdrawn within the bounds
  that `CodesBounded` and `UsesBounded` give (`PromiseCodes`).
- `OneWorkerOneBatch` and `OneWorkerOneUse`: with one worker these bounds are
  the single batch of single-use codes that the README of the application
  promises.

`AccountsProofs` assumes only that the bound on passwords is a natural number;
workers and sessions may be infinite. The inductive invariant is `Current`: a
request is at a step its view can be at (`Course`), no copy of the row has a
password from the future (`Past`), and, unless the request is marked as
overlapped, what it knows of the password is true: the hash that let it act, and
the hash its session has or is about to get (`Knows`), also when a sign-in
replaces a session that was signed in already (`AgainFits`). A step that changes the
password marks everyone in flight; any other leaves the marks of the others
alone (`WritesFacts`, `ReadsFacts`). `Knows` also says that an unmarked copy of
the row carries its password, so what a form writes back is older only if its
request is marked (`RevivedOverlaps`); with one worker nobody is ever marked and
the password set last stands (`OneWorkerKeepsNewest`).

The theorems named `OneWorker...` show where the documented behaviour is lost:
in the overlap of requests, and nowhere else.

Only model-checked: `LockoutEnds`, which is a liveness property (its rank is
proved, see `LockRunsOut`).

## Plan

1. Done: the lockout, the sign-in flow, the links, the second factor, account
   linking, the user row and its sessions, and the OAuth state, each with its
   proofs.
2. `SignInAudit`: the lockout composed with the flow, from the first factor to
   the challenge, to ask which attempts leave a row (the README of the
   application promises one for every attempt).

## Not modelled

- The providers' HTTP requests and their timeouts, Fernet and SHA-256, templates,
  and forms and validators that look at one input only: data without state.
- The dashboard and the health probe: they only read.
- The command's creation of its users, which races registration for the unique
  constraint as `Linking`'s `Insert` does, and its link to a fixed Google id, which
  no callback reports.
- A profile edit saves every column of the user as it was loaded, so it can undo
  a verification or a deactivation that another request committed meanwhile. The
  step is in the model (`SaveProfile`); what is checked of it is that it revives
  no former password for longer than the requests in flight.
- The admin's forms of devices, backup codes, tokens and login attempts: they can
  write any column, `confirmed` and `used_at` among them, and the properties of
  `Mfa`, `TokenStore` and `LoginThrottle` speak of what the application does by
  itself. The branch of `get_or_start_device` for a device whose secret is empty
  is left out with them, since nothing else writes one.
- `magic.consume_link` looks at its session only after the link was consumed and
  the device looked up; `LoginFlow` loads it at the start of every request, which
  lets the copy be older than it can be there, never newer.
- How long a session lives, and the id in it that a reset waits for: no text of
  the repository sets a limit, so there is no property of it.
- A second identity in the run `linking` (the theorems include any number).
- Settings, URLs and deployment, apart from the values that appear as constants:
  the lockout's three settings, the times to live, the worker timeout.
