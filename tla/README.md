# Verification of gihagochi ("앙코르 / encore")

Fans of amateur idols subscribe to ("cheer for") idols that administrators
have approved. One message of an idol reaches all its fans; a fan's message
reaches only the idol. This directory holds TLA+ models of the parts of the
program whose correctness depends on the order of things, TLC configurations
that check them on small instances, and TLAPS proofs for every value of the
constants.

Run from this directory: `tlc -config MCModeration.cfg MCModeration`, `tlapm
IdolApplicationsProofs.tla`.

## 1. Inventory of the system

| Part | State it keeps | Operations | Talks to |
|---|---|---|---|
| Backend (FastAPI, `src/backend/app`) | none of its own; one SQLAlchemy session, hence one transaction, per request | features `auth`, `admin`, `report`, `subscription`, `notification`, `character`, `idol_discovery` | PostgreSQL through `core/db.get_session` |
| PostgreSQL (Supabase) | profiles, idol_signup_applications, idol_profiles, subscriptions, messages, message_reads, reports, device_tokens, notification_prefs, terms_agreements, character tables; unique keys, CHECKs, RLS policies | transactions at READ COMMITTED | backend (service role), app (under RLS) |
| Mobile app (Flutter, `src/mobile/lib`) | per screen a Riverpod controller | chat room, room list, media, discovery, subscription, profile, terms, character | backend by HTTP; tables, storage and Realtime of Supabase directly |
| Admin console (Next.js, `src/admin`) | none (server actions) | approve, reject, resolve, suspend, release | backend by HTTP |
| Web (`src/web`) | none | landing page, waitlist, analytics | third parties |
| Realtime, FCM, Storage | external | best effort events, pushes, objects | app |

Interactions that matter:

* Every backend request reads committed data, keeps its writes and locks until
  the commit *after* the handler returned, and is rolled back by any exception
  (`core/db.py:42-54`). Two requests interleave between any two statements.
* Who may call is decided once, when the request arrives
  (`core/auth.py:96-149`).
* The app writes `messages`, `message_reads`, `profiles` and
  `subscriptions.last_read_at` without the backend, so the constraints and
  policies of `migrations/versions/0001_initial.py` are part of the program.
* The chat controller answers three unordered sources (answers to its own
  calls, Realtime events, the fan's taps) on one thread: everything between
  two `await`s is atomic, and nothing else is.

What each component must get right, and what makes it hard (the line of each
hazard is in `PROJECT.json`):

| Component | Must hold | Hard because |
|---|---|---|
| Sign-up, idol applications | an approval is all or nothing, decided once, stage names unique, a sign-up never half written | concurrent administrators, unique keys found out late, renames from the app, failures between statements |
| Reports and suspension | filed once, never lost, a suspension comes with its report, handled stays handled | reads without locks, updates by id alone, two row locks |
| Chat room | a message stored once and shown once, history without gaps, no message "sending" for ever | lost answers, retries, repeated and lost events, lists captured before an await |
| Chat media | a media row has its object, a recording runs only while the button is held | upload and INSERT are two systems; release during permission prompts |
| Subscriptions | starting and stopping is one step, who left stays out of the room | reads without locks, a race for the first row, two devices, suspension in between |
| Notifications | a push token belongs to the account that last registered it, settings change only when asked | rows vanish and appear between a SELECT and the write after it; the first look creates the row |
| Terms | tos and privacy are agreed to together, who agreed is not asked again | per-document staleness against one flush of both rows, deployments in between, late commits |
| Character room | no change of a column is undone by a change of another, an action shown is logged | one row written by everybody in the room, loaded without a lock, created by the first writer |
| Discovery | the page of an idol tells a state that was | several SELECTs, commits in between |
| Room list, profile, session | what is shown is what is stored | only reads, or single statements |

## 2. Plan

The core came first: the two places where administrators decide about people
(approval, suspension) and the one screen everybody uses (chat). Then the
services of the backend, which share one pattern (read, decide, flush, commit)
and therefore two modules, `Transactions` and `SharedRow`.

| # | Module | Contents | State |
|---|---|---|---|
| 1 | `ApplicationDecision` | abstract: applications decided in one step | done |
| 2 | `IdolApplications` (+ `Proofs`) | the transactions that implement it | checked, proved (with the refinement) |
| 3 | `Moderation` (+ `Proofs`) | reports and suspension | checked, proved |
| 4 | `ChatRoom` (+ `Proofs`) | the message list of a device | checked, proved |
| 5 | `MediaSending`, `VoiceRecorder` (+ `Proofs`) | upload and row, record button | checked; proved but for liveness |
| 6 | `Transactions`, `SharedRow` | what the later backend modules have in common | used by 7 to 10 |
| 7 | `CharacterRoom` (+ `Proofs`) | the character of an idol | checked, proved |
| 8 | `Cheering` | abstract: cheering starts and stops in one step | done |
| 9 | `Subscriptions` (+ `Proofs`) | the transactions that implement it, the page of the idol, the right to write | checked, proved (with the refinement) |
| 10 | `Notifications` (+ `Proofs`) | push tokens and settings | checked, proved |
| 11 | `Terms` (+ `Proofs`) | re-agreement to new documents | checked, proved |
| 12 | more proofs | the chat list, the record button, no deadlock in 2, 3, 9 and 10 | done |

## 3. Modules

### ApplicationDecision, IdolApplications

`ApplicationDecision` says what feature F-035 promises: an application is
submitted once, decided once by one administrator, and approval and a stage
name nobody else has come in one step.

`IdolApplications` is `auth/service.create_signup`,
`admin/service.approve_idol_application` and `reject_idol_application`, each
split where another transaction can come between its statements, and the stage
name edit the app does on its own.

| TLA+ | code |
|---|---|
| `role`, `app`, `idols`, `consented` | committed rows of profiles, idol_signup_applications, idol_profiles, terms_agreements |
| `pc`, `job` | the request: which statement it has executed, its parameters, its answer |
| `HoldsProfileKey`, `HoldsApplication`, `HoldsName` | the uncommitted rows and keys of a running transaction, derived from `pc` and `job` |
| `SignupRead`, `SignupInsertProfile`, `SignupCommit` | duplicate check and validation; profile flush; application, agreements and commit |
| `DecisionRead`, `Claim`, `InsertIdol`, `ApproveCommit`, `RejectCommit` | unlocked read; conditional UPDATE; role and idol_profiles flush; commit |
| `Fail` | any exception: rollback |
| `Commit` with answer "lost" | committed, but the caller never hears |

`Init` is the empty database; administrators are created by hand in the
database and are the constant `Admins`, always active here. Suspension is in
`Moderation`: it touches `profiles.status` only, which no statement of these
handlers reads.

### Moderation

`report/service.create_report` and `resolve_report`,
`admin/service.suspend_user` and `unsuspend_user`. `Admit` is
`get_current_user` with `require_role`: a suspended caller is refused, and the
question is not asked again. `suspended` is `profiles.status`, `reports` the
row of a message and its reporter with the resolution and who chose it.
`HoldsProfile` and `HoldsReport` are the row locks in the order the code takes
them: the sender's profile, then the report.

"warned" stands for the three resolutions that touch only the report. The note
of a resolution is left out (the ORM writes it only when one is given, so a
second resolver without a note keeps the note of the first: the race of
`report_resolved_twice` once more).

### ChatRoom

One fan's device in one room: `ChatMessagesController` with
`MessageRepository`, the `messages` table and the Realtime channel.

| TLA+ | code |
|---|---|
| `rows` | the room's rows by `created_at`; `ver` 0 sent, 1 edited, 2 deleted |
| `events`, `joined` | Realtime events under way; the subscription is in place |
| `items`, `view`, `hasMore` | `state`, whether `build()` returned, `_hasMore` |
| `captured` | `current`, which `loadMore` read before its `await` (and `_loadingMore` of the widget) |
| `call` | each `sendText` or `retry` under way, and what became of its INSERT |
| `stray` | an INSERT the device gave up that is still on its way |
| `edit` | the answer to an edit or deletion under way |
| `marked`, `first` | calls of `markBroadcastAsRead`; history: the rows of the first page |

Abstractions: the order of `created_at` is the order of commits; only changes
after the join are announced; the first fetch and `findByClientMessageId` are
answered in one step; one visit of the screen; one edit under way at a time;
an update event carries the version it announces. The idol's device runs the
same controller and differs in read marks and in which INSERT it does.

### MediaSending, VoiceRecorder

`MediaSending` is `pickAndSendPhoto` and `sendVoiceMessage`: the object is
uploaded, then the row that names it is inserted, then, should the INSERT seem
to fail, the object is removed by a call nobody waits for. A message id stands
for its object's name too, as in the code (`'$idolId/$messageId.jpg'`). `send`
is how far each send has come; `stray` and `removals` are requests under way
that no handler waits for.

`VoiceRecorder` extends it with `VoiceRecorderButton`. `_start` and
`_stopAndSend` are split at their awaits of the recorder; `calls` are the
calls it has not served. `recording`, `uploading`, `mounted` and `timer` are
the fields of the widget's state; `loose` the autostop timers that a second
`_start` left running. The recorder (package `record`) is external: it serves
its calls in order, a start while it runs gives up the running recording, a
stop returns the file only if something was recorded, a failing stop leaves
the microphone off, and a start after `dispose` may work or fail. `mic`,
`made` and `voice` number the recordings, so that the properties can follow
one from the finger to the table. Left out: a button that comes back to the
screen is a new one with a new state, and the path of the file.

### Transactions, SharedRow

What the handlers of the backend have in common, with `pc` how far a request
has come, `job` what it was asked, `seen` the row its session loaded and
`draft` the row as it flushed it. Each module adds its tables.

`SharedRow` is one row that several people write some columns of
(`character_states`, `notification_prefs`): load without a lock, insert if it
was missing, assign, flush, commit. SQLAlchemy leaves out of an UPDATE what
equals the value it loaded, and executes none if nothing is left (`Changed`,
`Writes`); an UPDATE waits for the row and keeps its other columns (`Update`);
of two first inserts one fails (`InsertCollides`). `AlwaysUpdates` is the
difference of the two services: `update_prefs` sets `updated_at` itself.

### CharacterRoom

`character/service.record_action`, `save_position` and `save_furniture` on the
row of one idol, with `character_action_logs` (`logged`). x and y are columns
of their own, as in the table. Left out: hunger, happiness and energy, which
no code writes, and `get_state`, which only reads (`Visible` is its answer).

### Cheering, Subscriptions

`Cheering` says what the API promises of starting and stopping to cheer for
one idol: one step per request, the last one wins, a request that finds what
it asks for is answered like one that brought it about, a page that counts the
fans at one moment and looks for the viewer at a later one.

`Subscriptions` is `subscribe` and `unsubscribe`, each a check of the idol, a
SELECT and a write of the row of (fan, idol), and `get_idol_detail`. The
refinement maps the rows (`never`, `on`, `off`) to themselves and a request to
"met" as soon as its session holds what it asked for. `newest` is the newest
message of the room, which only a fan whose row is on may write
(`messages_insert_fan`); `leaving` and `left` are history variables of
`LeaversAreOut`: whom an answer told that they left while no request of theirs
to come back was under way.

### Notifications

`register_device_token`, `unregister_device_token` and the two settings
operations; the settings are a `SharedRow`. A GET of the settings creates the
row. `Pushed` and `Enabled` are `get_active_tokens_for_user` and
`is_notification_enabled`, which a sender would call; no sender exists in this
commit. A row of `device_tokens` keeps its id when it changes hands and a new
row has a fresh one, since UPDATE and DELETE go by id (`StillThere`).

### Terms

`reagree` and `_get_stale_agreement_types` for one user over deployments of
new documents. `history` is `terms_agreements` in the order of commits;
`agreed_at` is the time the transaction began, so `Latest` is the greatest
version and not the last commit. Failures other than the IntegrityError roll
back and are left out.

## 4. Runs

| Run | Shows | Instance |
|---|---|---|
| `idol_applications` | types, approvals atomic, stage names unique, acknowledged decisions stand, sign-up whole, decisions final, every request answered, `ApplicationDecision` implemented | 2 applicants, 2 administrators, 2 names, 2 requests |
| `moderation` | types, answers true, reports stay, suspension comes with its report, every request answered | 1 fan, 1 idol, 2 administrators, 2 messages (one of the fan, one of the idol), 2 requests |
| `report_resolved_twice` | **violated**: `HandledIsFinal` | as above |
| `chat_room` | types, stored once, shown once, pages abut, the idol's messages marked as read | page size 1, 2 old rows, 4 rows, 1 client id, 2 calls, 1 event, 1 changed row |
| `chat_pending_for_ever` | **violated**: `PendingIsInFlightOrFailed` | as above without edits |
| `voice_recorder` | types, what is reported as sent is complete, a running recording is shown, a stop or the recording's own timer is due, recordings posted once, the recorder stops | 2 holds, 2 voice messages, 1 photo |
| `voice_not_held` | **violated**: `RecordsWhileHeld` | as above |
| `character_room` | types, actions logged, changes asked for, commits applied | the idol and a fan, 2 actions, 2 coordinates, 1 layout, 2 requests |
| `notifications` | types, who registered is pushed, owners sign off, settings honoured, every request answered | 2 accounts, 1 token, 2 row ids, 2 kinds of push, 2 requests |
| `subscriptions` | types, `Cheering` implemented, who left stays out, every request answered | 1 fan with two devices, the idol, 2 requests |
| `terms` | types, consent whole, who agreed is not asked again | 3 versions of each of 3 documents, 2 requests |
| `reagree_refused` | **violated**: `ReagreeIsAccepted` | as above |

Why the bounds suffice. Every interaction in the backend is a conflict of two
transactions over one row or key, and a request slot is used again after its
answer, so two requests reach every pairwise interleaving any number of times;
more slots only add waiters behind the same lock. Two users and two names make
both a shared and a free name possible. `Targets` bounds whom administrators
suspend to the sender and to an administrator, so that a caller may lose its
role while a request of it runs. In the chat, a page size of one makes every
row a page boundary; two old rows give a page to scroll to and one that is the
last; one client id with two calls covers a retry next to the send it repeats
and next to a stray request; `MaxEvents` bounds the events under way. Only
commits after the join are announced: should the Realtime server lag so far
that it announces a row older than the first page, the row would be appended
and then fetched again by scrolling up, so `ShownOnce` is claimed for a server
that lags less than a page.

Two row ids are enough for a token: one in the table, one that a session still
remembers. One fan is enough in `subscriptions`: rows of different fans meet
only in the count of fans, and the same run with two fans passes too (260 936
states). Three versions let a deployment happen before, between and after two
agreements. `character_room` is checked up to renaming of requests and
coordinates, which none of its properties distinguishes; liveness of
`SharedRow` is checked by `notifications`, without symmetry.

Two holds of the record button are what it takes for a second start to
overtake the first one's stop and to replace its timer; each has a voice
message of its own, and the photo is a send the button knows nothing of.
`MaxCalls` bounds how many taps pile up stops in front of a slow recorder;
releases and timers are not bounded by it.

`CHECK_DEADLOCK FALSE` in the chat and the recorder: with all rows used and
nothing under way the room is at rest, and so is a room whose button was held
as often as the bound allows. The backend runs check deadlock, since a new
request can always arrive.

**Fairness.** The backend properties assume that a running request goes on
(`WF` on the commit) and that a statement waiting for a lock gets it if the
lock is free again and again (`SF` on the statements): PostgreSQL queues the
waiters of a lock. Nothing is assumed about new requests, renames or failures.
The chat runs are safety only: nothing obliges a network to answer.
`CharacterRoom` and `Terms` state no liveness. `RecorderStops` assumes that
the recorder answers its calls and that timers fire, nothing of the finger or
the network.

### What the violations say

* `HandledIsFinal`: `resolve_report` checks the status on a row read without a
  lock and then updates by id alone. Two administrators both hear 200, and the
  second resolution replaces the first, while the docstring says "이미 handled면
  409" and the console "되돌릴 수 없습니다." `approve_idol_application` avoids the
  same race with `UPDATE ... WHERE status = 'pending'`.
* `PendingIsInFlightOrFailed`: `loadMore` writes back the list it read before
  its fetch; a message confirmed in between is "sending" again for ever, and
  cannot be retried. `chat_item.dart:31` says a pending item is in flight or
  failed.
* `RecordsWhileHeld`: `_recording` is set only after `hasPermission` and
  `start` were awaited, so a release before that stops nothing, and the
  recording begins with nobody holding the button. It is shown
  (`RecordingIsShown`) and ends with the timer (`RecorderStops`), which posts
  it.
* `ReagreeIsAccepted`: `reagree` inserts a row for both mandatory documents,
  and validation demands both. When one of them did not change, its row is
  there already, the flush fails and the answer is 500, every time. The dialog
  of the app would not even get that far: it sends the document it does not
  show as not agreed (422), and its gate looks for a Navigator where there is
  none.

More disagreements were met without a run; `PROJECT.json` quotes them. In the
backend: a race for the first subscription is answered 500 by an endpoint
called idempotent; a sign-off deletes a token that changed hands after the
SELECT; of two actions at a time the later may be answered with the other's,
since the ORM found nothing to write. The last is why `CommitsApply` excepts
the columns that had the value when they were loaded, and `OwnersSignOff`
speaks of the row as it was then. In the app: the pages `loadMore` adds are
never marked as read, subscribing again restores the history although the app
says it starts anew, leaving the room reports success whatever the answer, an
object is removed although its row may be there, leaving the screen does not
cancel an upload, and the push token is not registered on a sign-in.

## 5. Proofs

`IdolApplicationsProofs` proves, for any sets of users, administrators, names
and requests, from the one assumption `NullsDistinct` (the null values are not
members of the sets they complete): `TypeCorrectness`, `ApprovalAtomicity`,
`StageNameUniqueness`, `AcknowledgedDecisions`, `SignupAtomicity`,
`DecisionFinality` and `Refinement`, that every step is a step of
`ApplicationDecision` or leaves its variables alone.

The properties are not inductive. A commit writes what the transaction learnt
several statements earlier, so the invariant must say what a transaction that
has written still knows at its commit: a sign-up that flushed its profile that
the user has no row, a decision that claimed the application that it is still
pending, an approval that inserted that its name is free and its user no idol.
Those facts survive the steps of others because of the locks, so the invariant
also says that no two transactions hold the same key, row or name; an
acknowledged decision stands because its application is decided and a decided
application is never claimed. `Invariance` is the conjunction; each action is
one step of its proof.

`DeadlockFreedom` of the same module, and of `ModerationProofs`,
`SubscriptionsProofs` and `NotificationsProofs`, is what `RequestsAreAnswered`
says without fairness: a request under way can execute its next statement or
commit, or waits for one that can, or (approvals and resolutions, which take
two locks) for one that waits for one that can. `CanGoOn` restates the guards
of the actions, since the prover has no ENABLED. The reason is the order of
the locks: an application before a stage name, a profile before a report, and
the holder of the second one needs nothing more. In `Notifications` the
theorem supposes infinitely many row ids, so that a fresh one exists
(`KeysRemain`).

`ChatRoomProofs` proves all the invariants of the run `chat_room` for every
page size and every number of client ids, calls, rows and events.

`SendsPostOnce` needs the table only (`TableInv`). The unique index makes each
single insert safe; the proof shows that every path to the table (send, retry,
request given up and arriving late) goes through it.

`MessagesShownOnce`, `PagesAbut` and `BroadcastsMarked` are proved together
(`Inv`), since none of them is inductive alone. `ListsInv` says of `items`
and, while `loadMore` runs, of the list it captured, which it will put back
after rows, answers and events have come in between: each item fits the table,
no two are the same row or message, broadcasts are marked (`ListInv`), and the
list begins with the rows from the oldest one shown to the newest of the first
page (`Begins`). What the steps of the screen take from elsewhere is in the
other conjuncts: a send that is answered has its row (`CallsInv`), an event
announces a row of the table, and as new only one younger than the first page
(`EventsInv`), there is more to fetch only above a page that has rows
(`PagesInv`). An answer may put its row in the place of the pending item
without looking for the row elsewhere because a pending item is the only one
of its message on the list; that rows with the same client id are one row is
`PostedOnce`. The section on lists states what `replaceConfirmed`, appending,
replacing a pending item and a page put in front do to any list, once for all
handlers.

`VoiceRecorderProofs` proves all that is not liveness for any number of
messages, holds and calls. `SentMessagesAreComplete`: the invariant says that
from its upload on an object exists and is not being removed unless the send
failed, and that only failed sends have removals. `RecordingsArePostedOnce`:
the recorder numbers its recordings, the one under way is the last and neither
posted nor thrown away yet; a stop takes it, so that a second stop finds
nothing. `TypeCorrectness` has to count: recordings stay within the holds
because each start on its way is a hold not yet recorded (`HoldsCounted`).
`RunningRecorderIsShown` speaks of moments without calls, which is not
inductive; `Shown` says the same of every moment, since only the answer that
stops the recorder hides it. `StopsAreDue` is the safety half of
`RecorderStops`: the timer is that of the last recording or there is none, so
a second start that overwrites `_autoStopTimer` replaces it by its own, and a
timer that fires puts a stop on its way.

`CharacterRoomProofs` proves all four properties of `CharacterRoom`, for any
requests, actions, coordinates and layouts. `RowInv` says what a request that
has read or written the row still knows at its commit: a row that was there
still is, and the draft of the one request that holds the row is the row as it
is, but for the columns it writes. It holds because a row is never deleted and
an UPDATE waits for the lock.

`SubscriptionsProofs` proves `TypeCorrectness`, `LeaversStayOut` and
`Refinement` for any finite set of fans and any requests. The invariant adds
that of two requests of one fan at most one has written, that a request that
wrote still finds the row it saw, and that whoever `left` has no row that is
on and no request under way that would turn it on.

`ModerationProofs` proves `TypeCorrectness`, `TrueAnswers`, `ReportsRemain`
and `SuspensionsComeWithReports` for any people, messages and requests. Beside
the types the invariant says what a running request knows (a report that is
being created is not in the table until its commit; a resolution names a
report that is there, and its sender), that the request which has written a
report, or its key, holds it alone, and that whatever runs has a job. That no
two requests are told they filed the same report follows from the key lock;
that `HandledIsFinal` does not follow is what its run shows.

`NotificationsProofs` proves `TypeCorrectness`, `RegistrationsArePushed`,
`SignOffs` and `SettingsKept` for any accounts, devices, row ids and requests.
The invariant says of each session what the row it loaded or wrote has to do
with the table (`TokenFacts`, `PrefsFacts`): a session that deletes a token
loaded it as its account's own row and, once it holds the row, still finds its
id there; the settings a session will commit are the row as it is now but for
the kinds it was asked for. `Exclusive` carries these facts over the commits
of others. That the two tables of defaults in the code agree (`DefaultPrefs`
and that of `Enabled`) is needed for a GET to change nothing, and holds for
the three kinds of push the assumption `NotificationConstants` admits.

`TermsProofs` proves `TypeCorrectness`, `ConsentWholeness` and
`AgreementsLast` for any number of versions and requests. The invariant says
that nobody else has stored or written the keys of the rows a request has
written (`KeysInv`), that nobody agreed to a version that was not deployed yet
(`DeployedInv`), and that of the versions agreed to one is the latest
(`LatestInv`).

Every safety, action and refinement property that a passing run checks is
thereby a theorem. Left to TLC: `RequestsAreAnswered` and `RecorderStops`,
which hold under fairness and which the prover cannot state without ENABLED
(their safety halves are proved, see above), and the four properties that the
code violates.

## 6. Not modelled

* Layout, wording, analytics, landing page, waitlist: no state of the product.
* Storage policies and FCM delivery: external services used as they are. No
  code of this commit sends a push.
* The device outside the chat: `core/router` and its guards are functions of
  role and status, the session is Supabase's; the lists (rooms, discovery,
  replies) are fetched anew; profile edits are single statements; the screen
  of the character animates what the backend answers. The faults met there are
  in the findings.
* `markRoomRead` and the refresh of the room list after a message: they touch
  no state of the message list; `last_read_at` decides nothing.
* Migration 0005 (avatar forge): tables without a program.
* A response sent before its commit: FastAPI is not pinned
  (`backend/pyproject.toml:9`), and depending on its version the commit of
  `get_session` runs before or after the response leaves, so a client may read
  its own writes too early, or be told of a write that then fails. The models
  let the answer and the commit coincide.
* A lost answer in the modules over `Transactions`: the client asks again,
  which it may do anyway.
