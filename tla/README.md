# Erria outreach agent: models, checks and proofs

The agent watches for business triggers on shipping accounts, drafts outreach with a
model, lets humans review it, sends some of it with nobody reading it (Tier 1), follows
up, classifies buyers' replies and hands the delicate ones to a human. The code is small;
what is hard in it is that almost nothing is serialized. Requests, worker handlers and cron
jobs read rows in one statement and write them by id in another, and between the two
anything else may happen. These modules say what survives that, and where it does not.

## 1. Inventory

| Part | State it keeps | Operations | What makes it correct |
|---|---|---|---|
| Review and dispatch: `console-api/src/messages`, `domain/src/dispatch`, `worker/src/routes/dispatch-message.ts`, `worker/src/jobs/reconcile-stuck-sends.ts` | `Message` rows | edit, reject, approve; dispatch (call, autonomous handler, sweep); retry and flag | sent at most once, never undecided, never against the kill switch or an escalation; authorship kept; an approval settles |
| Tiering: `domain/src/tiering`, `domain/src/escalation/open-escalation.ts`, `console-api/src/accounts` | `Account.currentTier`, `cleanApprovalsCount`, `TierHistoryEvent` | clean approval and promotion, escalation, trigger tier, manual override, resolve | Tier 1 only by earning it; an escalation overrides; the timeline explains the tier |
| Flow 1, trigger processing: `console-api/src/triggers`, `worker/src/routes/process-trigger.ts` | `Trigger`, its `Message`, `AuditSample` | record, draft, hold, file, send, sample | deadlines and held drafts are read by a human; first autonomous send sampled; the status is true |
| Follow-up cadence: `worker/src/jobs/followup-cadence.ts` | follow-up `Message` rows | the daily job | at most N, at least D days apart, each with news, none after a reply |
| Flow 2, replies: `console-api/src/inbound`, `worker/src/routes/classify-inbound.ts`, `console-api/src/escalations` | inbound `Message`, `Escalation`, `Resolution` | receive, classify, escalate, link; resolve, link, unlink | nothing delicate passes for harmless; one resolution and one reply per escalation |
| Settings: `console-api/src/settings`, `console-web/src/SettingsPage.tsx` | the `Setting` row; each page's state | propose, confirm, pause, resume, save | a confirmation writes what it showed; the page tells the switch's state |
| Nightly backup: `deploy/scripts/backup-postgres.sh`, `deploy/crontab` | dumps in Blob Storage, two metrics | dump, verify, upload, read back, prune, report | a heartbeat means a dump can be restored; no silent failure |
| Send Audit: `console-api/src/audit`, `console-web/src/SendAuditPage.tsx` | `AuditSample` verdicts; the page's list | list, mark | the list tells the verdicts on record |
| Import and seed: `packages/db/src/seed` | the same tables | validate a file, one transaction per row | running a file again adds nothing; a trigger's vessel is its account's |
| Queue, counts, account pages: `console-api/src/queue`, `nav-counts`, `console-web/src` | page state | show; edit, save, approve, reject a draft | an approval sends what was on show |
| Sign-in and access: `console-web/src/auth`, `api.ts`, `console-api/src/auth` | browser session | login, renewal, expiry, logout, a 401; guards | a session ends for a reason, and a refused token stays out |
| Deployment: `deploy/deploy.sh`, compose, `infra` | realm file, containers | migrate, render, recreate, check | the running realm is the rendered one |
| Developer tooling: `scripts` | issue assignees | pick, claim, start | no ticket dispatched twice |

How they meet. `console-api` and `worker` are two processes over one Postgres database.
The console calls the worker over HTTP: `process-trigger` and `classify-inbound` are
awaited, the dispatch after an approval is not (`messages.controller.ts:52`), so it may be
lost. Cron starts the worker image with `--job=`. Everything else they share is rows;
transactions are at Postgres' default, read committed. Escalations reach dispatch through
`agentSendDisabled`, the kill switch through the settings row, and a sent message reaches
tiering through `recordCleanApproval`.

What is hard: overlapping handlers on one row; settings and tiers read before a model call
and used after it; lost calls and killed handlers; jobs that work for hours from what they
read at the start; two humans at two screens; answers that reach a page after it was left,
or a session after it was renewed; an import stopped half way and run again. `PROJECT.json` lists the hazards line by line.

## 2. Modules

| Module | Models | State and actions |
|---|---|---|
| `Schema` | the enumerations of `schema.prisma` | constants only |
| `Policy` | the pure rules: tier recommendation, promotion, what an escalation or a trigger does to an account row, the autonomous-send decision, sampling, the hard-trigger decision | operators, used by the modules below |
| `Dispatch` | review and dispatch, one action per database statement | `msg` is the table; `pc`, `job`, `seen` a dispatch's place, message and stale copy of the row; `todo` a sweep's list; `opPc`, `opMsg`, `keep` a console request; `calls` what is on its way to the worker |
| `AccountTier` | every transaction that writes the tier or the progress, as a read step and a commit step | `account` is the row, `seen` what each transaction read, `event` the newest timeline row |
| `ProcessTrigger` | the Flow 1 handler statement by statement; dispatch is one step here, its interleavings are `Dispatch`'s, and the follow-up job is what it writes here | `trigger`, `message`, `sampled` tables, `message` also of follow-ups and replies at Tier 1 (`Others`); `handler` each run's place and what it read before the model call |
| `FollowupCadence` | the daily job on one trigger | `followup` rows, each with the limits its run worked with; `sent` in the order of `sentAt`; `run` each run's place and readings |
| `ReplyHandoff` | Flow 2 from the stored reply to the resolved escalation | `inbound`, `escalation`, `resolution`, `reply` tables; `handler` each classification; `user` each resolve request |
| `ConsoleSettings` | the settings row, the screen of each admin and the calls on their way to the server or back | `panel` is the React state, `request` the calls: sent by a click, served by the row at some later moment, answered or lost; names are its own, as its theorems share a module with those of `ConsoleTab` |
| `NightlyBackup` | the script step by step, its trap, cron's `&&` | `blobs` the container, `dump`, `problem`, `doomed` a run's variables, `heartbeats` and `failures` the metrics; `Faults` what pg_dump may leave in the file |
| `TriggerImport` | the CSV import and the posts of triggers, one action per statement of a row's transaction | `known`, `owner`, `contacts`, `triggers` the tables; `holder` the row locks; `pc`, `rows`, `found` each writer's place, rows to go and what its queries found |
| `BrowserSession` | one tab's session and the calls its pages make | `view`, `token` the store's state; `stored`, `justLoggedOut` session storage; `calls` each call with the token it was sent with and who still waits for it |
| `ReviewPage` | the account page and the draft it shows | `page` the React state; `draft`, `escalated` the server's |
| `AuditPage` | the Send Audit page and the samples | `list` the React state; `samples` the verdicts |
| `ConsoleTab` | the composition of the three: one screen at a time, unmounted when it, the session or the document is left | `screen`, and the variables of all three |
| `MessageLife` | the abstract life of a message: written, perhaps edited, decided once, then one mail and "sent", or none and a human | `status`, `text`, `mails` |
| `DispatchLife` | `Dispatch` seen as that life, by a refinement mapping | |
| `MC*` | the symmetry sets and the inputs TLC uses | |
| `*Proofs` | theorems about `Dispatch` (with its refinement of `MessageLife`), `AccountTier`, `ProcessTrigger`, `FollowupCadence`, `ReplyHandoff`, `NightlyBackup` and `TriggerImport`, and in `ConsoleProofs` about the screens, `ConsoleTab` and `ConsoleSettings`, each with its inductive invariant | no state of their own |

`AccountTier`, `ProcessTrigger`, `FollowupCadence` and `ReplyHandoff` extend `Policy`;
`ReviewPage` and `AuditPage` extend `BrowserSession`, and `ConsoleTab` both; the rest stand
alone. The components share the account, and each module models the part of its
surroundings that it depends on as actions of their own with the same name
(`OpenEscalation`, `Promote`, `SwitchAutonomousSending`, ...), free to fire at any time the
code allows them.

Conventions. A definition has the name of the function or the statement it stands for. A
body, a name or a dump is a model value or one of a few. Model output is a nondeterministic
choice over what the schema admits. Definitions whose comment starts with "Bug:" are
mutated forms of the one that follows: each shows that a property would notice that mistake,
and none is part of a specification. History variables (`overlapped`, `piled`, `interfered`, `disturbed`,
`rendered`, `counted`, `credit`, `window`, `first`, `preceded`, `swept`, `composed`, `answered`,
`ended`, `whole`, `alone`, `last`, `refused`, `doubt`, the `fallback` of a follow-up's row and the
`diff` of a confirm)
are written and never read by the code's actions.

What the modules take for granted: a single-row update by id is atomic; a transaction
commits or leaves nothing; a handler that dies leaves what it had committed; the clock does
not run backwards; a row that a transaction has written stays locked until it ends, and the
insert of a unique key waits for another open insert of it; an abandoned request may still be
carried out; two backup runs never start in the same second, and none lasts past a
second midnight.

## 3. Runs

| Run | Question | Instance |
|---|---|---|
| `dispatch_overlap` | what survives every interleaving on one message | 1 message, 2 requests, 1 call, 1 sweep, 1 escalation, 1 crash |
| `dispatch_serial` | what serialization would buy: `Dispatch` implements `MessageLife`, and what a sweep takes up settles | 2 messages, 1 request, 1 sweep, calls lost, no crash, with fairness |
| `dispatch_twice` (violated) | is dispatch idempotent, as its comment says? | a slow call and a sweep |
| `tier` | what survives two overlapping transactions, and how tier, progress and timeline agree until the first overlap | 2 transactions, 2 scores around the bar, a damaging and a harmless rule, threshold 2 |
| `tier_promoted` (violated) | do hard triggers override the tier, always? | the same |
| `trigger_drafted` | what becomes of two triggers processed at once, and which first send is sampled | 2 triggers, 1 follow-up or reply at Tier 1, 1 loss, the sweep, the follow-up job |
| `followup` | the limits of the cadence while everything moves around the job | 1 run at a time, at most 1 follow-up and 2 days apart, by default 2 and 1, 3 days, 2 rows |
| `handoff` | a reply posted twice, two escalations, two colleagues | 1 letter, 2 rows, 2 escalations, 2 users |
| `settings` | what a page shows and what a confirmation writes | 2 admins, 1 field of 2 values, 2 calls under way |
| `import` | imports and a post that overlap, stop and run again | 2 imports and 1 post at a time, 4 starts, files of 2 rows over 2 accounts, 1 vessel, 1 contact with and without email |
| `console` | what late, lost and unordered answers do to a tab | 1 tab, 2 calls under way, 2 tokens, 1 text beside the agent's, a list of 1 of 2 samples, the queue and one of the two pages |
| `backup` | overlapping runs, failures, stops and midnights | 1 nightly and 1 manual run at a time, 3 starts, 4 days, retention of 1, dumps the checks can tell |

A violated run checks what a document or a comment says of the code, and TLC's counterexample
is a behaviour of the code; section 6 has the quotations.

Why the bounds are enough to be worth something. Each hazard needs two actors on one row,
and each instance has two: two requests, a call and a sweep, two transactions, two triggers,
two users, two admins, two calls of a page, two backup runs, two imports, two calls of a tab. Thresholds are reached and passed (two approvals
with a third to spare; a second follow-up when one is allowed; a dump older than the
retention). `MaxCrashes`, `MaxLosses`, `Others`, `MaxEscalations`, `MaxApprovals`,
`MaxRows`, `LastDay`, `MaxRuns`, `Requests`, `MaxStarts`, `Slots`, `MaxTokens`, `MaxSamples`
and `visited` are bounds of the instance, not of the code;
the proofs are for every value of the constants they mention. Some limits are TLC's: two
follow-up runs at once, two settings fields or three settings calls under way do not finish
in a few minutes. Nor do three calls of a tab under way: the first 9.5 million states of that
instance showed nothing new. `followup` leaves out the trigger that cites a deadline (`MCSpec`):
all that a deadline does there is to have its follow-ups held, as a draft of low confidence is. When a page is left and none of its calls is under way,
`ConsoleTab` forgets its draft or its samples and lets the next visit find any: another
account may be opened, and others go on marking.

`CHECK_DEADLOCK FALSE` stands where the system really comes to rest: all triggers handled,
the letter dealt with, the last day over.

### Properties under a condition

Some properties hold only until something the code does nothing to prevent, and say nothing of
what happens after it:

* `~overlapped`: two transactions on one account at once (`EscalatedIsNotTierOne`,
  `ProgressMatchesTimeline`, `TimelineExplainsTier`).
* `~piled`: a follow-up written beside one not yet sent. And the limits `WithinMaximum` and
  `SpacedApart` speak of are those each follow-up's run worked with: the configured ones, which the
  model never changes, or the defaults when its read of the settings failed.
* `~preceded`: a follow-up, a colleague's reply or a buyer's, sent at Tier 1 before the account's
  first unreviewed send; and sends of the sweep, which samples nothing (`FirstSendIsSampled`).
* `~interfered`: since the settings page was opened, a write it was not told of changed the row
  (another admin's, a late one of a page that was left or of a request it gave up on, or its own
  with the answer lost), two of its calls were under way at once, or its form was edited while a
  proposal was asked for or on show. Calls that fail before their write, or that ask for nothing
  but to be shown, are not set aside.
* `~disturbed` (on the Send Audit page: another reviewer or a new sample, or two calls at once) and
  a list that failed; only the first page of the samples.
* `~doubt`: an edit was cancelled, a save overlapped another call, also one of a page that was
  left, or another reviewer acted.
* `ContactsAgree`: a file in which every row that names a contact has its email, or none has. A
  second run is compared with a first one that was complete and undisturbed.
* `e.trapped` and `Faults`: `NoSilentEnd` is about runs that came as far as setting their exit
  trap, and it and `HeartbeatMeansRestorable` are checked with dumps that the script's checks can
  tell. A run the machine stops tells nobody; the missing heartbeat does.
* `ReplyEndsTheCadence` is about runs that begin after the reply.
* `LifeRefined` holds of one request and one dispatch at a time.

The condition is part of what they say, and where a document promises more section 6 says so. The unconditional ones (`NoApprovalLost`,
`OnlyEarned`, all of `dispatch_overlap` and of `handoff`, and of `trigger_drafted` all but
`FirstSendIsSampled`) hold whatever overlaps.

### Fairness

Only `FairSpec` of `Dispatch` has any: a dispatch that has started goes on and a sweep that has
taken its list works it off (a process that neither dies nor hangs), and a call to the worker ends,
by arriving or by being lost. Nothing starts a sweep, makes a human act, makes a call arrive or
resolves an escalation. So `SweepSettles` speaks of the messages a sweep has taken up, and of no
others: `deploy/crontab` schedules no sweep, an approval whose call was lost stays approved until
somebody starts one by name, and no property says otherwise.

### The refinement

`MessageLife` promises what the documents do: review may change a text, a decision is made
once and for good, at most one mail leaves, and the status ends up telling which. `DispatchLife`
maps it onto the rows (`status`, `body`) and the mails (`rendered`); requests, snapshots,
sweeps, calls, the kill switch and escalations do not show. `LifeRefined` holds in the
instance of `dispatch_serial`, and section 4 proves it for any number of messages. It does not with two requests (the second decision or edit
lands on a row that was already decided: `MessagesService` checks the status in one statement
and updates by id in another) nor with two dispatches (`dispatch_twice`): the code implements
the promise exactly as far as nothing overlaps.

## 4. Proofs

The theorems hold for every value of the constants, from the assumption named in the module.
Hardly any of the properties is inductive: each speaks of rows, and a step that writes a row from
something read before needs to know what may have been read. So each proof has an invariant
that says what the handlers in flight carry, one step per action of the specification, and
lemmas for the kinds of step that many actions share (a handler goes on and writes nothing, a
row is added, a row's status moves, one call changes). TLC found no violation of any of these
invariants on the component's instance before its proof was written (all but `LifeInv`, whose
module has no run of its own).

| Theorems | Inductive invariant | What it adds, and why it is needed |
|---|---|---|
| `Dispatch`: `OriginalTextKept` | `OriginalInv` | the text a request is about to keep as the original is the agent's |
| `DecisionBeforeSend` | `DecisionInv` | a dispatch past its read has a message somebody decided on |
| `AuthorshipIsKept` | `AuthorInv` | the role a dispatch will write back is the one its stale copy justifies |
| `PauseIsEffective`, `EscalationIsEffective` | `WindowInv` | what holds now is in the window of every running dispatch, and one past a check has in its window what the check asked for |
| `CleanApprovalsAreBacked` | `CleanInv` | of each message, what was counted and the dispatches that may still count add up to no more than the mails; a bare `counted <= rendered` says nothing of the dispatches between the mail and the count |
| `LifeIsCarriedOut`, `OneAtATimeSendsOnce` | `CarriedOut` | a mail that left is recorded or about to be, and what the one dispatch, the sweep's list and the one request rely on is still so |
| `AccountTier`: `ApprovalsKept`, `TierOneIsEarned` | the first is inductive with the types; the second is about single steps | three lemmas on what an escalation, a trigger and an approval write, given the row they find and any row they may have read |
| `EscalationOverrides`, `ProgressIsTheTimelines`, `TierIsTheTimelines` | `SerialInv` | until the first overlap a transaction is alone, the row it read is the row, and a send that found no escalation still finds none |
| `ProcessTrigger`: `DeadlineReviewed`, `HoldsAreReviewed` | `ReviewInv` | which places of the handler still justify sending without a reader |
| `OutcomeIsTrue` | `OutcomeInv` | whether there is a message, by the handler's place, also the place of one that died; and what a follow-up job ends or hands to triage was sent |
| `FirstIsSampled` | `FirstInv` | without induction over a count: a handler that found a send, of a trigger or of another message, did not make the first, or one of `Others` went before it |
| `FollowupCadence`: `NeverMoreThanTheMaximum`, `NeverTooSoon`, `NeverWithoutNews`, `NothingAfterTheReply` | `CadenceInv` | what each run read of the sends stays true as they are only added to; and, where nothing is piled up, the one follow-up that may still go out keeps all three promises against the last send. The three need each other, so they are one invariant |
| `ReplyHandoff`: `SettledOrWithAHuman`, `EachReplyItsEscalation`, `ResolvedByOne` | `HandoffInv` | a reply has no escalation before its handler opens one, and one at most; a handler about to link holds its own; a reply of a colleague's is there exactly with its resolution |
| `NightlyBackup`: `NoRunEndsInSilence`, `HeartbeatsTellTheTruth` | `BackupInv`, `SoundInv` | what is past the checks is sound where pg_dump cuts nothing; a run past its read-back has its dump in the container or is too old to count; what a run will delete is too old; serials grow with the days, so what is pruned is older than what was stored |
| `TriggerImport`: `EachImportedOnce`, `VesselStaysTheAccounts` | `ImportInv` | a writer past its upsert holds the lock, and what its queries found stays so while it does |
| `RerunAddsNothing` | `RerunInv` | an import that nobody disturbs holds the rows behind it (they are in the tables, and no other import is about to add one of them), and the file imported last is held until something else is written. With an import's rows at hand taken from the file by position, no induction over files is needed |
| `MessageLife`: `StatusIsTrue` (in `DispatchProofs`) | `LifeInv` | an approved message has at most one mail |
| `ConsoleTab`: `TabTypeCorrect` | `Shape` | a page is mounted only on its own screen of an open console; every call under way has a kind, a text and an answer that fit each other, and a page that hears it is mounted |
| `RefusedTokensStayOut` | `TokensInv` | while somebody still waits for an answer, the console is open, or storage has no user, or its token ran out; and a refused token is gone from the tab, and from storage unless it ran out. Without the first part a late 401 could refuse a token with which storage opens the console again |
| `ApprovalsAreAsShown` | `ReviewInv` | until there is doubt: a save under way is the only call about the draft; a page not yet loaded asked for the account once, and what it will be told is the draft; what it shows and what an approval was clicked on is the draft. The three need each other, so they are one invariant |
| `AuditPageIsTrue` | `AuditInv` | until it is disturbed a mounted page has one call under way at most and waits for it unless an error is on show; a list it was answered, and the rows it shows between calls, are the first page of the verdicts on record |
| `ConsoleSettings`: `SettingsTypeCorrect`, `TheSwitchIsTold`, `ConfirmsAreAsShown` | `SettingsInv` | an admin nobody interfered with has one call under way at most; the switch is on show, or in the answer of that call, or it is still to be loaded; the proposed change, on show or in that answer, is what the form would change in the row, and the form of a call that proposes or confirms is the form of the page |

Each of `Dispatch`, `AccountTier`, `ProcessTrigger`, `FollowupCadence`, `ReplyHandoff` and
`NightlyBackup` has a `TypeCorrect` besides, on which the others rest; of `NightlyBackup` it
needs `BackupInv`, as its type invariant says that no stamp is stored twice. `Shape` plays that
part for `ConsoleTab`, and the shape in `SettingsInv` for `ConsoleSettings`.

**The refinement.** `LifeIsCarriedOut` proves `Spec => LifeRefined` from `OneAtATime`: at most
one console request and one dispatch or sweep under way, and nothing killed. Initial states
map to initial states; `DraftForReview`, `DraftAutonomously` and `ComposeAndSend` map to
`Write`, `EditDraft` to `Edit`, `RejectDraft` and `ApproveDraft` to `Decide`, the sending half
of `CheckEscalation` to `Mail`, `RecordSent` to `Settle`, `FlagForHuman` to `HandOver`, and
everything else to a stutter; one lemma each. `OneAtATimeSendsOnce` then takes what `MessageLife`
alone guarantees, `StatusIsTrue`, through the mapping: what the comment in
`dispatch-message.ts:51` claims is true where nothing overlaps, and `dispatch_twice` shows
that it is not where something does.

**Assumptions.** Beyond the types of the constants: routes and sweepers are different workers
and `NoMessage` is no message; `NoneIsNoRow` of `ReplyHandoff` and `Free \notin Writers` of
`TriggerImport`, `NoText \notin Texts` of `BrowserSession`, `NoReason \notin Reasons` and `NoAdmin \notin Admins` of
`ConsoleSettings` say the same of their markers; the texts of a draft are among the texts, the
Send Audit page has room for a sample, and a settings field has some value; `MaxRuns` of `NightlyBackup` is at least 1. Some
theorems have a hypothesis of their own. `OneAtATime` is the condition described above.
`NoRunEndsInSilence` and `HeartbeatsTellTheTruth` ask for `"cut" \notin Faults`: with such dumps TLC
violates both. `HeartbeatsTellTheTruth` asks for `RetentionDays > 0` too: with a retention of 0 days, which the
script accepts from its environment (the default is 14, `backup-postgres.sh:56`), a run that
midnight overtakes prunes its own dump and then sends its heartbeat, and TLC shows it.

**Only model-checked.** `SweepSettles`: liveness under fairness is out of the prover's reach
(its fairness is of actions whose ENABLED would have to be computed). Every other property of a
passing run is stated by a theorem. That the violated runs are violated is TLC's to show.

## 5. Not modelled

* The queue, the navigation counts, the timeline and the resolutions: read-only queries and
  pages. The escalation and tier panels keep their state to themselves, and what they ask of
  the server is in `ReplyHandoff` and `AccountTier`; the layout, the language and the theme.
* The guards of the API (stateless checks of one request). A call may be refused at any time.
* The OIDC client and Keycloak, beyond what `authStore.ts` uses of them.
* The splitting of CSV text, the seed, setup and ticket scripts, terraform.
* `deploy.sh`: one sequential run; what a stale realm file does is up to Keycloak's import.
* The LLM calls' bookkeeping, prompts and texts.
* The sandbox and live modes of dispatch differ in the transport only; sending is one step.

## 6. Where the code and its documents part

Shown by a run:

1. `dispatch-message.ts:51-52` "Idempotent by design": two dispatches that overlap both send
   (`dispatch_twice`).
2. `open-escalation.ts:25-26` "override tier, always": a clean approval that had looked for an
   escalation before can promote after it (`tier_promoted`).
Met while modelling, and covered by the instance or the condition of a property, which says
nothing where the code does this:

3. `autonomous-send-design.md:220` "the reconciliation sweep retries once, then flags for a human"
   (and `messages.controller.ts:52-54`): `deploy/crontab` does not schedule it (`SweepSettles`).
4. `process-trigger.ts:211` "always sampled": every row sent at Tier 1 counts as a prior send, a
   buyer's or a colleague's reply and a follow-up too, after which the first autonomous send of a
   trigger is left to the rate; and a follow-up that is the first is never sampled. Nor does the
   sweep sample (`~preceded`, `swept`).
5. `followup-cadence.ts:24-25` "at most maxFollowups": held follow-ups are not counted, pile up
   and may all be approved (`~piled`).
6. The same, "at least minDaysBetweenFollowups apart": a run that cannot read the settings takes two
   follow-ups and five days for the limits (`Maximum`, `Interval`).
7. `2026-08-02-application-architecture.md:92` "Creates `Escalation` records when a hard trigger
   fires": an answer that fires and names no rule, which the schema admits, is taken for harmless
   (`Harmless`).
8. `settings.service.ts:33-36` "after a human has seen this diff": the form stays open to edits
   while the proposal is shown, and confirming sends the form; another admin may have changed the
   row since (`~interfered`, `WrittenAsShown`).
9. `authStore.ts:39` "the token is no longer good for anything": a 401 that was answered to an
   earlier token, or to a call sent after expiry with none, ends a session renewed since
   (`ReportUnauthorized` allows it, and no property excludes it).
10. `deploy/crontab:58-59` "A failed run separately publishes its own metric": the exit trap is set
    after a setup whose steps may end the run (`e.trapped`); only the missing heartbeat tells.
11. `backup-postgres.sh:175-176` "failing on a file whose bytes stop early": not when they stop
    after the table of contents (`Faults`).
12. `SettingsPage.tsx` never asks again and says nothing of a call that fails: a pause that took
    effect and whose answer is lost leaves "sending" on show, as do a late write of a page that was
    left and another admin's (`~interfered`, `PageTellsTheSwitch`).
13. `backup-postgres.sh:102` logs "no dump was stored" also when the read-back failed, after
    which a dump, whole or not, is in the container. The failure metric is right either way.
14. `escalations.service.ts:84` records `followupSentAt` before anything is sent.
15. `import-triggers.ts:231-235` and `docs/csv-import.md` promise that running a file again
    updates in place. A contact is found by email, or by name where the row has none: two rows
    that name one person, one with and one without an email, can add a contact with each run
    (`ContactsAgree`). And an import that stops half way leaves the rows before it.
16. `AccountDetailPage.tsx:331,345,378`: a cancelled edit stays on show as the agent's draft
    while the page says that approving sends "this message as-is"; what is sent is the text
    on record (`~doubt`).
17. `SendAuditPage.tsx:80` "a concerning send stays in the list": only the newest twenty
    samples are ever asked for (`FirstPage`).
18. `authStore.ts:51-57,82`: a sign-out whose redirect fails leaves its flag behind and the
    console open, and a later reload says "signed out" whatever session there is by then; a sign-in whose redirect fails
    leaves the gate without a button (`Login`, `Logout`).

Open questions rather than divergences: a human's own reply counts as a clean approval
(`record-clean-approval.ts:16`); a repeated trigger post makes a second trigger.

## 7. Plan

Every safety property and every action property that a passing run checks is proved, and so is
the refinement. What is left:

1. The escalation panel and the queue as further screens of `ConsoleTab`.
2. A specification of what the account page promises its reviewer, with `ReviewPage` and the
   server's side of `Dispatch` composed under it: today each models the other's part as its
   surroundings.
