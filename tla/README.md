# Open-LMS, formally

TLA+ modules that model the parts of Open-LMS where steps of several actors
meet, TLC configurations that check them on small instances, and TLAPS proofs
of the properties that matter most for instances of any size. Paths below are
relative to `packages/` of the repository.

## 1. The system

Open-LMS is a TypeScript monorepo: `contracts` (zod schemas), `core` (domain
logic and the statements issued to Postgres), `ai` (provider gateway, prompts,
jobs), `api` (Hono routes; `api/src/dependencies.ts` holds every handler) and
`web` (Next.js). ARCHITECTURE.md's rule "Core owns truth" is literal: the API
servers keep no state, so everything that matters is in Postgres rows, and the
concurrency is that of handlers and commands interleaving statement by
statement. Only some handlers open a transaction, no isolation level is ever
set (READ COMMITTED), and most checks are made on rows read by an earlier
statement. What protects an invariant is then one of: a unique index, a
condition in the `WHERE` of the final update, a row lock, or nothing.

### Inventory

| component | state | operations | interacts with | hard part | correct when |
|---|---|---|---|---|---|
| quiz attempts (`api/src/dependencies.ts` 8425-9118, `core/src/quizzes`) | attempts, responses, marks, overrides, `pass_quiz` progress | start, save response, submit, mark, regrade, change quiz and overrides | completion, gradebook | checks on rows read several statements earlier; deadlines; deaths | one open attempt, no skipped numbers, limits kept, a submission is final, a pass completes |
| outbox and dispatcher (`core/src/events`, `api/src/outbox-dispatch.ts`) | `outbox_event` rows, notifications | publish, list by topic, handle, save, mark | every publishing handler; memberships; xAPI endpoint | overlapping runs, crash between save and mark, rejected events, commit order | at least once, explained duplicates, no starvation |
| AI job queue (`core/src/ai-jobs`, `ai/src/jobs.ts`) | `ai_job` rows | enqueue, claim, complete, fail | executors, providers | `SKIP LOCKED`, lost outcomes, late updates, deaths | one runner, bounded attempts, ended jobs final |
| notification delivery and digests (`core/src/notifications`) | delivery events, device tokens, digest ledger | send e-mail, push per token, digest | outbox, preferences | failure half-way through the tokens; two digest runs | nobody missed; repetitions explained |
| calendar and reminders (`core/src/calendar`) | events, reminders | save, delete, list due, send, mark | notifications | regenerated while being sent | none of an old start; a due one reaches every device |
| submission grades, appeals (`core/src/feedback`) | grade, history, appeal rows | upsert, import CSV, appeal | outbox, gradebook | previous grade read outside the transaction; event after commit | history is a chain; an event per visible change |
| assignment submissions (`core/src/submissions`, `groups`) | submission versions, drafts | save draft, submit, resubmit | effective schedule, completion, groups | versions of a group; changing groups | versions contiguous, late flag right |
| AI feedback drafts (`core/src/assignment-feedback`) | drafts, a map of promises per process | request | AI gateway, outbox | the lock of one process only; the entry of a request that is overwritten | one generation and one draft per key |
| courses, enrolment, members (`core/src/memberships`) | memberships, catalog settings | self-enrol, enrol, remove, in bulk | courses | count, then insert | the capacity is exceeded by overlapping requests only |
| files and quotas (`core/src/files`) | file rows, blobs, quotas | upload, delete, change quotas | object storage | quota read before the upload; blob before row; rows before blobs | table and store agree; overshoot bounded |
| legal holds, deletion, retention (`core/src/auth/admin.ts`) | holds, users | place, release, anonymise | all | a hold placed while deleting | a held user is kept |
| wiki (`core/src/wiki`) | pages, revisions | create, edit, restore, delete | | next revision computed before the lock | revisions without a gap, the page is the last |
| reorder (`core/src/courses/reorder.ts`) | positions | reorder, create, move, delete | gradebook categories | two passes over rows locked one by one | all of an order or none |
| announcements (`core/src/announcements`) | announcement, event | create, update, delete | outbox | published or not is read outside the transaction | published means announced |
| page of a quiz attempt (`web`, `quizzes/[quizId]/take`) | answers on the screen, one save waiting, requests under way, timer | answer, autosave, submit by hand and by the clock | save and submit handlers | timers, awaits, lost requests, a page that goes and comes back | no answer vanishes unnoticed; time up means handed in |
| SCORM runtime (`core/src/scorm`) | attempt row; values and dirty values of a bridge | initialize, set, commit, finish | packages | read, then upsert; lost answers; two windows | times counted, a repetition only for a lost answer |
| manual grades, attendance (`core/src/feedback`, `core/src/attendance`) | items, grades, sessions, records | record, change and delete items | memberships | item and membership read before the write | entries by the rules of the moment |
| gradebook totals (`core/src/gradebook`) | grades, categories | save, calculate | contracts | dropped grades, weights, extra credit | dropping never lowers; a percentage is a number |
| rate limiters (`ai/src/rate-limit.ts`, `api/src/rate-limit.ts`) | buckets, the map of them | consume | every request | clock set back, rounding, buckets dropped | burst and rate bounded; a retry is served |
| completion, module release | progress rows | complete, release | quizzes, submissions, views | rules over several sources | progress goes with work |
| human review and published feedback; prechecks, trends, page explanations | rows | review, publish, request | | no caller but tests | |
| AI gateway, policy, prompts, RAG | quota | generate, evaluate | providers | quota read before, spent after | policy respected |
| schedules, late penalty, grading of a question | none | evaluate | all | boundaries | equal to a reference |
| LTI, QTI, Common Cartridge, exports, auth, routes, web | formats and libraries | | | | |

`PROJECT.json` lists every component with its status, and every hazard at its
line with the properties that cover it.

## 2. The plan

Done, in this order:

1. `QuizAttempts` with the abstract `AttemptLedger` and proofs: the largest
   stateful component, and the one that grades students.
2. `OutboxDispatch` and proofs: what every other component relies on to tell
   anybody anything.
3. `AiJobQueue`, implementing `InMemoryAiJobs`, and proofs.
4. `SubmissionGrades` and `AssignmentSubmissions`, each with proofs.
5. Content: `WikiPages`, `FileStorage`, `AiFeedback`, with `ContentProofs`.
6. People: `CourseEnrolment`, `LegalHolds`, `Announcements`, with
   `PeopleProofs`.
7. Messages: `CalendarReminders` and `NotificationDelivery`, composed in
   `DeliveryPipeline`; `EmailDigests`; all with `MessageProofs`.
8. `CourseOrder` and `FinalGrades` (proofs in `ContentProofs`), `HttpRateLimit`
   (in `PeopleProofs`).
9. The other side of an attempt, `QuizRunner` (proofs in `QuizAttemptsProofs`);
   `ScormRuntime` (in `ContentProofs`) and `CourseRegisters` (in
   `SubmissionGradesProofs`).

Every safety invariant and every action property that a passing run checks is
now proved. To come: messaging, whose race section 7 names.

## 3. The modules and the code

A module's state is the rows of the tables and, for every handler or command in
flight, its control point and what it has read. Each database statement (or
transaction, when nothing outside it can see its middle) is one action; between
two of them anybody else may act, and a server or a command may die.

### QuizAttempts, AttemptLedger

| module | code |
|---|---|
| `attempts`, `responses`, `marks`, `completed`, `questions` | the rows of `quiz_attempt`, `quiz_attempt_response`, `quiz_attempt_question_grade`, of the `pass_quiz` completion progress, of `quiz_question` |
| `quiz`, `override` | the quiz row; what the active overrides that apply to a student, as its own, its groups' or its sections', come to |
| `Effective`, `Resolved` | `resolveEffectiveQuizSettings`: the quiz row as the handler has read it, merged with the overrides of the moment |
| `req` | handlers in flight |
| `BeginStart`, `CheckStart`, `ListAttempts`, `InsertAttempt` | `startQuizAttempt` |
| `BeginSave`, `CheckSave`, `ReadToSave`, `UpsertResponse` | `saveQuizAttemptResponse` |
| `BeginSubmit`, `CheckSubmit`, `ReadToGrade`, `GradeSubmission`, `CommitSubmission` | `submitQuizAttempt` |
| `BeginMark`, `UpsertMark`; `BeginRegrade`, `Regrade`, `CommitRegrade` | `recordQuizAttemptQuestionGrade`; `regradeQuizAttempt` |
| `UpdateQuiz`, `ChangeOverride`, `CreateQuestion`; `Tick`, `Abandon` | `updateQuiz`, the create, update and delete of overrides, `createQuizQuestion`; the clock, the death of a server |

Data: a question is worth one point, a response is right, wrong or absent, a
mark 0 or 1; the result of a grading is its status and score. `AttemptLedger`
keeps, per student, how many attempts were started and whether one is open, and
both change in atomic steps; `ImplementsLedger` is that refinement.

### QuizRunner

The page of an attempt, `web/src/app/(app)/courses/[courseId]/quizzes/[quizId]/take/quiz-runner.tsx`.

| module | code |
|---|---|
| `screen`, `failed`, `pending` | the state `answers`, the questions of status `error`, `pendingSaveRef` with its timer |
| `phase`, `submit` | where `triggerSubmit` is (the guard `submittingRef` is up from `flushing` on), and its request |
| `saves`, `stray` | requests under way, those included that nobody waits for |
| `stored`, `handedIn`, `late` | what the server has of the attempt: a summary of `QuizAttempts` |
| `cached`; `ResponsesRead` | the responses the browser holds, up to 30 s without asking again (`query-client.ts`); the query that reads them |
| `Edit`, `Clear`, `TimerFires` | `handleAnswerChange` with `scheduleSave`; the callback of the timer |
| `ManualSubmit`, `AutoSubmit`, `Flush` | `triggerSubmit` by the button and by the tick, with `flushPendingSave` |
| `CheckSaveRequest`, `StoreAnswer`; `SubmitArrives`, `StrayArrives` | the handlers of the API |
| `SaveReturns`, `SaveFails`, `SubmitReturns`, `SubmitLost` | what a promise does when it is kept or broken |
| `ShowResults`, `Reload` | the page changes or is left, and comes back with what is stored, or with older data the browser still holds |
| `TimeIsUp`, `Deadline` | the clocks of browser and server, which may differ |

Data: an answer is the number of the edit that gave it. A request the page has
given up may have been lost or may still arrive. `overtaken` and `raced` are
history variables: the answers whose save gave way to another question's, and
those edited while an older save of theirs was under way, which may arrive
second, or shown from older data than what is stored.

### OutboxDispatch

| module | code |
|---|---|
| `outbox` | `outbox_event` rows, `processedAt` null or not |
| `members`, `notified` | active memberships; notification records (and their delivery events) per event and user |
| `dispatcher` | the state of a run of `dispatchOutboxBatch`: topic, rest of the limit, batch, event in hand, recipients read |
| `Publish`, `Join`, `Leave` | `saveOutboxEvent` by any handler (grades, announcements, discussions, SIS), membership changes |
| `StartBatch`, `Scan`, `EndBatch` | the loop over the topics, `listPendingOutboxEventsByTopic` |
| `Take`, `Save`, `Mark` | the handler of the topic: what it reads, what it saves (or posts to an xAPI endpoint), `markOutboxEventProcessed` |
| `SaveFails`, `SaveInDoubt`, `MarkFails`, `Die` | the `catch` of the loop, with and without effect; the death of the command |

`steady` and `lost` are history variables. `notified` counts what the producer
saves for a recipient. Preferences decide only which channels are open, and a
member who has closed all of them is outside `Users`. The live producers at
this commit are the topics `grade.lifecycle`, `announcement.lifecycle`,
`discussion.lifecycle` and `integration.sis`; the builders of the other topics
are in `core` and are not called by the API yet.

### AiJobQueue, InMemoryAiJobs

| module | code |
|---|---|
| `job` | `ai_job` rows by idempotency key |
| `worker` | calls of `processNextPersistentAiJob` in flight |
| `late` | updates whose worker has lost their outcome and that may still be executed |
| `Enqueue` | `saveAiJob` |
| `Lock`, `Claim`, `ClaimInDoubt` | `claimNextQueuedAiJob`: the locking subquery, then the commit of the update |
| `Execute` | the executor of the job's action |
| `ReadToComplete`, `UpdateComplete`, `CompleteInDoubt` | `completeAiJob` |
| `ReadToFail`, `UpdateFail`, `FailInDoubt` | `failAiJob` |
| `Land`, `Vanish`, `Die` | a late update, a lost one, a worker's death |

`InMemoryAiJobs` is the queue of `ai/src/jobs.ts`, whose operations are atomic.
It leaves open which queued job is claimed: there it is the first in insertion
order, in the database the oldest by the publisher's clock that nobody has
locked. Nothing in a job says who runs it and no lease expires, so the death of
a worker leaves its job `running` for good. The history variable `lost` collects
the jobs that a death or a lost outcome has hit: `RunningIsHeld` and
`JobsFinish` say that nothing else ever drops one. The queue is a library of `core`: no command of the API calls
it at this commit.

### SubmissionGrades

| module | code |
|---|---|
| `grade`, `history`, `appeals` | the rows of `grade`, `grade_history` and `grade_appeal` of a submission |
| `audits`, `events` | `change_grade` rows of the audit log, `grade.lifecycle` events of the outbox |
| `grader` | a call of `upsertSubmissionGrade` in flight, or one item of `batchUpsertSubmissionGrades` or `importSubmissionGradesCsv`, whose items run at once |
| `BeginGrading` | the checks of the handler and its read of the previous grade |
| `SelectExisting`, `Write` | the transaction in `core/src/feedback/repository.ts`: its own read, then the row and its history |
| `SavePublished`; `SaveAudit`, `SaveChanged` | `recordGradeLifecycleSideEffects` |
| `CreateAppeal`, `UpdateAppeal` | `createGradeAppeal`, `updateGradeAppeal` |
| `GraderDies` | the death of a server, or a statement that fails |

Data: a member of `Grades` is everything `hasGradeChanged` compares (score
after the late penalty, maximum, status, source). `open` and `under_review` are
one appeal status, as for the unique index; the other three are another. A
grading lock would refuse a grader before its first read; nothing in the
repository sets it. `lost` is a history variable. What becomes of an event is
`OutboxDispatch`'s `Publish`.

### AssignmentSubmissions

| module | code |
|---|---|
| `submissions`, `owner`, `completed` | the `submission` rows of an assignment, the student of each `draft` row, the progress of its `submit_assignment` requirement |
| `assignment`; `status`, `members` | what the handler reads of the assignment row; `course_group` and `course_group_member` rows of its group set |
| `request` | handlers of `submitAssignmentDraft` (and of `saveAssignmentDraft`, its first half) in flight |
| `Begin`, `SaveDraft` | access and the assignment; the upsert of the draft, for its own student only |
| `ReadMemberships`, `ResolveGroup`, `ReadMembers` | `resolveAssignmentSubmissionGroupId` and the list of the students to complete |
| `ReadPrevious` | `listSubmissionsFor...`, `createSubmissionFromDraft` |
| `Save` | the transaction: insert and completion; `Taken` is the two unique indexes |
| `UpdateAssignment`; `AddMember`, `Leave`, `UpdateGroup`, `DeleteGroup` | staff and students meanwhile |
| `Die` | the death of a server, or a statement that fails |

Data: an assignment is three switches (published, resubmission, groups), a
draft is its id and student. Late flags, attachments and text are left out; the
requirement is taken to be active, and a student's groups to be of the one
group set of the assignment. A group that has submissions cannot be deleted:
the composite foreign key of `submission` would set `tenant_id`, which is NOT
NULL, to null with `group_id`. `offered` and `been` are history variables.

### WikiPages, FileStorage, AiFeedback

| module | code |
|---|---|
| `page`, `revisions`; `editors` | the `wiki_page` and `wiki_page_revision` rows of one page; transactions in flight |
| `BeginUpdate`, `BeginRestore`, `ReadSource`, `ReadNumber` | `updateWikiPage` and `restoreWikiPageRevision` up to their write: what is read before any lock |
| `UpdatePage`, `CommitRevision`, `Abandon` | the update of the page, which locks its row; the insert of the revision, refused by its unique index; the commit or the roll-back |
| `CreateWikiPage`, `DeleteWikiPage` | the functions of that name; creation writes no revision |
| `rows`, `blobs`, `limits` | `file_resource` rows, the objects of the store, the quotas of tenant and user |
| `BeginUpload`, `CheckTenantQuota`, `CheckUserQuota`, `StoreBlob`, `InsertRow`, `CleanUp` | `uploadFile`, each await a step; `StoreFails`, `InsertFails`, `InsertInDoubt`, `AbandonUpload` are its failures |
| `FindFile`, `DeleteRow`, `DeleteBlob` | `deleteFile` |
| `before`, `last` | the promise a request waits for and the map of promises of each process in `idempotency.ts` |
| `Enter`, `FindExisting`, `Generate`, `SaveDraft`, `Announce`, `Throw` | `requestAiFeedbackDraft`, inside and around the lock; `Restart` is the death of a process |

`abandoned`, `doubted`, `everLimits`, `generated` and `unsaved` are history
variables: what a named failure left, and what was paid for.

### CourseEnrolment, LegalHolds, Announcements

| module | code |
|---|---|
| `membership`, `catalog` | the student memberships of a course and its catalog settings |
| `BeginEnrolment`, `FindNoMembership`, `CountActive`, `InsertMembership`, `EndEnrolment` | `selfEnrollInCourse`, statement by statement |
| `SetMembership`, `DeleteMembership`, `ChangeCatalog` | staff, one by one or in bulk |
| `account`, `holds` | user rows and the open holds of every tenant |
| `PlaceHold`, `ReleaseHold` | `createUserLegalHold`, `releaseUserLegalHold` |
| `BeginDeletion`, `CheckHolds`, `ReadUser`, `AnonymiseUser`, `CommitDeletion`, `RollBack` | `deleteCurrentUser` and `anonymizeAuthUserForDeletion` |
| `announcement`, `news` | the row of one announcement, the number of its events in the outbox |
| `ReadAnnouncement`, `UpdateAnnouncement`, `CommitAnnouncement`, `AbandonUpdate` | `updateCourseAnnouncement`: read, update under the row lock, event, commit |
| `CreateAnnouncement`, `DeleteAnnouncement` | the functions of that name |

### CalendarReminders, NotificationDelivery, DeliveryPipeline, EmailDigests

| module | code |
|---|---|
| `event`, `reminder` | the row of a calendar event, the rows of its reminders (named by the save that wrote them and their offset) |
| `SaveEvent`, `DeleteEvent` | `createCourseCalendarEvent` and `updateCourseCalendarEvent` with `syncDefaultCourseCalendarEventReminders`; `deleteCourseCalendarEvent` |
| `BeginRound`, `ProduceReminder`, `MarkReminder`, `BreakRound` | `produceDueCourseCalendarReminderNotifications`, whose first error ends the run |
| `requested`, `processed`, `tokens` | the delivery requests in the outbox, those marked, `user_push_token` rows |
| `BeginBatch`, `TakeUp`, `Send`, `MarkDelivered`, `Miss`, `Refuse`, `CourierDies` | `dispatchNotificationDeliveryBatch`, with `dispatchEmail` and `dispatchPush` |
| `RegisterToken`, `RevokeToken` | `registerUserPushToken`, `revokeUserPushToken` |
| `ProduceRequests` (DeliveryPipeline) | the one transaction that both halves share: the notifications of a reminder and the requests to deliver them |
| `BeginDigest`, `NextRecipient`, `SendDigest`, `SaveDigest`, `FailDigest`, `DigesterDies` | `dispatchNotificationEmailDigestBatch` |

### CourseOrder, HttpRateLimit, FinalGrades

`CourseOrder` models `reorderInScope` row by row: the two passes, the locks each
update takes, the deadlocks the database ends, and items created, moved and
deleted meanwhile; `kind` says whether the scope has the unique index and the
check of gradebook categories. `HttpRateLimit` is the token bucket of
`consumeFromBucket` and the bounded map of `InMemoryHttpRateLimiter`, over a
clock that may be set back. `FinalGrades` is `calculateCourseFinalGrades` of one
student: the operators have the names of its steps, and its two actions change
the rows it is computed from.

### ScormRuntime, CourseRegisters

| module | code |
|---|---|
| `attempt` | the `scorm_attempt` row of one student and package |
| `bridge`; `requests` | `runtime` in the script of each window (`buildScormRuntimeBridgeScript`); its synchronous requests, and those it has given up |
| `LMSInitialize`, `LMSCommit`, `LMSFinish`; `SetValue`, `SetSessionTime`, `SetUnsupported` | the functions of that name; `LMSSetValue` of an element that replaces, that adds, that the server does not know |
| `ReadAttempt`, `UpsertAttempt` | `initializeScormRuntimeForActor` and `commitScormRuntimeForActor`, with `applyScormRuntimeCommit` |
| `ScormAnswer`, `CallFails` | the answer, and its loss |
| `register`, `role`, `records` | manual items and attendance sessions, course memberships, manual grades and attendance records |
| `BeginRecording`, `LockRegister`, `LockMembership`, `UpsertRecord` | `recordGradebookManualGrade` and `recordAttendanceRecord`, whose transactions have the same statements |
| `UpdateManualItem`, `DeleteManualItem`, `ChangeMembership` | staff meanwhile, who wait for the rows that are held |

Data: suspend data, statuses and score are one value, which a commit replaces;
a session time is one unit. An attendance status is a mark of a session, whose
maximum is its last one.

### MCCoursework, MCComponents, MCQuizTaking

`MCCoursework` and `MCQuizTaking` are built like `MCComponents`, from the five
modules of a student's work and from the two sides of an attempt, of which the
rows are there twice: with questions under one setting, and with changing
settings and no question.

The eleven modules that share no state are checked in one run: the variable
`focus` names the component that runs, and the others stay at one of their
initial states. The state space is the sum of the eleven and not their product,
and every property sees exactly the behaviours of its own component.

## 4. The runs

| run | question | bounds, and why they are enough | result |
|---|---|---|---|
| `coursework` | one question per component, below | below | holds |
| `quiz_taking` | do grading and completion agree? does an attempt in progress get in, if from some time on it may, and one whose time is up when its page is open? | rows: one attempt and 2 handlers, either with an auto-graded and a manual question and another added meanwhile, or with a time limit of one tick, a quiz that is hidden and shown again and an override that grants more time at any moment: attempts expire, and are let in again; page: one question, one edit, 2 mishaps, which can hit the flush and the submit after it; fairness below | holds |
| `quiz_late_response` | are responses frozen by a submit? | as small as the race | violated |
| `quiz_autosave` | do answers autosave? | 2 questions, 2 edits, no mishap | violated |
| `outbox` | at least once, explained duplicates; is every supported event processed? | one immortal run and one that dies anywhere, 3 events of 2 topics (rejected, personal, for a course) with equal `occurredAt`, a user who joins and leaves, limit 2 above the one rejected event, one lost outcome | holds |
| `ai_jobs` | one runner, bounded attempts, final ends, readable rows, implements the in-memory queue; is each queued job claimed, does it end, is it ever dropped? | 1 worker that lives, 2 that die anywhere, 2 jobs of 2 attempts, clock against key order, one without executor, 2 lost outcomes | holds |
| `grades_audit` | has each change its audit row? | 2 graders that live | violated |
| `submissions_safety` | are versions contiguous, is nobody's work handed in twice or for somebody else, is exactly who worked completed? | 2 mortal requests of 2 students with 2 drafts, 2 groups, any memberships to begin with, the three stages an assignment goes through, in any order; 2 changes (to leave one group and join another takes two), versions up to 2: two members race for the first and for a later version | holds |
| `components` | one question per component, below | below | holds |
| `delivery` | is a reminder always current, and marked only when told; are requests marked only when sent; does a due reminder reach every device that stays? | 2 saves of one event, which may move it to an earlier or a later minute, one offset, one dispatcher of each kind started again and again, one break and one miss, up to 2 requests of a notification, by e-mail and push, and 4 in all, of which one is hopeless, a steady and a fickle device | holds |
| `reorder_categories` | do the two passes work in every scope? | 3 items, 2 reorders | violated |
| `final_grade_weights` | is a percentage finite? | 3 grades, 2 categories | violated |

The components of `coursework`, and what makes each instance big enough:

| component | property | instance |
|---|---|---|
| attempts | `NumbersContiguous`, `WithinLimitRead`, `SubmittedOnce`, `ImplementsLedger` | one student (students share no row), 2 handlers, 3 attempts, 2 ticks, three quiz rows that hide, shorten, time and limit the quiz, an override that lifts it all: two handlers overlap at every pair of statements, and numbers can be stale by one and by two |
| page of an attempt | `AnswersAccountedFor` | 2 questions, 2 edits and any number of answers taken back, one lost request, lost answer or reload: an older save can arrive after a newer one, and either around a submit, and a page can come back with old answers |
| grades | `HistoryIsReal`, `VisibleGradesAnnounced` | 1 submission (submissions share no row), 2 mortal graders that may grade again and again, a draft and two visible grades, 1 appeal, at most 4 history rows: no grading begins after the third |
| registers | `RecordedAsOfNow` | an item and a session, one student, 2 transactions, scores and maxima of 1 and 2, roles that come and go |
| SCORM | `ReportsCounted` | 2 windows, 2 values or times set, one request given up, which may be lost, land or land without its answer |

The components of `components`, and what makes each instance big enough:

| component | property | instance |
|---|---|---|
| wiki | `HistoryEndsWithPage` | 2 transactions, 2 texts, 4 revisions: both compute the same next number |
| files | `StoreAgrees`, `QuotaOvershootBounded` | 2 uploads and 2 deletions, files of sizes 1, 2, 2 of two owners, tenant limits 1 and 3, user limit 2, no limit: two uploads each fit alone and not together, and a limit is lowered between; only the lowest limit of the tenant can be exceeded by so few files, the rest is `QuotaCorrect` |
| enrolment | `SeatsBounded` | 3 students, 2 requests, four catalogs with no capacity, 1 and 2 seats, a waitlist, closed; one student activated by staff |
| holds | `HoldsProtect` | 2 accounts, 2 tenants, 2 deletions |
| announcements | `NewsFollowsPublication` | 2 transactions, up to 3 events |
| deliveries | `SentBounded` | 2 runs that overlap, an e-mail and a push to two devices, one of which comes and goes, 2 misses |
| digests | `DigestedOnce` | 3 notices of 2 recipients, a limit of 2 that cuts one recipient's notices in two, 2 runs, 1 failure |
| reorder | `OrderAsAsked` | 3 items, 2 reorders, three orders of which two wait for each other, both kinds of scope |
| rate limiter | `BurstBounded`, `RetryIsServed` | 2 clients in a map of 1 bucket, requests of 3 with capacity 6 and refill 2 (in parts of a token), 4 seconds, a clock set back by 1, one bucket dropped |
| AI feedback | `GeneratedOnce` | 3 requests of one process and 1 of another, 1 death: three are what it takes for one to wait behind an entry that another has removed |
| final grades | `DropNeverLowers` | all choices of 3 grades of nine and of 2 categories of five settings: drops of one and of two, weights 0, 1, 3 and none, archived, extra credit, no category |

Symmetry is used for handlers, graders, students, groups, drafts, windows,
questions and transactions, in runs without liveness (`coursework` gives the
same two names to all of those of its components, and swaps them everywhere at
once). `outbox` and `submissions_safety` check for deadlock; elsewhere the jobs,
gradings, edits, saves or requests are bounded and run out, and the check is off.
Each property has a mutant in `PROJECT.json`: a definition written as a
plausible bug would have it (`Slip` in the modules), under which TLC finds the
property violated.

## 5. Fairness

* `QuizAttempts`: a handler in flight goes on unless it is killed (weak, per
  handler), time passes, and the student retries (strong on beginning a submit
  and on its statements: not every retry is killed at the same place). Nothing
  is assumed of staff or graders: `BlockedAttemptCloses` takes that from some
  time on the quiz is open to the student and the deadline is not past, as it is
  for a quiz without a time limit or once enough time has been granted.
* `QuizRunner`: a page that is open ticks once a second (weak, on its submit),
  a request that is not lost arrives and is answered, and the page hears of it
  (a request that is neither lost nor answered would be a broken connection,
  which is a loss). Losses and reloads are bounded in number. Nothing is assumed
  of the student, of the autosave's timer or of requests whose page has gone.
* `OutboxDispatch`: one run of the command that is not killed is repeated for
  ever (an external scheduler calls it), and saving the notifications of one
  event does not fail every time. Nothing is assumed of the runs that may die,
  of publishers or members.
* `AiJobQueue`: a worker that does not die goes on and is called repeatedly,
  not only while every queued job is locked; one that may die goes on or dies;
  a claim's transaction ends, by commit or by the loss of its connection.
* `DeliveryPipeline`: how many requests a notification gives, none included, is
  left to memberships and preferences; each run of either dispatcher goes on and, once it has
  ended, is started again (an external scheduler calls both commands). Breaks,
  misses and deaths are bounded in number, which is what "not for ever" means.
  Nothing is assumed of the clock, of staff, or of who registers devices.

## 6. What is proved

Every `*Proofs` module is checked by TLAPS to the last leaf, for all values of
the constants that satisfy the module's named `ASSUME`. Each follows the same
argument: an inductive invariant `IInv`, `Init => IInv`,
`IInv /\ [Next]_vars => IInv'`, and the properties as consequences.

* `QuizAttemptsProofs`. Neither "one open attempt" nor "contiguous numbers" is
  inductive: a start in flight carries a number computed from an old list.
  `IInv` bounds it (the number is at most one more than the attempts there are
  now, and when it is free every earlier attempt is closed), so that the unique
  index is what makes the insert safe. From it: `TypeCorrect`,
  `ExclusionCorrect`, `NumberingCorrect`, `LimitCorrect`, `SubmissionCorrect`,
  `MarksCorrect`, and `LedgerImplemented`, where an insert maps to `Start`, a
  commit to `Submit` and everything else to a stutter. `CompletionCorrect` needs
  that the questions a handler has read are still among those there are, and
  that no grade comes from an empty quiz: questions are only added, so a score
  that meets the threshold of all of them met that of the ones it was graded by
  (`ThresholdOfPart`), and the completion was written with it.
  The page of an attempt: `RunnerTypeCorrect`, and `AnswersCorrect`, which
  follows each answer on the screen through the pending save, the requests under
  way and the store.
* `OutboxDispatchProofs`. Delivery: a run at its mark has notified everybody the
  event is owed to. Duplicates: for each event, the runs that have spent their
  one listing of it, plus the outcomes lost, account for every notification
  (`Accounted`, by cardinality), so at most one per overlapping run and one per
  lost outcome. `TypeCorrect` includes that the shared limit never goes below
  zero. `RejectionCorrect` needs that no run ever holds a rejected event.
* `AiJobQueueProofs`. The workers that hold a job, and the late failures that
  may still reopen it, exclude each other (`Exclusive`, `LateOK`): this replaces
  the lease the code does not have. From it `RunnerCorrect`, `FinalityCorrect`,
  `RowsCorrect`, `HeldCorrect` (a worker lets go of a running job only by dying
  or by losing an outcome), and `InMemoryImplemented`.
* `AssignmentSubmissionsProofs`. A request in flight computes its version from
  rows it read earlier. Rows are only ever added, so `IInv` says of a request
  that what it read is still a part of what there is (`WorkOK`); with the
  versions of a group being 1 to n, the number it asks for is n + 1 or taken,
  and then the index refuses it. From it `VersionsCorrect`,
  `ResubmissionCorrect`, `CompletionCorrect` and `SourceCorrect`. That
  `Highest` is well defined rests on the well-founded order of the naturals.
* `SubmissionGradesProofs`. A grader in its transaction that has found a grade
  has found one of the history (`GraderOK`), so the predecessor it records is
  real although it may no longer be the latest; one that has found none is
  stopped by the unique index once the history has begun. For the announcements
  the invariant remembers that a grader's first read is also a recorded grade:
  if it equals what is written, nothing is saved, and nothing is due.
  Registers: what a transaction has read `FOR UPDATE` is still so when it writes
  (`RecorderOK`), hence `EntriesCorrect`.
* `ContentProofs`. Wiki: a transaction that has updated the page holds its lock,
  and the number it read is the next one or already taken. Files: what each
  upload and each deletion is about to do next accounts for the difference
  between rows and blobs, and the requests in flight are about distinct files
  (`Apart`). AI feedback: the map of promises is a queue although its entries
  are overwritten; the invariant asserts an order of the requests in flight
  (`Ordered`) that each `Enter` extends by one and each end shortens, and from
  it that only one request of a process has its turn (`OneTurn`). Reorder: the
  order last asked for is inductive with the types (`OrderCorrect`). SCORM
  (`ReportsCorrect`): windows whose time no commit has saved, and requests given
  up that still carry one, are what the row may yet be given, and whatever row a
  save starts from has room for it (`RoomOK`, by cardinality); until two
  requests have met, what one has read is still so (`AloneOK`), which is what a
  window that is alone needs (`OneOK`).
  Two of the results are about sums. A sum is a fold in an order that the
  library leaves open; `TotalAddsUp` unfolds it once, and the other lemmas
  (`TotalWithout`, `TotalUnion`, `TotalSplit`, `TotalScaled`) take a smallest set
  for which they fail, since the library's induction rules cannot be used (the
  end of this section). Quotas: the bound of the rows alone is not inductive. It
  holds of the rows together with the files that have passed a check and have no
  row yet, and each check restores it from nothing: the rows and the file fit,
  and at most all other uploads but this one come on top (`FileFits`). Final
  grades: of two grades the dropped one has no larger a share (`KeptIsHigher`,
  because the order of the shares is transitive), and the inequality is summed
  over what is kept and then over what is dropped.
* `PeopleProofs`. Enrolment: the requests that have counted and not yet
  inserted, and the seats they saw, bound the active students by cardinality.
  Holds: an account a deletion has looked at has only holds that came later.
  Announcements: the row lock makes the status read under it the last one, and
  every author of a publication has its own event. Rate limiter: neither what
  was granted nor what a bucket holds is bounded alone. What was granted since
  any moment and what the bucket holds now are, together, by a full bucket, what
  the time since has brought and what dropped buckets and the clock have given
  again (`GrantedAndHeld`); and a refusal promises a moment at which the bucket
  will have enough (`PromiseOK`), rounding up included (`RetryIsEnough`).
* `MessageProofs`. Reminders: only the last save of the event has reminders
  that wait, and a run at its mark has told the members (`OneSave`,
  `MarkedIsTold`). Deliveries: a run has sent a request wherever it has nothing
  left to send, and nothing is left at its mark (`Sending`). For each request
  and device the runs past the call, while there is no mark, and those still
  ahead of it, afterwards, account for the repetitions by cardinality
  (`Counted`). All of it is stated of the composed `DeliveryPipeline`, whose
  steps are shown to be steps of the reminders or to leave them alone
  (`PipeImplementsReminders`). Digests are counted in the same way
  (`NoticeCounted`).

What is counted or added up is assumed to be finite, in the module that declares
it: runs and requests at a time, messages, questions, grades of a student. The bound
of the quotas also needs that some file is the largest, since it is measured by
it.

Only model-checked: the liveness properties (`BlockedAttemptCloses`,
`AutoSubmitGetsThrough`, `SupportedEventsProgress`, `QueuedIsClaimed`,
`JobsFinish`, `ReminderReachesDevices`). Liveness under fairness, and ENABLED,
are outside the prover's reach. So are the library's induction theorems, whose
parameter is an operator; where a proof needs an induction it takes a least
element of a set of counterexamples instead (`LeastNumber`, `SmallestOf`).

Proved, and without a run of their own: the types, `OneInProgress`, which
`NumbersContiguous` implies, `MarksOnlyOnClosedAttempts` and `OneOpenAppeal`.

## 7. What the runs found

* `quiz_late_response` (code bug): `saveQuizAttemptResponse` checks the status
  in one statement and upserts in a later one that does not; a save that
  overlaps a submit changes responses that have been graded. A regrade then
  gives another score.
* `grades_audit` (code bug): the audit log and the event go by a grade read
  before the transaction. Of two graders of an ungraded submission the second
  changes the grade of the first with no audit row, and announces it as first
  published. `VisibleGradesAnnounced` is what holds nevertheless.
* `reorder_categories` (code bug): the first pass of `reorderInScope` writes
  negative positions, and the table of gradebook categories has
  `CHECK (position >= 0)`: no reorder of categories ever succeeds.
* `final_grade_weights` (code bug): a category may have weight 0. When no other
  weighted category has a grade the total is divided by 0, and the schema of a
  final grade throws for the whole course.

* `quiz_autosave` (code bug): the page keeps one pending save for all questions.
  Answer a second one within 600 ms, as on short multiple-choice questions, and
  the first answer is never sent, its indicator stays at "saving", and a submit
  hands the attempt in without it. `AnswersAccountedFor` says that this, and a
  save overtaken by an older one, are the only ways to lose an answer unnoticed,
  but for a page that comes back within 30 s and shows, and goes on showing, the
  answers the browser had read before. (An answer taken back stays stored: no
  request deletes one.)

Others are plain from the code, or are what a bound of a property stands for,
and need no run:

* Quizzes: a timed attempt past its deadline is refused by every submit and
  blocks every start, until an override grants it time; the helpers of `core/src/quizzes/auto-submit.ts` that
  would sweep it have no caller.
* Outbox: failed events are never retired and count against the limit, so as
  many rejected events as the limit fill every batch (`SupportedEventsProgress`
  holds because the limit is above their number). The same is true of delivery
  requests that nobody accepts.
* Submissions: the next version of a group's submission is counted in the
  group's rows, but versions are unique per student too. A student who handed in
  before the assignment was given to groups, or in another group, gets a number
  of its own again and is refused until the rest of the group has passed it.
  Whoever joins a group between the read of its members and the commit of a
  submission is not completed by it.
* AI jobs: an error without a message gives an empty `last_error`, which the
  schema (`contracts/src/ai-job.ts` line 70) rejects on every later read;
  `RowsAreReadable` is the part of the schema that holds. The claim is one
  statement that commits before `parseAiJobRow` looks at the raw row it returns:
  were the driver to return a value that the schema refuses, a date as text for
  one, the job would stay running without a worker. `ClaimInDoubt` has that
  outcome, `JobsFinish` excuses it like any lost outcome, and that drivers and
  schema agree is taken from the code, whose tests use a substitute for both.
* Grades: `createGradeAppeal` takes an appeal of a draft grade, though its own
  message asks for a published one.
* Gradebook: grades in an archived category vanish from the total; dropping the
  lowest by share of the maximum is not always the choice that is best for the
  student, though it never makes the result lower than without dropping; a
  category with extra credit alone has a score and no maximum.
* Reminders: every save of a published event sends its due reminders again, also
  after the event has started.
* Announcements: publishing a draft by an update never sets `postedAt`, and a
  re-publication decided on a stale read saves no event.
* Wiki: the creation of a page writes no revision, so its first text is lost
  with the first edit.
* Legal holds: a hold that commits between the look for holds and the update is
  overlooked; `HoldsProtect` says that no other is.
* Regrades: of two that race the one that commits last wins, also when it has
  read older marks. No property forbids it; `PassingAttemptCompletes` says that
  the completion goes with whatever is written.
* Files: an insert that committed and was reported failed has its bytes deleted,
  and the row stays (`doubted`).
* AI feedback: a draft that was saved by a request that then fails is never
  announced, since the retry finds the draft and saves no event.
* SCORM: two requests at once read the same attempt, and the later one
  overwrites what the other saved (`crossed`); a commit whose answer was lost
  counts its session time again. The bridge accepts any element and answers
  "true", keeps it among the dirty values, and the server refuses every commit
  that contains one it does not know: nothing is saved in that window any more.
* Messaging, not modelled: `lastMessageAt` of a thread is what the last
  committer computed and may go back.

## 8. Abstractions, and what is not modelled

Identifiers, texts, tenants (every query is scoped by one), permissions that
only refuse a request, and formatting are left out. Transactions are READ
COMMITTED: an action is a statement, or a transaction whose intermediate states
nobody can observe and whose reads cannot be invalidated before its writes.
A request that is abandoned stands for a server that dies or a client whose
retry is another request.

Not modelled, with the reasons (and more of them in `PROJECT.json`):

* Most of the code by lines. Routes, OpenAPI and contracts validate and word
  what the handlers get; most handlers of `api/src/dependencies.ts` check access
  and issue one statement, whose atomicity is Postgres'; repositories are
  queries; `web` renders, but for the page of an attempt. None of it keeps state
  between two steps, and a model of it would restate it: this is why the modules
  translate a small part of the lines, those where the order of steps matters.
* Services without a caller outside tests: human review and publication of
  feedback, prechecks, trends, page explanations, the sweep of quiz attempts.
  What would call them, how often and from how many processes is not in the
  repository. (AI jobs and AI feedback drafts are modelled although nothing
  calls them yet: their own code fixes the steps.)
* Pure functions of dates, rubrics and settings (effective schedules, late
  penalties, release conditions, grading of a question, AI policy): unit tests
  reach all their cases. `FinalGrades` is there because drops, weights and extra
  credit interact.
* Formats and protocols of others: LTI, QTI, Common Cartridge, xAPI
  statements, the packages and values of SCORM, sessions of the authentication
  library.
