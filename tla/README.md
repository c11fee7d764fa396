# Acme-Parade, specified in TLA+

Acme-Parade (`src/Acme-Parade`) is a Spring MVC / Hibernate web application in
which brotherhoods organise parades, members enrol in brotherhoods and ask to
march, and the chapter of an area accepts or rejects the parades of its zone.
This directory holds TLA+ models of its services and controllers, the TLC
configurations that check them on small instances, and proofs checked by TLAPS.

Contents: [1 The system](#1-the-system) ·
[2 Transactions](#2-what-a-request-is) · [3 Modules](#3-the-modules) ·
[4 Runs](#4-the-runs) · [5 Findings](#5-where-code-and-documents-disagree) ·
[6 Proofs](#6-what-is-proved) · [7 Not modelled](#7-what-is-not-modelled) ·
[8 Plan](#8-plan)

To check a run: `tlc -config <file>.cfg <Module>`, with the pairs of section 4;
to check the proofs: `tlapm <Module>_proofs.tla`, for the eight modules of section 6.

## 1 The system

All state is in the database; between requests the server keeps only logins.
Paths are below `src/Acme-Parade/src/main/java`. S is `services/…Service.java`,
C is `controllers/…Controller.java`.

| component | state | operations | interacts with | what makes it correct |
|---|---|---|---|---|
| Parades (S/C Parade) | a row: content, `isDraft`, `status` | create, copy, save, save as final, delete, accept, reject | notifications on publication; segments and marches refer to the row | a decision is for ever; what was announced stays; only a wish publishes |
| Path of a parade (S/C Segment) | rows: origin, destination, times, `isEditable` | save, edit, delete the last segment | a parade with a path cannot be deleted | one open end; what is closed is frozen |
| Marches (S/C March) | rows: member, status, row and column | ask, withdraw, accept with a place, reject | the recommended place (ParadeService), notification of the member | places are distinct; a decision stands and is told |
| Enrolments (S Enrolment, C Enrollment) | rows: `isOut`, position, drop-out moments | ask, accept, give a position, reject or leave | positions of the catalogue, notifications | positions of the enrolled only; each exit counted and told once |
| Messages and boxes (S/C Message, MessageBox) | messages; boxes as bags of messages; a tree of boxes | send, broadcast, move, delete; create, rename, delete a box | every notification of the others | nobody loses or doubles a letter; box names are unique |
| Positions (S/C Position) | the catalogue enrolments refer to | create, rename, delete one nobody holds | enrolments hold positions | what is held stays listed |
| Zones, chapters, brotherhoods, floats (S/C Zone, Chapter, Brotherhood, Platform) | zones; the zone each actor chose; floats | register, edit a profile, create and delete a zone, make a float | a chapter decides on the parades of its zone; who has none may have no parades and floats | the chapter that decides is one, and stays |
| Finder (S/C Finder), settings (S/C SystemConfiguration) | per member: stored results and their moment; cache time and limit | search, expire, clear; set | results refer to parades; the settings say when they expire | young results stay, old ones go |
| History (S History, S/C of the five kinds of records) | records, and the lists the history has of them | add, edit, delete a record | none | each record is listed once; one inception record |
| Tree of boxes (S/C MessageBox) | the parent of each box | create below, move, delete with what is below | boxes take their messages along | no box is lost to the pages |
| Moderation (S Utility, Actor; C Administrator, ActorAdministrator) | marks in the rows of actors; bans in the rows of accounts | flag spammers, compute scores, ban, unban; profile forms of all actors | judges the messages | one's commit does not put back another's column; no ban unjudged |
| Members' and administrators' registration, accounts, social profiles, dashboard, export, sponsors, tools | single rows or aggregates | insertions, forms over one's own row, queries | references between rows | section 7 |

What is hard, here: one user has several browser windows and pages that are
old; the server works on several requests at once; a request is several
transactions, and the first may commit what a later one then refuses; a version
column guards rows that are written but not rows that are only read;
notifications are transactions of their own after the decision they tell of.
PROJECT.json lists each such place with its line and the property that watches it.

## 2 What a request is

The models rest on how the code is configured, the same in all of them.

- Services are `@Transactional`; controllers are not. So each service call of a
  handler is a transaction, and **a handler is split into one action per
  transaction that writes**, and one for a transaction that reads what a later
  one writes.
- `OpenEntityManagerInViewInterceptor` (`resources/spring/servlet.xml:46-50`)
  keeps one Hibernate session per request. An entity a service has read stays
  managed, so what `reconstruct()` sets in it is written by **its own** commit,
  before `save()` or `delete()` come to their assertions.
- Every entity has a `@Version` (`domain/DomainEntity.java:51-58`). A commit
  fails if a row it *writes* was changed since the session read it; rows that
  were only read are not compared. A row that was set to what it already was is
  not dirty and not written. A changed collection (the messages of a box) makes
  its owner dirty.
- Most forms are copied field by field into the row the session reads, and their
  version is not compared with anything: an old form is as good as a new one. Two
  forms are merged as objects instead. The finder's carries the version, so an old
  page is refused; the zone's does not, which makes it version 0, so a zone can be
  edited once and then neither edited nor deleted. Where a property needs forms
  that show what is stored, the constant `FreshForms` says so, and it is the
  assumption of the theorem.
- A transaction reads one snapshot (InnoDB, repeatable read), and foreign keys
  are checked against what is stored at the commit.
- Ids come from a table and are never used twice.

In every module `tab` holds, for each browser window, the page it shows or the
request it waits for: the row as the session read it, and whether others wrote it
since (`stale`, or the set `missed` in SegmentPath). A window has one request at
a time, as a browser has; several windows of one user are several elements of
`Tab` or `Window`. `Rollback` ends a request whose transaction fails; what it
committed before stays.

A request that writes every row it reads is one action: its commit succeeds only
if nobody wrote one of them meanwhile, so that it might as well have happened at
that instant. That argument is used in MessageBoxes and for insertions.

## 3 The modules

| module | models | extends / instantiates |
|---|---|---|
| PathStack | abstract: what the path of a parade promises | |
| SegmentPath | the path of one parade | refines PathStack |
| ParadeLife | abstract: what the life of a parade promises | |
| ParadeLifecycle | the requests of brotherhood, chapter and members on one parade | refines ParadeLife |
| MarchPlacement | the marches of one parade and their places | |
| Enrolments | the members of one brotherhood and the catalogue of positions | |
| MessageBoxes | messages, their copies in boxes, and the boxes | |
| BoxTree | the tree of one actor's own boxes | |
| Directory | chapters, brotherhoods and zones, who may have parades and floats | |
| FinderCache | one member's finder, the parades it finds, the settings | |
| HistoryRecords | the history of one brotherhood and its records | |
| Moderation | marks, bans and profiles of the actors | |
| MCSegmentPath, MCParadeLifecycle, MCMarchPlacement | symmetry sets and constants for TLC only | the module of the name |
| MCMessageBoxes | the same, and Moderation beside it in one run | MessageBoxes, instance of Moderation |
| MCRecords | four components in one run | Directory, instances of FinderCache, HistoryRecords, BoxTree |
| …_proofs | the theorems of the module of the name; MCMessageBoxes_proofs and MCRecords_proofs have those of the components they put side by side | the module, TLAPS; MCRecords_proofs: instances of HistoryRecords_proofs and FinderCache_proofs |

**SegmentPath.** `path` is the Segment table restricted to one parade, `nextId`
the generator. `SendNew` is `reconstruct()` (which only validates) and the
snapshot `save()` reads; `SaveFirst` and `SaveNext` are the two branches of
`SegmentService.save` (63-124), `SaveNext` with the parent it closes (`Ends`,
`Closed`). `SendEdit` is `reconstruct()` of an existing segment, whose commit
stores destination and times (172-187) before `save()` asserts `isEditable`.
`SendDelete`, `ReadForDelete` and then `DeleteOnly`, `DeleteLast` or
`DeleteNothing` are `delete` (138-165) after its `reconstruct()`: the segment
before the deleted one is searched by coordinates, so there may be none or, after
edits, the wrong number of them.

**PathStack** says what those who walk a path rely on: it is a stack of legs. `Extend`
adds one where the last one ends, `Amend` changes the last one but never its start,
`Remove` takes it back, and then the one before is the last. There are no requests, flags
or versions in it: `legs` is what a page shows of the stored rows (`Leg`), and `ends`,
where the path can be changed, is what the flags say (`Open`).

**ParadeLifecycle** follows one row. `reconstruct()` reads the missing form field
`isDraft` as false, so `SendSave`, `SendSaveFinal` and `SendDelete` all commit a
final parade first; `FinishSave` makes it a draft again, `Notify` announces it,
`FinishDelete` removes it unless segments or marches refer to it. `AskVerdict` and
`Decide` are the chapter's two transactions, `Decidable` the assertion of
`accept()` and `reject()`. `hasPath` and `marches` are what other services make
refer to the row. `wanted` and `notices` are history variables for the
properties: whether somebody pressed "Save as final", and what was announced.

**ParadeLife** says what the others may rely on: none → draft or final → accepted
or rejected, or deleted; once announced, content and stage change by a decision
only. ParadeLifecycle's `Stage` is the refinement mapping; the momentary
publication during a "save" is mapped to a final parade nobody was told of.

**MarchPlacement.** `IsRecommended` is `recommendedPos` (row-major search with
`checkPos`, whose comparison of `Integer` objects by `==` is `SameInteger`: true
of equal numbers up to `Cached`). `SendAccept` and `SendReject` are
`reconstruct()`, which stores the decision whatever the status is by then;
`Notify` is `changeStatusNotfication`, a transaction later. `AskDelete` reads the
march, `FinishDelete` deletes it under the version that was read.

**Enrolments.** `AskAccept`/`Accept` and `AskReject`/`Reject` are the read and the
`save()` of `actionsEnrolments` (153-223); a member has several windows (`MemberTab`),
and `Request` follows any list of brotherhoods opened while he had no enrolment, also
one he goes back to (`ListPage`): the code asks nothing again, so that he may end up
with several. `Out` resets the position and adds a
drop-out moment if the member was in; `SetPosition` is the position form, whose
`reconstruct()` lets the member in whatever he was; `NotifyOut` and `NotifyIn`
are the notifications that follow. A rejection of an enrolment nobody decided on
unboxes a null and fails, which is `Reject`'s guard. `catalogue` is the Position
table: `AskDeletePosition` is `isAssigned()`, a transaction before the deletion, and
the foreign key of the enrolment decides at the commit; the form of a position
finds it among those listed when it is sent, or gives none.

**MessageBoxes.** `copies` is the join table of boxes and messages with
multiplicity. `Send` and `Broadcast` fill boxes found by name; `MoveTo`/`Move` and
`Delete`/`Purge` are split because they read rows they do not write
(`findMessage` looks into the other side's boxes). `Purge` deletes the row only if
the message was found nowhere, and has no step when another box still holds it
(the foreign key). `Edit` empties the box, because `reconstruct()` builds it
without messages. The tree of boxes is abstracted here to the set that is deleted
along with a box; it is BoxTree.

**BoxTree.** `parent` is the foreign key of the own boxes of one actor. `Offered` is
the list the edit page offers as parents, `checkParentBox` and `Converted` what the
request asks again. `Below` is what `findByParent()` collects, recursively over the
children: the least set that has the box's children and, of each box it has, the children
too (`Closed`). `Ends` says that this recursion ends; `Delete` deletes what was collected,
which the foreign key refuses if a box was put below one of them since.

**Directory.** `actor` holds zone and e-mail of chapters and brotherhoods, whose forms
are alike. `OpenProfile` reads the zones on offer if the actor has none, `SendProfile` is
`reconstruct()`, whose commit stores the profile, `CheckProfile` what the controller asks
afterwards of the e-mail. `Refers` is the foreign key of the zone and the unique key
that the one-to-one of a chapter makes. `DeleteZone` asks whether a brotherhood has the
zone (`Selected`), and for chapters there is the foreign key only. `Own` and `Disown`
stand for parades and floats of a brotherhood, which need a zone at their first save.

**FinderCache.** `OpenSearch` to `Drop` are the four steps of opening the search page:
the row is read, the controller compares its age, `deleteExpiredFinder` compares it again
under settings read anew, and the row is emptied. `Search` and `Clear` merge the form,
version and all. `Found` leaves open what a filter matches, within the limit; the
loop counts before it compares, so that a limit of 0 lets one through (`Taken`).
`SaveParade` is what the brotherhood does to the stage of a parade meanwhile: a parade
being saved is final for an instant, can be found in it, and can then not be deleted.

**HistoryRecords.** `record` is the table of all records, `inception` and `list` are the
row of the history and its lists. An added or deleted record changes the list of the
session and the commit writes that list as a whole, under the version of the history.
The four kinds of listed records are treated alike by their services and are one kind.

**Moderation.** `AskFlags` and `AskScores` read all actors and set a mark in each, `Flag`
and `Score` are the commits, which write only the rows that changed and all of those or
none. `AskProfile`, `SaveProfile` and `CompleteProfile` are the profile form and its
two commits. `AskBan` reads the marks and `Ban` writes the account, so that a ban
does not notice that the marks have changed; `Unban` asks nothing of them.

**MCRecords, MCMessageBoxes.** Components that share no row are checked side by side:
`part` says which one moves in a behaviour, and the others rest. No product of their
states arises, and each component's instance is explored in full.

Mutants: definitions marked "Mutant" are wrong variants of the definition that
follows them (a dropped version check, a missing reset, a check that says yes).
With each of them in place TLC finds a property of the run violated, which shows
that the property depends on that line of the code.

## 4 The runs

Passing runs explore all reachable states of the instance.

| run | module / cfg | instance | what it shows |
|---|---|---|---|
| segment_overlap | MCSegmentPath_overlap | 2 windows, 2 places, 3 segments, all interleavings, fresh forms | TypeOK; **NoDeadEnd**: no closed segment is left without a continuation; **Handover**: a segment closes exactly when one continuation is inserted; **ClosedIsFrozen** |
| segment_serial | MCSegmentPath_serial | 2 windows, 3 places, 4 segments, one request at a time | **Chained**: the segments are one chain in order of saving whose last is the open one; **StartsAtAnEnd**; **IsStack**: the requests implement PathStack. None holds of overlapping first saves (hazards) |
| parade_overlap | MCParadeLifecycle_overlap | 3 windows, 2 contents, 1 member, all interleavings, any transaction may fail | TypeOK; **NoticesAreTrue**; **DecidedIsFrozen**; **Lives**: the requests implement ParadeLife |
| march_windows | MCMarchPlacement_windows | 3 members, 1 brotherhood window, 2×2 places, 4 marches | TypeOK; **DistinctPlaces**, **PlacedIffApproved**, **MarchesOnce**, **DecisionStands** against withdrawals, **EventuallyTold** |
| enrolment_windows | Enrolments_windows | 1 member who can go back to an old list, 2 enrolments, 2 brotherhood windows, 1 exit of each | TypeOK; **PositionOfTheEnrolled**; **HeldIsListed**: a position somebody holds is not deleted, though it was free when that was asked; **ExitsAreCounted** when both sides end it at once; **ExitStands**: an exit is not undone by an acceptance asked for before it; **EveryExitTold** |
| boxes_windows | MCMessageBoxes_windows | 2 windows of one actor, 1 of another, 1 message, 1 extra box; Moderation: 1 actor, 2 windows, 2 profiles | TypeOK; **OneCopyEach**; **NothingLost**; RowsTypeOK: sessions know the rows they have not missed; **BannedWereJudged**; **NothingPutBack** |
| records_windows | MCRecords_windows | Directory: 2 chapters, 1 brotherhood, 2 windows, 2 zones. FinderCache: 1 parade, 2 windows, cache times of 1 and 2 h, limits 0 and 1, 2 h. HistoryRecords: 2 windows, 3 records, 2 texts. BoxTree: 4 boxes, 1 window | RecordsTypeOK; **DeciderStays**: the chapter that decides on a brotherhood's parades is one, for ever; **OwnersHaveAZone**; **YoungResultsStand**; **ExpiredGo**; **OneInception**; **EachListedOnce**; **EveryBoxReached** |

The five runs that expect a violation are in section 5.

**Bounds.** `MaxId` bounds insertions; rows can be deleted and inserted again up
to it. Three segments are a closed one, its continuation and one more, so that
deletions can reopen while the other window closes; two windows are enough for
any pair of requests to overlap at each commit, and no request reads or writes
more than two segments. `Timely = {FALSE}` in segment_overlap types times in the
wrong order, which the code accepts; `{TRUE}` gives more states and the same
result. Three windows for a parade let brotherhood, chapter and member act in one
interleaving; there is no interaction of four. Three members and 2×2 places let
the search for a place cross a row and a place become free and taken again;
`Cached = 127` is the real limit there, out of reach with two rows, and march_cache
scales it to 1. One exit of each of two enrolments
lets one be ended while the other is accepted; that a second exit of one enrolment is
counted again is what ExitsCounted proves, and the same run with `MaxId = 1` and
`MaxExits = 2` passes too. In boxes_windows
one message is enough since no request concerns two, and the actor with two
windows has an own box besides the five predefined. One actor is enough for
Moderation, since no property relates two of them, and two windows make any two of
flag, score, profile and ban overlap. Two chapters and two zones let one chapter
take the zone of another, and a zone be deleted while it is on offer; two hours and two
cache times let results expire under one setting and not under the other; three
records are an inception record, a listed one and one more at the same time; four
boxes make a chain in which an inner box moves. BoxTree has one window because with
two **EveryBoxReached** is false (each puts one of two boxes below the other): a
hazard of the code that no document speaks of.

**Modes.** `FreshForms = TRUE` in the overlap runs: a form is sent only while its
row is as shown (requests still overlap from there on). The stale forms are
segment_stale. `Faults = TRUE` in parade_overlap: any transaction may fail;
liveness is checked without. `Advised = TRUE`: the brotherhood types the place
the page recommends; without it any place may be typed, and no property of places
could hold.

**Fairness.** Weak fairness of the steps by which a request that has begun goes on:
`Notify` in MarchPlacement, `NotifyOut` in Enrolments, `CheckAgain`, `Drop` and the
`Rollback` of a refused commit in FinderCache. A thread of the servlet container that
has committed one transaction goes on to the next one of the same handler; nobody's
clicking is assumed. `EventuallyTold` and `EveryExitTold` therefore also assume that the
transaction of the notification does not fail. In the code two notifications out of
one Out box at the same instant conflict on its version and one is lost; nothing
retries it (hazards). `ExpiredGo` says what is left when the settings change or another
window searches meanwhile: then the results may stay.

**Deadlock** is checked except where the system really stops: a parade that was
deleted (the instance follows one), a MaxId of marches or messages used up, a finder
at MaxTime, all boxes of BoxTree inserted and deleted.
Symmetry is used in safety runs only.

## 5 Where code and documents disagree

| run | property | what TLC shows |
|---|---|---|
| segment_stale | ClosedIsFrozen | an edit form opened while its segment was the last, sent after another window closed it, changes the closed segment: `reconstruct()` commits before `save()` asserts. SegmentServiceTest says the edition fails |
| parade_refused | FinalIsWanted | "Delete" of a draft with a path answers "Commit error transaction" and leaves the draft final, though nobody pressed "Save as final" |
| march_cache | DistinctPlaces | from the first row above the `Integer` cache on, everybody is recommended one place |
| directory_email | EmailsMatch | a profile form with an e-mail of no known pattern comes back with "This email pattern is not correct", and is stored: `reconstruct()` has committed it before `checkEmail()` is asked. Actor.java leaves the e-mail without a constraint because that check is made elsewhere |
| boxes_rename | UniqueNames | a box is renamed to "In box": the check of unique names is made for new boxes only. Then `findByName` throws, and nobody can send to its owner |

## 6 What is proved

Eight modules of theorems, checked by TLAPS for every value of the constants: any
number of windows, actors, rows, places, texts, and any bound. Their assumptions are
the named ASSUMEs of the modules (bounds are natural numbers, modes are Booleans,
"no such row" is not a row), which TLC evaluates in the runs; where a theorem needs
more it says so, and it is in the table.

All follow one argument. TypeOK is not inductive enough for anything: what a commit
writes depends on what its session read some steps earlier. So the inductive invariant
says that **what a session read is still so unless it has been told otherwise**
(`stale`, `missed`); a commit of somebody else either leaves a row alone or marks it so,
and a commit that goes through writes only what it still knows. One lemma says that a
commit preserves this, and each action is then a case of its own.

| module | theorem | property | needs |
|---|---|---|---|
| SegmentPath_proofs | SessionsAgree (inductive), TypeCorrect | TypeOK | |
| | OneHandover | Handover | |
| | EachStartsAtAnEnd | StartsAtAnEnd | requests do not overlap |
| | OneChain | Chained | requests do not overlap, fresh forms |
| | Implements | IsStack: Spec implements PathStack | requests do not overlap, fresh forms |
| | ClosedSegmentsFrozen, NoneAtADeadEnd | ClosedIsFrozen, NoDeadEnd | fresh forms |
| ParadeLifecycle_proofs | SessionsKnow (inductive), TypeCorrect | TypeOK | fresh forms |
| | NoticesTrue, DecidedFrozen | NoticesAreTrue, DecidedIsFrozen | fresh forms |
| | Implements | Lives: Spec implements ParadeLife | fresh forms |
| MarchPlacement_proofs | WindowsKnow (inductive), TypeCorrect | TypeOK | |
| | OneMarch, ApprovedArePlaced | MarchesOnce; PlacedIffApproved | the former: each member has one window; the latter: recommended places are typed |
| | PlacesDistinct | DistinctPlaces | recommended places, one brotherhood window, no row or column above the `Integer` cache |
| | DecisionsStand | DecisionStands | fresh forms |
| Enrolments_proofs | SessionsKnow (inductive), TypeCorrect | TypeOK | |
| | PositionsOfTheEnrolled, HeldAreListed | PositionOfTheEnrolled, HeldIsListed | |
| | ExitsCounted, ExitsStand | ExitsAreCounted, ExitStands | |
| MCMessageBoxes_proofs | CopiesCounted (inductive), TypeCorrect | TypeOK | |
| | OneCopy, KeptForGood | OneCopyEach, NothingLost | |
| | SessionsKnow, BannedJudged, KeptToItsColumns | RowsTypeOK, BannedWereJudged, NothingPutBack | |
| MCRecords_proofs | ZonesAreHeld (inductive), OwnersZoned, OneDecider | OwnersHaveAZone, DeciderStays | |
| | EveryBoxIsReached, EveryWalkEnds | EveryBoxReached; that `Ends` is true of every box | one window of the owner of the boxes |
| | OneInceptionEver, ListedOnceEver, YoungStand | OneInception, EachListedOnce, YoungResultsStand | |
| | RecordsTyped | RecordsTypeOK | |
| HistoryRecords_proofs | RequestsKnow (inductive) and what it implies | | |
| FinderCache_proofs | PagesKnow (inductive) and what it implies | | |

So every invariant and every action property of a passing run is a theorem.
HistoryRecords_proofs and FinderCache_proofs are about those modules alone, from
hypotheses about their constants; MCRecords_proofs instantiates both, derives the
hypotheses from the named ASSUMEs of MCRecords, shows that the instance a theorem is
about and the one in the run are the same, and so carries the theorems over to `SumSpec`.

What the invariants add to "sessions know":

- *SegmentPath*: `Shape` (a request in its last transaction is about a segment its view
  holds) and `IdsAhead` (no row has an id not given out yet). For NoDeadEnd, `Continued`:
  every closed segment has a continuation, and one that every deletion which has missed
  neither of the two knows of, so that it reopens what it leaves without one. For Chained,
  `Preceded`: every segment but the first comes after one, with none between the two. It
  is what names the segment a deletion reopens without taking the largest of a set of
  ids, which would need induction; `Serial` adds that a request alone on the server works
  on the path as it is. Lemma NextPath then says what such a request can do to the path in
  one step (begin it, continue, change or remove its last segment, or empty it), and both
  OneChain and the refinement rest on it: in a chain the open segment is the last.
- *ParadeLifecycle*: a draft has no verdict; what is announced or about to be so is so,
  and whoever was about to save or delete the parade by then is stale: `FinishSave` and
  `FinishDelete` come too late to undo what was announced, which is what the refinement
  needs.
- *MarchPlacement*: the withdrawal of a march knows its status, and the page that will be
  accepted shows a place that is free as long as only its own window gives places away.
- *Enrolments*: no id is given twice; a rejection knows whether the member was in. PositionOfTheEnrolled and HeldIsListed are
  conjuncts: with them a form that changes nothing else keeps a position that is there.
- *MessageBoxes*: any **three** boxes of an actor hold one copy of a letter at most and
  two of an announcement. Of two boxes it is not inductive: after a move the new box
  and another one hold what three boxes held before. Of three it is: a fourth box that
  gives a copy leaves less for the other three.
- *Directory*: zones of actors are listed and are of one chapter at most, and owners have
  one; a page offers zones only to who had none, and `Chosen` asks again.
- *HistoryRecords*: the list a request that is not stale will write is the stored one.
- *FinderCache*: a page that is not stale shows the stored row, and one about to drop
  results has found them older than the shortest cache time.

- *BoxTree*: a form of a box offers nothing that lies below it, what was sent goes below
  none of these, and a deletion has collected a closed set. That a move keeps every box
  reached takes no induction over the tree, because `Below` is a *least* closed set: any
  set that has the boxes below none, and every box whose parent it has, has them all
  (lemma Walk). After a move of b that set is "reached afterwards, or b, or below b
  before"; so the new parent, which is not below b, is reached, then b, then all the
  rest. With two windows the first conjunct is not kept, which is the hazard; the types
  are proved for any number of windows.
- *Moderation*: a session changes its own columns of the rows it has read and no others
  (`Keeps`), and takes no mark back (`Marked`); whom a session is about to ban has both
  marks. A commit writes a row only if its session has not missed a change of it
  (`Commits`), so that what it had read there is what is stored, and what is true of the
  session's copy becomes true of the row.

Only model-checked: the liveness properties EventuallyTold, EveryExitTold and ExpiredGo.
Liveness under fairness, and ENABLED, are beyond the prover and stay with TLC.

## 7 What is not modelled

- *In the modelled parts*: lists, searches and ratios that only read; validation
  of single fields; wording. Requests of actors without the authority, which Spring
  Security and the assertions refuse, and typed URLs that no page links to. The
  assertions do not refuse all of these: `EnrollmentController` (169-181) asks of a member
  only that the enrolment is his, so that he could accept his own by typing the URL.
  `SegmentService.deleteAll` has no caller. ParadeLifecycle leaves out that a finder's
  results, too, can keep a parade from being deleted: FinderCache has it.
- *Directory*: fields of a profile besides zone and e-mail; the pictures of a
  brotherhood. *HistoryRecords*: that a linked brotherhood is linked once.
- *Moderation*: which texts are spam or which words count. That the shares are divided as
  integers, so that only who writes nothing but spam is a spammer, is a hazard without a
  property. Sessions of the banned go on, and are not followed.
- *Settings* besides those of the finder: one row edited by one form.
- *Dashboard*: aggregate queries, which change no state. Their divisions are listed
  among the hazards.
- *Registration of members and administrators, social profiles*: one insertion,
  or forms over one's own single row. *Sponsors, sponsorships, proclaims, credit
  cards* are tables without services. *Login* is Spring Security's; *export* and
  *database utilities* read or fill tables outside the application.
- The scripts under `src/main/webapp/scripts` (jQuery, jQuery UI, jMenu) are copies of
  third-party libraries for menus and decoration: no logic of this application is in
  them, and none of their lines is modelled.

## 8 Plan

Done: all components with state that more than one actor or window changes, and proofs of
all safety properties the runs check. What is left:

- A second window in BoxTree with a document to hold the code to, and a message
  flow that joins MessageBoxes with the notifications of the other modules.
