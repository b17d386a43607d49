# CovidHelper: a TLA+ verification project

CovidHelper matches people at risk who need groceries with volunteers (`src/README.md`).
The repository has about 3200 lines of its own code in four programs; the rest of `src/`
(CocoaPods, the Stripe SDK, gRPC) is vendored. It has no tests of the program's own behaviour:
the Android test files are the templates the IDE generates.

## 1. The system and its parts

| Part | Code | State it keeps | Operations | Model |
|---|---|---|---|---|
| API server | `src/API` (Node, Express) | none between calls; promises of the calls in progress | `GET/POST/PUT/DELETE /doc/:db/:id`, `GET /db/:db`, `/acceptReq`, `/acceptVol`, `/completeReq` | `MatchServer`, `ApiCalls`, `AtomicStore` |
| Document store | Firestore, hosted | collections `volunteers`, `requests`, `customers` | get, set, update, delete: each atomic, none ordered with another | `DocumentStore` (external) |
| Messaging | FCM, hosted | devices by token | send | in `MatchServer`: accepted or refused |
| Android client | `src/ANDROID` | list of orders, adapter, a lock | fetch and show the orders | `OrderFeed` |
| iOS accounts | `ViewController`, `SignUpViewController`, `ProfileViewController` | session (Auth), screen, role control | launch, sign up, log in, log out | `Account` |
| iOS store list | `Store/StoreViewController`, `GroceryViewController` | stores, filtered stores, search text, rows | fetch, type, scroll, tap | `StoreBrowse` |
| iOS row images | `Store/StoreCell`, `GroceryCell` | a cell's item and image, image requests | give a cell an item, receive an image | `RowImages` |
| iOS cart | `Customer/Cart`, `Store/GroceryDetailViewController`, `Customer/CartViewController` | the shared cart, quantity, badge, alert, listed items | choose, add, answer an alert, list, enter an address, go to the payment | `Cart` |
| iOS checkout | `PaymentViewController`, `Order`, `APIManager`, `TrackOrderViewController` | latest order (Realtime Database), charge (Stripe) | place and track an order | in `Cart`, as far as it gets; see 7 |
| Web client | `src/WEB` | none | static pages; one lookup on sign-in | not modelled |

The Android and web clients talk to the API server over HTTP. The iOS client talks to Firebase
and Stripe directly and to no part of `src/API`. Within the iOS client the screens share
objects: Firebase's session, and `Cart.currentCart`.

### What is hard, and what makes each part correct

**API server.** Handlers interleave at their awaits. `acceptVol` (`dbConnect.js:114-126`) marks the
volunteer and later the request with writes nobody waits for, and reads in between. `compReq`
(`dbConnect.js:181-200`) reads three documents, then frees the volunteer and deletes the request
with writes nobody waits for, and then fails, because it sends its message to the token of a
promise: it answers 500 after having done its work. Store requests travel concurrently, any of them
may fail with or without effect, and the process may die. Correct means: a document appears only
through `addDoc` and disappears only through `deleteDoc` or a completion that went through its
reads; an accepted volunteer stays busy until somebody frees him on purpose; an acceptance that
succeeded takes hold, and so does a completion, until another call's own write undoes it; document
calls are atomic; every call is answered; repeating a completion finishes it.

As committed, `server.js:29` has no line break or semicolon before `next()`, so the file does
not parse. The model is of the server with that separator, the one the clients' base URL means.

**Android client.** `MainActivity` starts two threads: one waits on a lock and then shows the
list, one requests the orders; the response listener notifies the lock. The notification may
come before the wait, a wait may end without one, an answer may not be parseable, and a
rotation starts everything again on the same main thread. Correct means: a list on the screen
is complete, it is missing only after a failed request or a notification that nobody waited for,
and the main thread is never stuck.

**iOS accounts.** Calls complete when the user has pressed, toggled and left other things, on
this device or another; the document with the role is written after the account was created.
Correct means: one role per email, the customer's menu for customers only, no account without
a role unless its sign-up was cut off, and no menu of anybody but the user who is signed in, unless
a press or a way back crossed a call.

**iOS store list.** Rows are counted at one time, looked up at another and tapped at a third,
in one of two lists. Correct means: no index out of range, the tapped store is the one that was
shown, and the list is what matches.

**iOS row images.** A cell asks for the image of its item and may have another item when it comes;
requests end in any order, and the completion does not look whose image it brings. Correct means:
a foreign image has one of the few causes the code leaves open.

**iOS cart.** A grocery gets into the cart when an animation ends; by then its screen may be
covered, or gone, and other groceries may have landed. Correct means: one store, every grocery
once, an alert acts on what it asked about, no tap is swallowed in sight, the badge counts the
cart, and what is paid was listed.

## 2. Modules and how they correspond to the code

| Module | What it is |
|---|---|
| `DocumentStore` | Documents, the four calls of the Firestore client, when it refuses one, and what it resolves with. Pure operators; external, modelled from `dbConnect.js`. |
| `ApiCalls` | The HTTP calls of `router.js`, their parameters and answers. Shared by the next two. |
| `MatchServer` | The server: every handler of `controller.js` with the methods of `dbConnect.js`. |
| `AtomicStore` | The promise to the clients: document calls happen at one instant; what a matching call may touch. |
| `OrderFeed` | `MainActivity` and `OrderAdapter`: two threads, the main thread's queue, the lock. |
| `Account` | The three account screens on several devices over Auth and Firestore. |
| `StoreBrowse` | The list of stores, its filter and its rows. |
| `RowImages` | The images in the rows of both lists. |
| `Cart` | Detail screens, the cart, the cart screens, the payment screen up to where it ends the program. |
| `MC*` + `.cfg` | Instances for TLC. |
| `*_proofs` | Theorems and proofs (8). |

`MatchServer` extends `ApiCalls`, which extends `DocumentStore`; it instantiates `AtomicStore`
with a mapping of its promises to call outcomes. The clients are not composed with the server: the
server meets any calls from `Traffic`, which is more than they make. The parts of the iOS client
share too little for a composition to say more: `Account` ends at the menu, `StoreBrowse` at the
tapped store, `RowImages` is about what a row shows and not which rows there are, and `Cart`
starts at a detail screen that has its grocery and store.

**MatchServer.** `promise[c]` holds the local variables of the handler of call `c` (`doc`,
`volData`, `reqData`, `custData`) and the two writes it does not keep. What a handler has been
through follows from which promises exist and which are settled, so there is no program counter.
`Start` runs a handler to its first await (`FirstRpcs`), `Resolve`, `Refuse` and `Fault` settle
one store request in any order, and the remaining actions are the code between two awaits:
`AcceptVolMark` is `dbConnect.js:118-119`, `CompReqWrite` is `190-197`, and so on to the `catch`
of each controller method (`AcceptReqFail`, `AcceptVolFail`, `CompReqFail`). `ReadFails` has the
order of the awaits: a promise that is rejected while an earlier one is still awaited fails the
handler only after that one. `Crash` answers open calls with a reset connection and loses any
of the requests under way. Left out: `GET /db/:db`, which changes nothing, and fields that no
code decides on.

**OrderFeed.** One action per piece of code between two points where threads can interleave:
`Acquire`, `Wait`, `Post` of the waiting thread (`MainActivity.java:127-142`), `Send` of the
other, `Deliver` of Volley, and the tasks of the main thread, one at a time and in the order of
their posting: `OnResponse`, then `Notify`, which needs the lock, `OnErrorResponse`, `Show`,
`Layout`. `Activities` are instances of the activity. The list view shows what the shared list
holds when it is laid out. The history variable `missed` remembers that an activity's notification
came before its wait, or that its request failed.

**Account.** `job` holds the calls in flight: an operation, the device and email, and what has
become of the screen that made the call (`view`), since a completion of a screen that is gone
does nothing and one of a screen that is covered still writes. `Die` ends the process at any
time; sessions and unsent writes survive it, as the Firebase SDK keeps them. `Create` happens at
Auth, `Created` and `Refused` are the completion on the device. The first log-in screen is in a
navigation controller, so that it appears again, and signs out, when the user comes back from the
sign-up screen (`viewWillAppear`); the one `logOutPressed` presents is not (`modal`): it presents the
sign-up screen, does not appear anew after it, and can present no menu while it is up. The history
variable `crossed` remembers that the last press, way back that signs out or log-out came while another
call was out, until the last call ends and no menu is up.

**StoreBrowse.** `rows` is what `numberOfRowsInSection` last returned, `shown` what each row with
a cell shows; `ShowRow` is `cellForRowAt`, at any later time. `Select` looks the row up again, as
`prepare(for:)` does. The list of groceries (`GroceryViewController`) is the same machine with no text
but the empty one: one fetch, rows counted and looked up later.

**RowImages.** `BecomeStore` and `BecomeGrocery` are the two `updateUI`: the first clears the image and
asks for the next one if there is a URL, the second keeps it and unwraps the URL. `Receive` and
`ReceiveNothing` are the completion, of either class, with and without data.

**Cart.** `AddToCart` only starts animations; `Land` is the completion on a screen that is still
open (it may be covered by the cart screen or an alert), `LandStray` that of a screen that is
gone, and both do all of `GroceryDetailViewController.swift:124-182` through `Landed`. An alert
that cannot be presented is dropped, as UIKit drops it. `OpenCart` is the cart screen over a
detail screen, a new one each time; `OpenTab` the one in the tab bar, which is loaded once.
`PlaceOrder` is what the payment button does as committed, and `OpenTrack` what the screen that
tracks an order does when it loads: `Order.swift:75` unwraps `User.current.id`, which nothing sets
(nothing calls `User.setData`), and the program ends (`Ended`), to be started again with an empty
cart (`Relaunch`).

Two assumptions about the screens: the storyboard has neither the segue identifier that
`StoreViewController.swift:74` tests nor connections to `addToCart` and its neighbours, and
nothing sets `grocery` and `store` of a detail screen. `StoreBrowse` and `Cart` are models of the
classes, for a storyboard that connects what they declare and an opener that sets the two.

**Slips.** Definitions commented "Slip:" are not part of any specification. Each is a
definition with a plausible mistake (a dropped guard, a `set` for an `update`, a missing await,
an index found too early); the run that checks a property finds it violated when the slip takes
the definition's place. They show that each property can fail.

## 3. Runs

Cfg files are `<module>_<run>.cfg`.

| Run | Question | Bounds, and why they are enough |
|---|---|---|
| `MCMatchServer` match | `TypeOK`, `BusyUntilFreed`, `AcceptanceTakesHold`, `CompletionTakesHold`, `NoResurrection`, `RemovedOnPurpose` | Three calls out of two acceptances of one volunteer, a completion and a deletion; one of the two requests does not exist. Stores where the volunteer is free, or in progress with his request (a completion is due), or where a completion was cut off half way: in these an acceptance that fails to mark, and a completion that fails to release, shows. Every race the handlers have is of two calls on one document, a third call may come between. No faults. Symmetric in calls. |
| `MCMatchServer` atomic | `AtomicDocumentCalls`: `MatchServer` implements `AtomicStore`; and `BusyUntilFreed`, `CompletionTakesHold`, `NoResurrection`, `RemovedOnPurpose` under faults | Two calls out of one of each kind, well-formed, incomplete or without a token, and rewrites of the volunteer and the request; stores without the one or the other; one failing store request and one crash, so that each step of a handler, and each of the two writes of a completion, is the one that fails. The types are those of run match. |
| `MCMatchServer` answered | `NoCallHangs`, `EveryCallAnswered` | Every handler that waits, with one failing request, beside a call that takes its documents away. No crash: a reset is no answer. |
| `MCMatchServer` retry | `RetriesRepair` | Three equal completions against two failing requests, from a store where a completion is due or was cut off half way. |
| `MCMatchServer` token, informed | violations, see 6 | One call each: they need no concurrency. |
| `MCOrderFeed` feed | `TypeOK`, `ShownIsComplete`, `MissedStaysEmpty`, `NothingIsLost`, `EmptyOnlyIfMissed`, `UiThreadReturns` | Two activities, whose tasks mix in the one queue; no code lets a third matter. Answers with up to two orders, or none, or not parseable. It ends, so deadlock is not checked. |
| `MCAccount` accounts | `TypeOK`, `OneRole`, `CustomerMenuIsEarned`, `RolelessOnlyIfAbandoned`, `MenuHasSession` | Two devices, two emails and two calls in flight: two calls for one email from one or two devices, or for two emails from one device. Symmetric. |
| `MCStoreBrowse` browse | `TypeOK`, `RowsExist`, `TappedIsShown`, `ListIsComplete` | Three stores fetched in any order and number, two texts that match overlapping pairs. |
| `MCRowImages` images | `TypeOK`, `ForeignImageIsExplained` | A cell of either class (cells do not interact), three items, one without a URL, three requests out: a cell's own and those of two former rows, ending in any order. |
| `MCCart` cart | `TypeOK`, `OneStore`, `AddedOnce`, `AlertIsCurrent`, `TapGetsThere`, `BadgeIsRight`, `ListedIsPaid`, `PaymentIsReady` | Three taps: one left behind by a closed screen, one that fills the cart, one that raises the alert. Two groceries of one store, and one of another store with an id of the first. Limit 2 of the quantity, 99 in the code. |
| `MCCart` order | a violation, see 6 | The same. |

Bounds are constants: `MaxFaults`, `MaxCrashes`, `Slots` (of `Account` and of `RowImages`), `MaxTaps`,
`MaxQuantity`.

What the properties leave open, on purpose, is where the code gives no guarantee: `BusyUntilFreed`
excuses a completion of the volunteer's other request (nothing forbids that he is accepted twice);
`CompletionTakesHold` a mark, or a rewrite, that reaches the store after the release, in the step in
which it does (a mark settled before the release is no excuse), and `AcceptanceTakesHold` likewise a
completion's write or a rewrite;
`ShownIsComplete` a wait that ended without a notification (the code has no loop around it);
`RolelessOnlyIfAbandoned` a sign-up whose completion never ran; `MenuHasSession` calls that
crossed; `ForeignImageIsExplained` a cell reused too early, and a grocery's image that fails;
`TapGetsThere` an alert that cannot come up or is cancelled; `ListIsComplete` a text typed before
the stores came; `BadgeIsRight` and `ListedIsPaid` a grocery that lands behind the back of the
screen in sight, or in the tab bar's old one. Each excuse is a state the run reaches. It is also where
the hazard itself bites that such a property goes with: these properties do not call the code's
behaviour wrong there, they say that nothing else leads to it.

## 4. Fairness

* `MatchServer`, runs answered and retry: while a call can go on, something of it happens. The
  Firestore client settles each request (it has a deadline) and Node runs the continuation of a
  settled promise. No fairness for calls, faults and crashes.
* `OrderFeed`: the main thread takes its tasks and lays out, both other threads are scheduled, and
  Volley ends a request with an answer or an error (it has a timeout and, here, the default
  retries). No fairness for creating an activity or for a wait that ends by itself.
* `Account`, `StoreBrowse`, `RowImages`, `Cart`: none; only safety is checked.

## 5. What is proved

TLAPS checks these for all values of the constants that meet the modules' named assumptions.

| Module | Theorems | Argument |
|---|---|---|
| `MatchServer_proofs` | `TypeCorrect`, `OpenCallsGoOn`, `BusyVolunteers`, `NoDocumentResurrected`, `NoDocumentLost` | `IInv == TypeOK /\ Discipline`. Types alone are not inductive: a promise may be resolved with a document only if its request was made for that call, so `Discipline` says which promises a handler of each kind can have, and in which order it got them. The two action properties then follow from what each store request can do to a document (`AppliedElsewhere`, `AppliedThere`, `Writers`), `BusyUntilFreed` from the fact that its excuses never go away (`ExcuseStays`). `OpenCallsGoOn` (that is `NoCallHangs`) adds `Awaits`: an open call has made every promise its handler awaits, so when none is under way, all it reads is there or an error it gets to see. |
| `Matching_proofs` | `Acceptance`, `Completion` | Two action properties, under faults and crashes. The step that makes a loss true is one that settles a write or one that answers. A settled write of the call itself makes its document what it should be (`MarkTakes`, `ReleaseTakes`, `RemovalTakes`); an answer comes after both writes were made (`MatchInv`: `Progress` says how far an acceptance is, `Orderly` that a completion that answered has made both writes or has not read all it reads, and makes none before); and a document that is "in progress", "free" or gone is so until the store settles a write of the kinds excused (`MarkHolds`, `FreeHolds`, `GoneHolds`). |
| `Atomic_proofs` | `Linearizable` | The refinement of `AtomicStore`, step by step: a store request of a document call that is settled is `Take` or `Fail`, one of a matching call is `Match`, the continuation of a handler is `Reply` or a stutter, a crash is `Reset`. `RInv` adds to the invariant of `MatchServer_proofs` that a promise has a value only when it is fulfilled, and that promises and answers are of calls that have been let in. |
| `OrderFeed_proofs` | `TypeCorrect`, `CompleteLists`, `MissedLists`, `NoWakeUpIsLost` | An answer is delivered to an activity once, after its request has ended (`OneAnswer`); a thread that was notified was notified by the listener of that answer, so none can follow (`NotifiedAfterAnswer`); the list is shown after that thread's end (`ShownAtTheEnd`). `NoWakeUpIsLost` (that is `NothingIsLost`) is inductive with the types: a task stays in the queue until it is taken (`StaysQueued`), and a notification that finds nobody waiting is counted as missed by the same step. |
| `Account_proofs` | `TypeCorrect`, `RolesAreApart`, `CustomerMenus`, `Roleless`, `Sessions` | `WriterIsAlone`: a completion that is about to write the role of an email is the only one for that email, and no document of it exists. `SessionFollows`: unless calls crossed, a device has one call out at most, none under a menu, and its lookup is for the session's user. |
| `Cart_proofs` | `TypeCorrect`, `BadgeOfTheCart`, `CartOfOneStore`, `GroceriesOnce`, `AlertsStayCurrent`, `TapsGetThere`, `Payment`, `ListedPayment` | `LandedKeeps`: the end of an animation leaves every item where it was and adds at most one, of the cart's store and with a new id, at the end. `ListsAreOfTheCart` adds that a screen which lists something implies a cart that is not empty, as only the end of the program empties it; `HeardIsKept`, that a tap which landed in sight is in the cart or its question of a new cart is up; `BadgeCounts`, that the badge of an open screen is right also while the screen is covered, unless its button has yet to turn. |
| `StoreBrowse_proofs` | `TypeCorrect`, `FilteredRight`, `NoRowIsMissing`, `EveryMatchIsCounted`, `TappedStoreIsPassed` | `RowsAreCounted`: the table was told of the rows of the list it shows, and the filter, which is never longer than the list, is what the search keeps of it unless the text is older than the stores. `RowsAreCurrent`: whatever changes the list gives back all rows. `FilteredRight` is about the search itself: what it keeps of a list of any length. |
| `RowImages_proofs` | `TypeCorrect`, `ForeignImages` | `OutIsOwn`: unless a cell was reused too early, every request of it that is out is for the item it has. |

`Filtered` (`StoreBrowse`) and `TotalQuantity` (`Cart`) are functions that are recursive along a list. What
is proved about them holds for lists of any length, by the least counterexample: if a fact fails for some
beginning of a list, there is a shortest beginning for which it fails (`LeastNat`, from the library's
`NatLessThanWellFounded` and `WFMin`), and the recursion leads from there to a shorter one.
`KeepsExists` and `TotalsExist` show in this way that the recursions have a solution, `FilteredRight` and
`TotalIsNat` what it is.

Only model-checked: liveness (`EveryCallAnswered`, `RetriesRepair`, `EmptyOnlyIfMissed`,
`UiThreadReturns`), which is beyond the prover, as is `ENABLED`. What these rest on besides fairness
is proved: no open call is without a next step (`NoCallHangs`), no wake-up gets lost but the missed
ones (`NothingIsLost`), a thread has the lock only when it is about to wait and give it up
(`OrderFeed`'s `TypeOK`), and what a completion has written holds until a later write
(`CompletionTakesHold`). Every invariant and every action property of the passing runs is stated by
a theorem.

## 6. Findings

* `token`: `acceptRequest` returns promises, not values, so `acceptReq` and `compReq` communicate
  to an undefined token and always answer 500 (`controller.js:89`, `dbConnect.js:194`).
* `informed`: `acceptVol` answers 200 although its message, which carries objects, is refused and
  the refusal is dropped (`controller.js:118`).
* `order`: the payment button, which should lead to a new order or to a word about the open one, ends
  the program (`Order.swift:75`).

Seen while reading and modelled as the code has it: a volunteer may stay busy with a request that
is gone, when his mark overtakes his release; an account may be left without a role for good; a
search text typed before the stores arrive matches nothing until it changes; the tab bar's cart
screen is loaded once; the first addition to the cart ignores the chosen quantity
(`CartItem.swift:17`); a user whose document cannot be read is shown the volunteer's menu
(`ViewController.swift:124`); a row may show another item's image (`StoreCell.swift:35`,
`GroceryCell.swift:42`).

## 7. Not modelled, and why

* Checkout beyond `PlaceOrder` and `OpenTrack`: no execution gets past `Order.swift:75`, so a model of
  the rest would be of states the program is never in. Behind it lie code that would matter if the
  user's data were set: `User.toDictionary` has the key `name` twice, which traps; the latest order is
  written under `user/` and read under `users/` (`Order.swift:50,76`); a charge that fails completes like
  one that succeeds (`APIManager.swift:62-70`).
* `GET /db/:db`, which changes nothing; the banner of the list of groceries, one image for one screen.
* The web client (static pages, one lookup whose answer is logged), Android's unused helpers and
  its messaging service (callbacks that log), layout, and the IDE's templates.
* Vendored code.

## 8. Plan

Done: the API server with its abstract store and the proof that it implements it; the Android client;
accounts, store list, row images and cart of the iOS client, and its checkout as far as it runs; the
proofs of section 5.

Left, and waiting for changes of the code: the checkout, once a signed-in user's data is set, to be
composed with `Cart` (its completion resets the cart while a detail screen and its alert may be open);
and what the repository leaves undecided, such as whether a volunteer may serve two requests at a time
or what a lookup that fails should show, which is not a property until somebody decides it.
