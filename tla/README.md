# Velor House: specifications of the order system

TLA+ modules, TLC configurations and TLAPS proofs about the Velor House shop: its
server (`src/apps/api/src`, a NestJS application over PostgreSQL through Prisma) and
the state its two web applications keep (`apps/web`, `apps/admin`). Paths below are
relative to `src/apps/api/src` unless they start with `docs/`, `apps/` or `packages/`.

Run everything from this directory:

    tlc -workers 2 -config OrderPayments.cfg MCOrderPayments
    tlapm OrderPayments_proofs.tla    # and each other *_proofs module

## 1. The system

### Components, their state and their operations

| Component | State it keeps | Operations that change it |
|---|---|---|
| Orders (`orders/`) | `Order`, `OrderItem`, `OrderStatusHistory`, `Payment` rows | `placeOrder`, `retryPayment`, `finalizePayment`, `failPayment`, `verifyFromClient`, `handleWebhook`, `adminSetStatus` |
| Payment providers (`payments/`) | none | `initiate`, `verify`, `verifyWebhook` for Razorpay, cash on delivery, a sandbox |
| Stock (`orders/orders.service.ts` 785-836, `admin/inventory-admin.service.ts`) | `InventoryLevel`, `StockMovement` | `reserveStock`, `commitStock`, `releaseStock`, `returnStock`, `adjust` |
| Shipping (`shipping/`) | `Shipment`, `ShipmentEvent`; writes `Order.status` | `createShipment`, `assignAwb`, `schedulePickup`, `cancel`, `handleWebhook`, `refreshTracking`, `pollActiveShipments` |
| Shiprocket client (`shipping/shiprocket.service.ts`) | a login token in memory and in `Integration` | login, requests with retries |
| Cart (`cart/`) | `Cart`, `CartItem` | `resolve`, `mergeGuestCart`, `addItem`, `updateItem`, `removeItem`, coupons |
| Checkout and pricing (`checkout/`, `pricing/`) | `Coupon.usedCount` (written by orders), a cache of settings | the totals of cart and order |
| Accounts (`auth/`) | `User`, `OtpChallenge`, `RefreshToken` | one-time codes, registration, rotation of refresh tokens |
| Wishlist (`wishlist/`, `apps/web/src/lib/wishlist-*`) | rows, the product's counter, the guest's list | add, remove, merge |
| Catalogue administration (`admin/catalog-admin.service.ts`) | products, variants, categories, the search index | create, update, delete, bulk changes, CSV import |
| Catalogue reads (`catalog/`, `search/`) | none | listings, facets, the tree |
| Pincodes (`geo/`) | a cache in front of a postal API, in memory and in a table | look up, check an address |
| Home page (`admin/homepage-admin.controller.ts`) | `Banner` rows and their positions | add, change, move, delete |
| Media (`media/`) | files in a bucket or on disk | upload, delete |
| API shell (`common/`) | `AuditLog` | guards, audit |
| Seed (`packages/db/prisma/seed.ts`) | rows of every kind | run by hand, again and again |
| Web shop (`apps/web`) | cart token, sign-in, guest list in the browser; what its pages show | clicks |
| Administration (`apps/admin`) | a token in the browser; what its pages show | clicks |
| Newsletter, e-mail, SMS, suggestions | single rows or nothing | single writes, I/O |

`PROJECT.json` lists the same parts with their source files and what is modelled
of each.

### How they interact

* The web shop and the admin pages call the API over HTTP. Every call is handled
  by its own asynchronous function; at each `await` any other call may run. There
  is no lock in the process and no queue.
* Handlers share nothing but database rows. The transactions (`$transaction`) run
  at PostgreSQL's READ COMMITTED; most checks are made on rows that were read
  before the transaction and outside of it.
* Razorpay reports a payment through two independent paths: the customer's browser
  calls `verifyFromClient`, and Razorpay calls the webhook. Both end in
  `finalizePayment`, which the code calls safe for both.
* A confirmed order is handed to shipping by a call that nobody waits for
  (`autoCreateForOrder`). Shiprocket reports through a webhook, and a timer polls
  it; both, and the administrator's refresh, end in `applyStatus`.
* Shipping and the administrator both write `Order.status`.
* Pages of the shop and of the administration show a copy of what the server answered
  last; every click sends a request of its own, computed from that copy, and answers
  come in any order.
* A product's save feeds the search index and deletes files by calls that nobody waits
  for; it deletes variants that carts and orders name.
* Categories are read by parent (menus) and by path (listings); both are written by the
  same edits.

### What is hard

* Duplicate, late and reordered reports of one payment, racing retries and the
  administrator.
* Values read before an `await` and used after it: the payment's status, the
  order's status, the payment status that decides between returning and releasing
  stock, the `reserved` number that `commitStock` writes back.
* Two transactions that lock the same rows in opposite order.
* Handlers that stop half way. There is no job that resumes them.
* Reports of a parcel that arrive in another order, land on another shipment of
  the order, or fail and are never repeated.
* Lists that are replaced by deleting and creating rows, outside a transaction.
* One token shared by many requests, here to Shiprocket, there by the tabs of a browser.
* Caches (PIN codes, settings, Shiprocket's token) whose entries are written late.
* Steps of the customer that overtake the answers to earlier ones: typing another PIN,
  another mobile number, another filter.

`PROJECT.json` lists each hazard at its line, with the property that covers it or
the reason why none does.

### What makes each component correct

* Orders and payments: an order is confirmed at most once, by one payment that was
  authorised; everything a confirmation causes happens exactly once; cash on
  delivery is never marked paid by a call; captured money confirms its order.
* Stock: the movement ledger explains the units on hand; `reserved` is the sum of
  the open reservations; nothing is promised twice; transactions end.
* Shipping: no more active shipments per order than calls asked for at once; an order's
  status is something a courier said; a delivery is seen although every webhook is lost.
* Cart and bag: every click counts once; a guest's lines survive the login once.
* Checkout: a coupon passes its limit only by uses that overlap; a conversion takes only what was
  ordered; the lines of an order add up to its total, and the courier collects it; the
  page tells the truth about the PIN and the amount.
* Accounts: a code is accepted once and only while it is the newest; who proved a number
  is signed in; a session has one refresh token.
* Catalogue: a product is what its last save said; the index follows it; its images are in
  storage; an export can be imported; no listing is a dead end or hides a product between
  its pages.
* Administration: nobody writes without the permission, every audited mutation is logged,
  and a page that has loaded shows what it did.

## 2. The modules

| Module | What it is | Code |
|---|---|---|
| `OrderConfirmation` | what `finalizePayment` promises: two variables, one action | `orders/orders.service.ts` 249-428 |
| `OrderPayments` | the payment life cycle of an order, call by call and await by await | `orders/orders.service.ts`, `payments/*.provider.ts` |
| `OrderPayments_proofs`, `StockLedger_proofs`, `ShipmentSync_proofs`, `Accounts_proofs` | the inductive invariants and the theorems about these modules, and `OtpSignIn` (section 4) | |
| `Checkout_proofs` | the same for what `MCCheckout` runs: `Cart`, `Checkout`, `BagView`, `VariantPicker`, `CheckoutPage`, `PincodeCache`, `OrderTotals` | |
| `Storefront_proofs` | the same for what `MCStorefront` runs: `Wishlist`, `Listing`, `CategoryTree`, `CatalogDesk`, `HeroSlides`, and `Accounts_proofs` | |
| `BackOffice_proofs` | the same for what `MCBackOffice` runs: `ShiprocketClient`, `ProductAdmin`, `ProductForm`, `MediaLibrary`, `Seed`, `StaffAccess`, `OrderDesk` | |
| `SumTheorems` | lemmas about sums over a finite set, which the proofs about stock, carts and amounts cite | |
| `StockLedger` | one warehouse's stock under the transactions of the stock helpers, SQL statement by SQL statement | `orders/orders.service.ts` 785-836, `admin/inventory-admin.service.ts` |
| `StatusMap` | the three pure maps from a courier's label to statuses | `shipping/status-map.ts` |
| `ShipmentSync` | creating, managing and tracking shipments | `shipping/shipping.service.ts`, `shipping/shipping-webhook.controller.ts` |
| `Cart` | the carts of one customer in several browsers: resolving, merging, changing | `cart/cart.service.ts`, `apps/web/src/lib/cart-context.tsx`, `storefront.ts`, `auth-context.tsx` |
| `Checkout` | extends `Cart` with placing an order, converting the cart, redeeming the coupon | `orders/orders.service.ts` 52-215, 283-355, `pricing/pricing.service.ts` 114-208 |
| `OrderTotals` | totals, discounts, tax, the order's line snapshots, the courier's amounts, the settings cache | `pricing/pricing.service.ts`, `common/money.ts`, `orders/orders.service.ts`, `shipping/shipping.service.ts` 760-830 |
| `BagView` | a guest's bag as a tab shows it, against the bag the API keeps | `apps/web/src/lib/cart-context.tsx`, the cart page, the add buttons |
| `VariantPicker` | the variant and quantity the add buttons stand for | `apps/web/src/components/add-to-cart.tsx`, `quick-add.tsx` |
| `CheckoutPage` | the checkout page and what it asks of the API | `apps/web/src/app/checkout/page.tsx` |
| `PincodeCache` | looking up one PIN code | `geo/pincode.service.ts`, `geo/address-check.ts` |
| `Accounts` | one-time codes, accounts, refresh tokens, statement by statement | `auth/otp.service.ts`, `auth/auth.service.ts` |
| `OtpSignIn` | the sign-in page with its two transports and the widget | `apps/web/src/app/account/page.tsx`, `lib/msg91-widget.ts`, `auth/msg91-widget.service.ts` |
| `Wishlist` | an account's list, the browser's, the tabs' hearts, the counter | `wishlist/wishlist.service.ts`, `apps/web/src/lib/wishlist-*` |
| `Listing` | listings, facets, pages and filters | `catalog/catalog.service.ts`, `apps/web/src/components/product-filters.tsx` |
| `CategoryTree` | edits of categories, the scope of a listing, the menu's tree | `admin/catalog-admin.service.ts` 560-690, `catalog/catalog.service.ts` |
| `CatalogDesk` | the administration's page of brands and collections with its handlers: forms, saves, deletions, the lists it shows | `apps/admin/src/app/(dash)/catalog/page.tsx`, `admin/catalog-admin.service.ts` 700-840, `common/slug.ts` |
| `HeroSlides` | the slides of the home page and their places | `admin/homepage-admin.controller.ts` |
| `ShiprocketClient` | one token, shared logins, retries | `shipping/shiprocket.service.ts` |
| `ProductAdmin` | a product's saves, imports, bulk changes, deletions and the index | `admin/catalog-admin.service.ts`, `search/search.service.ts` |
| `ProductCsv` | the CSV format, export and import | `common/csv.ts`, `admin/catalog-admin.service.ts` 844-1132 |
| `ProductForm` | the editor of a product: its table of variants, suggestions, saving | `apps/admin/src/components/product-form.tsx`, `apps/admin/src/app/(dash)/products/[id]/page.tsx` |
| `MediaLibrary` | uploads and the files of products | `media/media.service.ts`, `apps/admin/src/components/media-uploader.tsx` |
| `Seed` | the seed script on a shop in use | `packages/db/prisma/seed.ts` |
| `StaffAccess` | tokens, guards, the audit log, the shell of the administration | `common/*.guard.ts`, `common/audit.interceptor.ts`, `apps/admin/src/lib/client.ts` |
| `OrderDesk` | the administration's page of one order | `apps/admin/src/app/(dash)/orders/[id]/page.tsx`, `shipping/shipping.controller.ts` |
| `MCOrderPayments`, `MCStockLedger`, `MCShipmentSync`, `MCCart` | small instances for TLC | |
| `MCCheckout`, `MCStorefront`, `MCBackOffice` | instances of several components each, in scenes | |

Definitions named `X_Something` beside a definition `X` are what `X` would be with a
plausible mistake in it; the property each of them breaks is named in
`PROJECT.json` under `mutants`. They take part in no specification.

### OrderPayments

`order` and `payment` are the rows, reduced to the columns the handlers decide on.
`confirmedAt`, a time or null in the code, is 0 or the payment whose finalisation
set it: the code tests it only for null, and the payment's id makes "confirmed by"
sayable. `ledger`, `restock` and `handovers` count the effects the code leaves in
other tables: stock committed, coupon redeemed, points given, notification queued,
stock released or returned, calls of `autoCreateForOrder`. `gateway` is what happened
to a payment at Razorpay; only reports of something that happened are sent.

`req` holds the calls in flight. A call is at a program counter, named for the
database or gateway call it makes next, and carries what it has read: the payment's
status in `FinalizeRead` and `FailRead`, the order's `paymentStatus` in
`AdminSetStatus`. Every action is what the handler does from one `await` that another
call can notice to the next:

* `PlaceOrder` is the transaction that writes the order and its first payment;
  `Initiate`, `RecordInit` and, for cash on delivery, `FinalizeRead` follow outside
  of it. `RetryPayment`, `RetryCreate` join the same path.
* `FinalizeClaimed` and `FinalizeLost` are the transaction of `finalizePayment`. It
  may be one step: all it reads of the rows modelled here is the outcome of its first
  statement, an `updateMany ... where confirmedAt = null` that locks the `Order` row to
  the commit. A second claim waits for the lock and then sees the committed row.
  The same holds for `adminSetStatus`, whose transaction starts with an update of
  the same row; what the transactions read of stock rows is `StockLedger`'s subject.
* `VerifyFromClient` considers only the latest payment, as the code does.
* `Stop` ends a call at any await: a throw or the end of the process. What was
  committed stays.

All calls of one kind may be repeated at any time by anybody, in particular two
webhooks for one payment.

### StockLedger

`row` is the committed row, `draft` its newest version, `holder` the transaction that
locks it. A read sees the committed row or its own transaction's version; an update
waits for the lock and applies an increment (`{ increment: n }`) to the newest version, but a
number computed in JavaScript is written as computed. That difference is the point of
the module: `reserveStock` and `onHand` use increments, `reserved` in `commitStock` and
`releaseStock` uses a number that was read earlier (`ReadLevel`), and `adjust` writes
an absolute `onHand` that was read before its transaction.

`raced` and `overdrawn` are history variables: which column of which variant was
written from a read that was no longer current, and which variant was promised
beyond what was available after its stock had changed since the check. Properties are
stated about the rows where neither happened, and say so in their comments; so each
names exactly which race it excludes, and everything else (overlap, deadlock,
rollback, cancellation) must be right. The commit and the release of one order
do not overlap, since both transactions lock the `Order` row first: `tx[o]` is one
transaction per order.

### ShipmentSync

A parcel is what Shiprocket knows, a shipment the row here; their ids agree, and a
parcel without a row is what remains when the insert after Shiprocket's answer fails.
`rows` is the creation order (`orderBy createdAt`), `synced` the order of
`lastSyncedAt`. A slot is a call in flight as in `OrderPayments`; the poller has a
slot of its own and is never run twice at once. A courier's label is the set of the
phrases it contains, because `StatusMap` asks for substrings, in order. `applyStatus`
is four steps, one per await: read, write the shipment, add the events, write the
order. Its guard in the last step uses the order status of the first.

`AdminSetStatus` of this module is the write alone; `touched` marks the orders an
administrator has written, of which nothing is claimed. Statuses written by
shipping are in turn among those `OrderPayments` lets an administrator write at any
time, so both modules meet the other's writes.

### Cart and Checkout

`cart` holds the rows of carts with their items, `browser` what the shop keeps in the
browser's local storage: the token of a cart and whether the customer is signed in. A call
takes both along when it is sent (`Send`) and its answer sets the token (`Commit`), in
whatever order answers arrive. On the server a call is at one of its awaits: no statement of
the cart's service is in a transaction. A merge is a call's `lines` (the guest cart's items
when they were read) and `left` (those still to be written).

`Checkout` extends `Cart`. A placement is a call of `Cart` that resolves its cart there
and goes on here, at `place[c].step`: lines and stock, coupon, order number, transaction.
`Confirm` is the part of `finalizePayment` that concerns carts and coupons, at any time after
the placement, once per order (what `OrderPayments` proves). Every step of `Cart` may run
in between; `CheckoutNext` is the composition.

`asked` is a history variable: the units the customer's accepted calls asked for. The
properties compare it with what open carts (and confirmed orders) hold. `raced` collects the
variants written by a call whose read had been overtaken; as in `StockLedger`, a property names
the races it excludes, and everything else must come out right, whatever overlaps or stops half
way. Where what a race does has a bound, the property states the bound instead: `rush` is
the most first requests that were about to create a cart at once, `crowd` the most uses of the
coupon that waited between check and payment at once (`rush` of `ShipmentSync` is the same of
`createShipment`). A customer never has more open carts than `rush`, and a coupon passes a limit by
fewer than `crowd`: overlapping calls do what the code lets them do, and nothing adds to it later.

`nextOrderNumber` is two awaits and a loop: `CountOrders` counts, and adds a jump after a clash;
`LookUpNumber` looks for an order with that number and takes it, tries again, or takes one made
of the time, which is not looked up. So numbers need not be gapless. `NumbersFollowCount` says
what they are: never ahead of the order's place by more than a jump, gapless if no look-up found
its number taken, and refused by the unique index only for an order that came after the look-up.

### OrderTotals, PincodeCache

A placement of `OrderTotals` has its setting at one await and writes its order at a later one,
with any time in between. So the age of the setting (`age`) is that of the moment when the
placement got it: the cache's life and a query at most. How old an order's minimum is when the
order is written has no bound in the code.

`PincodeCache` reads any answer of India Post that is not a success with offices as "no such
PIN", as the code does, and so a PIN may be found by one look-up and denied by the next; with
the provider "none" the map decides. `PinAnswerHolds` therefore says where a refusal comes from
and how long it lasts, not that the PIN does not exist (section 3).

### Pages and their server

`BagView`, `CheckoutPage`, `OtpSignIn`, `Wishlist`, `Listing`, `StaffAccess`, `OrderDesk`,
`CatalogDesk` and `ProductForm` are built alike: variables for what the page shows (React state,
local storage), variables for what the server holds, and a set of requests in flight. A click
reads the state of the page and sends; serving and answering are steps of their own; an answer
does to the page what the code after its `await` does, with the values the closure captured at
the click. Which buttons can be pressed is a guard taken from the page's `disabled` and its
early returns. A request may also fail or never answer, where the page has code for it. What
handlers do to each other is left to the module of the handler: `Cart` for `BagView`,
`ShipmentSync` for `OrderDesk`.

Some of what these modules keep is there because the code does not look at it:

* A page of `Listing` is cut from any order of the products that the sorting's one column allows,
  another one at each fetch (`Orders`), since SQL leaves the order of ties open; `seen` is what the
  visitor was shown of one list.
* In `OtpSignIn` MSG91's answer may name no number (`named`), and then the number the page sent
  is signed in; `boxes` are the digits the page shows fields for, apart from the length it asks
  for.
* `adrift` of `MediaLibrary` counts uploads whose form was left while they were on their way.
* `unsent` of `ProductForm` stands for the columns that the form neither shows nor sends (a
  variant's `isActive`, MRP, cost and weight, an image's text and type): a save gives them what
  a new row has.

### Statements outside transactions

`Accounts`, `ProductAdmin`, `CategoryTree`, `HeroSlides`, `PincodeCache` and `Seed` run one
statement per step. A call is at a stage named for its next statement and carries what it read;
only what the code puts into a `$transaction` is one step. A rejected statement ends the call
and leaves what was written. History variables (`treeCrossed`, `entangled`, `forked`,
`editOverlapped`, ...) record that calls overlapped in a way that the code cannot survive, and a
property excludes exactly these; `treeMoved` does the same for renaming or moving a category
that has others below it.

A rebuild of the search index (`reindexAll`) is a task beside the others: it reads, and later
puts what it read or fails, and both may be overtaken. It puts an index right (`Repairs`) only
if it was alone and the product is still what it read. Creating and updating a slide may give
any place by hand (`Places`), which counts as entangling the places until a deletion renumbers
them.

### Scenes

The components of `MCCheckout`, `MCStorefront` and `MCBackOffice` share no state (except `Cart`
and `Checkout`, composed by `CheckoutNext`). Their product would multiply states without adding
a behaviour, so the initial state chooses a `scene`, and only its component steps. The invariants
of all components are checked in every state.

## 3. What the runs check

| Run | Question | Result |
|---|---|---|
| `order_payments` | Three calls at a time on one order with two payments: is it confirmed once, by authorised money, with every effect once? | holds |
| `order_payments_live` | Two calls, one of which may stop half way: is every step a confirmation of `OrderConfirmation` or a stutter; does captured money confirm the order? | holds |
| `order_payments_source_of_truth` | Does an order confirmed by a captured payment read PAID once nothing is in flight? | violated |
| `order_payments_cancel` | Is the sold stock of a cancelled order back? | violated |
| `stock_ledger` | Two orders that book two variants crosswise and an administrator's adjustment, with rollback and deadlock: do rows agree with movements and reservations; do transactions end? | holds |
| `shipment_sync_live` | The parcels of three orders under way, a batch of two with one that cannot be tracked at its head, calls that stop half way: is a delivery seen by the poll alone? | holds |
| `shipment_sync_forward` | Does `applyStatus` only ever move an order forward? | violated |
| `shipment_sync_starved` | Does the poll come to every shipment in flight? | violated |
| `cart_login` | Is a guest's cart still known to a browser after signing in, if calls come one at a time? | violated |
| `cart_and_checkout` | From the click to the order, in eight scenes (below) | holds |
| `storefront` | The shop around the purchase and the shelves it sells from, in seven scenes | holds |
| `back_office` | What the staff runs, in nine scenes | holds |

| Scene | Instance | Properties |
|---|---|---|
| carts | two calls at a time from two browsers, one of which may stop half way | `OneOpenCart`, `WithinStock`, `AskedIsOpenOrBought` |
| placements | placements among the cart's calls, numbers that clash, payments at any time | `AskedIsOpenOrBought`, `CouponWithinLimits`, `OrdersAddUp` |
| bag | three clicks on two variants, answers in any order, one lost | `ClicksAreMeant` |
| picker | four products, three selections, three additions | `ClicksAreMeant` |
| page | two PIN codes typed, verified and ordered, with or without a coupon on the cart | `PageIsTrue` |
| pin | two look-ups of one PIN, two edits by hand, a failing database and postal API | `PinAnswerHolds` |
| totals, settings | every basket with every coupon; two placements while a setting changes twice | `OrdersAddUp` |
| accounts | two calls at a time on one number, an hour of time in three steps, one failure | `OneTimeCodes`, `SessionsAreSound` |
| signIn | two numbers, two transports, two failures of the widget, answers that name no number | `SignInIsTrue` |
| wishlist | two tabs, two products, a guest's list, a sign-in, a lost answer | `WishlistAgrees` |
| listing | three products of five kinds that may tie, two sortings, three clicks, late pages, facets that fail | `ListingIsUsable` |
| categories | two editors, three categories, four edits | `ShelvesAreSound` |
| brands | two windows on the page of brands, three rows, three clicks, a product given its brand elsewhere, a lost answer | `ShelvesAreSound` |
| homepage | two managers, four slides, six edits, places given by hand | `PlacesAreCompact` |
| parcel | two calls at a time, the poller's among them, on one order with two parcels | `OneActiveShipment`, `StatusIsReported` |
| client | one process, two requests, four logins, faults and a revoked token | `RequestsAreServed` |
| product | two administrators, a product with four variants, carts, orders, the index | `CatalogueIsWhole`, `IndexFollowsProduct` |
| csv | 85 catalogues: every text of two symbols, every kind of list | `CatalogueIsWhole` |
| form | the editor of one product with up to two sizes and a colour, two changes of the form, sales or bulk prices | `CatalogueIsWhole` |
| media | two forms on two products, two uploads, a fault | `StorageFollowsProducts` |
| seed | two runs, one stop, one repeated statement, one edit, one order | `SeedIsRepeatable` |
| staff | two tabs, a staff account and a customer's, bans, revocations and their reverse, a lost entry | `StaffSideIsTrue` |
| desk | four presses, three reloads, changes from elsewhere, a silent call | `StaffSideIsTrue` |

The five violations are disagreements between the code and a sentence of its own
documentation or comments (`findings` in `PROJECT.json` quotes them):

1. *The webhook is not the last word.* The browser calls `verifyFromClient` before the
   capture; it is refused ("not captured yet"). The webhook confirms the order. Then
   `failPayment`, which looked at the payment before, writes FAILED to payment and order.
2. *Cash on delivery and cancellation.* Such an order is confirmed (its stock is
   committed) and reads PENDING. Cancelling it releases a reservation that is no longer
   there, and the sold units stay off the books.
3. *Forward only.* Two reports are applied at the same time: both read the old order
   status, the newer writes first, the older second.
4. *The poll's backstop.* A refresh that throws does not write `lastSyncedAt`, so the
   shipment stays at the head of the queue. As many of these as a batch holds keep all
   others from being refreshed (the code's batch is 40; the instance uses 1).
5. *Signing in without a cart.* For a signed-in customer who has no active cart,
   `resolveCart` returns null before it looks at the guest's token, unless the call adds
   something. `GET /cart` then answers with no token, the shop removes the token it had, and
   the guest's lines are out of reach. An addition as first call merges them.

A coupon is not in this list although `usedCount` can pass `usageLimit`: it is compared when an
order is placed and incremented when it is paid. `CouponWithinLimits` shows that this overlap
is the only way, and how far it goes.

Disagreements with a document that were met while modelling and that a property excludes by name
instead of refuting:

* *A coupon on the cart is not sent by the checkout page.* The cart page shows the total with it
  (`apps/web/src/app/cart/page.tsx:148`), the first summary includes it, every re-quote and the
  order itself leave it out (`apps/web/src/app/checkout/page.tsx:121-133,194-211`), while
  `docs/ROADMAP.md:52-53` counts coupons as done. `ButtonIsCharged` is stated for the amount after
  a re-quote.
* *Stale paths.* `catalog/catalog.service.ts:37` promises the category "itself + every
  descendant, by materialised path"; renaming or moving a category, or reordering, leaves the
  paths below it as they were (`admin/catalog-admin.service.ts:621-642,661-674`). `TreeIsSound`
  excludes trees in which that was done.
* *Re-running the seed* deletes every cart and every variant of the products it builds
  (`packages/db/prisma/seed.ts:682-684,742`), although `seed.ts:12` and `README.md:66` call it
  safe to run repeatedly and `DEPLOY.md:95` runs it against a deployed shop. `SeedIsRepeatable`
  states what is repaired, and that orders whose lines still name a variant keep their
  reservation.
* *The index* follows every save, import and deletion, not the status switch of
  `admin/admin.module.ts:117`, while `docs/ROADMAP.md:43` says that catalogue writes reindex.
* *The audit log.* `docs/ROADMAP.md:29` promises it "on all admin mutations"; `AdminController`,
  the media and the newsletter controllers do not use the interceptor
  (`admin/admin.module.ts:30-31`, `media/media.controller.ts:35`). `AccessIsHeld` counts the
  endpoints that have it.
* *Two copies of a price and of a stock.* Every save of the editor writes a price into every
  variant (`product-form.tsx:295`), a bulk price only the product's
  (`catalog-admin.service.ts:310`): the product's page shows the latter, the cart charges the
  former (`cart/cart.service.ts:318`). The stock that the form read when it was opened is
  written over what was sold since (`product-form.tsx:218,296`). `FormKeepsProduct` excludes the
  variants sold meanwhile.
* *Answers of India Post.* `geo/pincode.service.ts:81` says that null means the PIN "provably
  does not exist"; any 200 that is not a success with offices is read so (`:248-258`, `:277`),
  and so is every PIN the map lacks with the provider "none" (`:236`), and it is remembered
  (`:126-132`). `PinAnswerHolds` states that it was said.
* *An answer without a number.* `auth/auth.controller.ts:112` compares the number MSG91 verified
  with the one the page claims only if the answer names one (`msg91-widget.service.ts:158`), and
  signs in the claimed one otherwise. `SignedInAsShown` says so.
* *Boxes.* After a resend that fell back to the other transport, or a refusal of an earlier
  screen, the page may show more boxes than the code has digits
  (`apps/web/src/app/account/page.tsx:97,191`).
* *Ties.* No sorting of a listing has a second column (`catalog/catalog.service.ts:20-27`), so
  products of equal price or date may be on two of its pages, or on none.
* *Places by hand.* The slides' endpoints accept any position
  (`admin/homepage-admin.controller.ts:83,95`), beside moves and deletions that keep them 0 to
  n-1.
* *A rebuilt index.* `reindexAll` reports health and the number of products it read even when
  some of them were refused (`search/search.service.ts:196-202`).
* *Fields a save resets.* Variants are deleted and created again from the form, which sends
  neither `isActive` nor MRP, cost and weight (`admin/catalog-admin.service.ts:512-516`), and
  images from their addresses (`:426-427`): what a call of the API had set is lost at the next
  save of the form.
* *Files without a name.* A form that is left keeps no list of what it uploaded, and an upload
  that ends after that is in storage for good
  (`apps/admin/src/components/media-uploader.tsx:39`).
* *A cancelled parcel* leaves the order's page without the button for a new one
  (`apps/admin/src/app/(dash)/orders/[id]/page.tsx:153,374`), although `createShipment` would
  make one.

### Bounds

* One order in `OrderPayments`. Every handler reads and writes rows of a single order,
  so two orders could meet only through request slots, which the code does not have.
  Two payments are enough for "the latest is not the one that was paid" and for two
  captured payments of one order; three calls for a claim, its competitor and an
  administrator or failure between them. The proofs hold for any number of each.
* `MaxFailures` is 0 in `order_payments`, where a stopped call only removes
  behaviour from a safety run, and 1 in `order_payments_live`, where it matters.
  `AdminTargets` has CANCELLED where stock is the question and PENDING where a status
  is set back under a payment; the other statuses are written and never read.
* `MaxCancels` 1: one cancellation. A second one books its movement again; nothing in
  the repository says that it must not (listed among the hazards).
* `StockLedger`: two orders with two lines each, in opposite order, are the smallest
  instance with a deadlock. On hand are 1 and 3 units, ordered 1 + 1 and 1 + 2, so one
  variant is contended and one is not.
* `ShipmentSync`: `MaxCalls` counts every call but the poll's. Three calls and two
  parcels allow a cancelled shipment, its replacement and a late webhook for the first.
  The number of scans is bounded by `Follow`, which has no cycle. `shipment_sync_live` starts with
  three orders whose parcels have an AWB (`Underway`), so that three shipments in flight share a
  batch of two and the one whose tracking fails is first in its order; either
  one call from outside or one stop of the poll half way comes in between (`OneDisturbance`). With a batch of one, or a second such parcel, it is the
  state that `DeliveryIsSeen` names (`BatchIsHeld`) and that `shipment_sync_starved` shows.
* Carts: two carts, two browsers, two variants, five calls, sign-ins included: enough for a
  guest cart with two lines, a stopped merge and a second one, or two overlapping merges. In
  stock are 2 units, so two racing additions of one unit meet the limit. Placements: one
  browser, one variant, four orders and limits of redemptions in total and per customer; two
  attempts at a number, jumps of one and one time: enough for a clash, an overtaken look-up and
  a number that is made of the time. There, a call that stops is one placement less, three of the
  calls are of another kind (`PlainSends`), and the last placement comes only after a clash
  (`FewPlacements`), which cuts runs that repeat a story the smaller ones tell.
* Listing: products are alike but for their price and brand, so only shelves in order of price
  begin. Parcel: two calls, the poll's among them, are under way at a time (`TwoAtATime`).
* The other scenes have two of whatever can race (calls, tabs, editors, look-ups, forms), as many
  steps as it takes for one of them to run, be overtaken and run again, and one or two failures. A
  bound on clicks or edits is at least the length of the longest story a mutant of the component
  needs. Times are counted in steps of the code's own limits (a cooldown is 1, a
  lifetime 2), which keeps their order.
* Money in `OrderTotals` is in paise and not bounded by a width: amounts stay far below 2^53. The
  baskets have prices and rates that round up, round down, and tie.
* Every text of up to two symbols in `ProductCsv`: the parser decides by a symbol and the next.
* Symmetry is used in safety runs only: for request slots, and for the pairs of each scene.
* `CHECK_DEADLOCK FALSE` everywhere: bounded counters run out, and a shop without calls is
  allowed to stop. `TransactionsEnd` states the absence of waiting for ever by itself.

### Fairness

* `OrderPayments`: weak fairness of every call's next step (Node continues a promise
  that has settled; database and gateway answer or throw, and a throw is `Stop`). Strong
  fairness of `WebhookPaid` for a captured payment: Razorpay repeats a webhook until it
  is answered with success, and the slots are free again and again. Nothing else is
  fair: no customer is made to verify, no administrator to act, and webhooks of failures
  may never come.
* `StockLedger`: strong fairness of each transaction's next statement: PostgreSQL's row
  locks queue in order, so a waiting statement is granted the lock in the end, and the
  deadlock detector runs. Adjustments, requests and aborts are not forced.
* `ShipmentSync`: weak fairness of the timer (`Poll`) and of calls that were started. No
  webhook, courier or administrator is forced; `DeliveryIsSeen` is met by the poll alone for
  shipments whose tracking Shiprocket does not refuse for good, as long as those whose
  tracking it does refuse are fewer than a batch: the poll by itself promises no more, since they
  keep the head of its order. Calls from outside are finitely many (`MaxCalls`), so no late webhook
  sets the shipment back for ever.

## 4. What is proved

Eight modules hold theorems, each for every value of the constants that satisfies the
assumptions its components name: seven about components, and `SumTheorems` about the sums
that several of them count with. None of the properties is inductive; each component has
an invariant that is, and the three facts that it holds at first, is kept by every step and
implies the property. What the runs of section 3 show on a small instance of these
properties, the theorems show for all. Of the invariants that the runs check, all are
proved but two, which contain what the prover cannot reach (the end of this section).

The properties of `MCCheckout`, `MCStorefront` and `MCBackOffice` are proved of the
specifications that the runs check. `BuyingRuns`, `ShopRuns` and `BackRuns` show that a behaviour
of the scenes is a behaviour of every component: the initial states are some of each
component's, the component of the scene takes its own steps, and the variables of the
others do not change. `Cart` and `Checkout` are the exception, since they share
variables: `CartsAlone` says that in the scene without placements every call's placement is blank,
so that a step of `Cart` is a step of `CheckoutNext` there. The theorems about scenes
(`BuyingTypes`, `ClicksHold`, `OrdersHold`, `BuyingHolds`, `ShopTypes`, `ShelvesHold`,
`ShopHolds`, `StaffSideHolds`, `BackHolds`) follow from those about components.

### OrderPayments_proofs

For any number of orders, payments, calls, failures and cancellations, from
`ConstantsAssumption` alone (the bounds are naturals, `NoOrder` is not an order, the
administrator's targets are statuses):

| Theorem | Statement |
|---|---|
| `TypeCorrect` | `Spec => []TypeOK` |
| `InvHolds` | `Spec => []IInv` |
| `SideEffectsOnce` | `Spec => []SideEffectsExactlyOnce` |
| `CodNeverSettled` | `Spec => []CodStaysPending` |
| `PaidIsBacked` | `Spec => []PaidIsBackedAndConfirmed` |
| `HandedOver` | `Spec => []HandedOverOnce` |
| `ReturnsOnlySold` | `Spec => []ReturnsOnlySoldStock` |
| `Implements` | `Spec => ImplementsConfirmation` |

`CodStaysPending`, for one, is not inductive: it fails as soon as a
call that is about to fail a payment could carry a cash-on-delivery payment. The
strengthening is `IInv == TypeOK /\ RowsOK /\ RequestsOK /\ HandOffOK`:

* `RowsOK` has the properties and what rows say of one another: unused payment ids are
  blank, a payment with a gateway order is an online one, the gateway has events only for
  such payments and captures only what it authorised, an order that reads PAID was
  confirmed, and by one of its own payments.
* `RequestsOK` says, per program counter, what a call's copies still mean when they are
  used: a finaliser that will write PAID holds a payment the gateway authorised, whatever
  has happened since; a failing call holds an online payment; an administrator who read
  PAID looks at an order that is confirmed.
* `HandOffOK` says that the winner of the claim is the only call that will hand the order
  over, and that it has not done so.

The argument rests on `Grows`: no step takes back a payment's order and method, a gateway
event or a confirmation. So what a call read about these stays true while it waits
(`OthersKeep`), and each action has to be examined only for the call that takes it. Steps that
only read (`ReadActions`) are separated from those that write; each writing action has a
lemma of its own, with one step per part of the invariant it can disturb. `Implements`
uses `IInv` to see that the step in which `confirmedAt` leaves 0 starts from untouched
side effects and applies them all, and that every other step leaves both variables alone.

### StockLedger_proofs

For any orders with any lines, any variants, administrators and adjustments, from
`StockAssumption` (an order has a variant on one line at most, as a cart has):
`StockTypes` (`TypeOK`), `LedgerExplains` (`OnHandMatchesMovements`), `ReservedIsHeld`
(`ReservedIsOutstanding`) and `NothingOversold` (`NoOversell`). The properties
relate committed rows to the movements and the orders of committed transactions, so they
say nothing of what a transaction under way has written. `IInv` adds that:

* `LocksOK`: a row is locked by exactly the transactions that have written it, line by line
  up to the next one. The variants of an order's lines differ, so the next line's row is
  one nobody holds (`NextIsFree`), and a transaction at its end holds all its rows and no
  other (`NothingElsewhere`).
* `DraftOK`: the newest version of a locked row is the committed one plus its holder's
  movement. `WritesLine` shows it once for the four statements that write a line; `Commits`
  moves it into the committed row and the ledger at the same time; `RollsBack` drops it,
  for an aborted transaction and for a deadlock's victim alike.
* `AdjustOK` bounds the adjustments. One that writes what it computed from a current read
  books the difference it made; one that does not is what `raced` names.

The two properties of `reserved` need more, `HeldInv`, which is proved beside `IInv` and
relative to it:

* `LifeOK`: an order's stock is reserved once and sold or released after that, and a
  transaction under way is one that its order's bookings allow.
* `HoldOK`: the newest `reserved` of a locked row is the committed one plus what its holder's
  transaction does to it (`Hold`), if every order is booked regularly and the column was not
  raced for.
* `StaleOK` and `PromisedOK`: what was in stock at the check still is, but for the rows that
  changed (`stale`, and `overdrawn` once it is promised all the same); so a reservation about to be
  written fits into what is on hand.

A commit moves an order's quantities into or out of the sum over open orders: the change
of a sum when one summand changes is `SumTheorems`' business. `NoOversell` then follows
from the sum and the check of the transaction that reserves last.

### ShipmentSync_proofs

`CreatesOne` (`OneActiveShipment`), from `ShipmentAssumption`, for any orders, calls, parcels,
labels and failures: an order never has more active shipments than calls of `createShipment`
were in flight for it at once. `CountedOK` says why: a call that has looked and found none
counts together with the active shipments there are, and these are no more than `rush`; a row
that is written takes the place of its call, and a call that comes later finds the row.
`GivenOK` says that the parcel a call was given is its order's and has no row, and `Room` that
parcels asked for and calls that will ask fit the bound. Steps that neither create nor cancel
are `Quiet` and keep all of it by one lemma; the four steps of `createShipment` have one each.

`ReportsDecide` (`StatusIsReported`): the status of an order nobody wrote by hand is one
that a courier's label was mapped to. `Told` follows a label from the parcel it is read from
to the order: a call that applies a label took it from a parcel of its order (`Fine`), and
parcels keep their orders and their scans (`Grows`). The rest is about the maps: whatever
`mapStatus` and `orderStatusFor` make of a label, they found a phrase or a code in it that
says so (`Says`), question by question in their order. The assumption on the labels
(`IsLabel`: a number is a label's whole text) is a conjunct of `ShipmentAssumption`.

### Checkout_proofs

From `CartAssumption`, for any browsers, calls, carts, variants and failures: `CartTypes`
(`TypeOK`), `OneCart` (`OneOpenCart`) and `StockIsKept` (`WithinStock`). `CallFine` says what a
call may hold at each of its awaits: ids of carts that exist, a cart once it is resolved,
and, before it writes, a quantity that was compared with the stock. That is why additions that
race stay within the stock: what is written is what was compared, whatever is there by
then. `OwnOK` says that the customer's open carts and the calls that are about to create one are
together no more than `rush`: a new cart takes the place of its call.

The second part extends this to `CheckoutSpec`, where placements and payments run among the
calls: `CheckoutTypes`, `CartsWhileBuying` (the two properties of carts again), `Numbers`
(`NumbersFollowCount`) and `CouponIsLimited` (`CouponWithinLimits`). An order number is counted
and looked up outside of the transaction that takes it, and may be taken by then; it is never
ahead of the next one by more than a jump (`NumberOK`), and while no look-up met a clash one
that nobody has is the next. `CouponOK` counts the uses under way, in placements that passed the
check and in orders that are not paid: each was let in below the limit beside those that were
there (`UsesFit`), so those redeemed and those under way stay below the limit plus the most
there were at once.

`NothingLost` (`AskedIsOpenOrBought`) says that, while no merge is under way, the units a
customer's accepted calls asked for are, variant by variant, those in open carts and
those bought, except for variants that calls raced for. `BooksOK` states the sum in every state:
a merge under way has its lines twice, in the guest's cart and in the customer's, and `Doubled`
counts them until it closes the guest's cart (`MergersOK`: when no line is left). Every step
changes one cart, one merge or one order, so its proof compares the units before and
after there, and lemmas of `SumTheorems` say what that does to the sums.

`BagHolds` (`ClicksCount`), for any goods, bags, clicks and failures, about histories in which
no click overtook another (`Calm`): there is one bag and every request is about it (`BagIsOne`),
or none and the addition that makes it is alone (`FirstIsAlone`). A variant that was not hurried
has one request at most, and the clicks on it add up to what is in the bag and the click that is
not carried out (`AddUp`); what is shown is what is in the bag, or a newer answer will tell
(`ShowsOf`).

`PickerHolds` (`PickIsMeant`), for any products, options, selections and additions: among variants
that differ in their values the first that matches is the only one, which is the lemma the
proof turns on; `AddsOK` counts the additions in flight against the timers that set the button
back, and `CardOK` says that the card's state names its one request.

`PageHolds` (`PageIsTrue`), for any PIN codes, carts and edits: `PinChecksOK` says that the latest
check is about what is in the field unless the timer runs again, `TownOK` that a town shown as
verified is that of the field, and `AmountInv` that an amount re-quoted is the price without the
coupon, which is what an order is charged.

`PinAnswers` (`PinAnswerHolds`), for any look-ups, edits by hand, lifetimes and failures, with a
positive lifetime in memory: a PIN is called invalid only within that lifetime after the
provider said so, it was not said over a row that the look-up had to see, and a row blocked by
hand is refused once the entry in memory has expired. `TimesOK` bounds the age of what a look-up
has read; `ProvenOK` says that a row, and what is in memory, proves what it says of the PIN, and
that a row a look-up did not find has been written since; `BlockedOK` that whoever still serves
a blocked PIN read the row before it was; `CuratedOK` that nobody is about to write over a row
that was written by hand.

`TotalsHold` (`TotalsAddUp`) is about amounts, for any baskets, coupons, prices, quantities and
rates. The code adds fractions of a paisa and rounds the sum; `TaxParts` is a number that every
100 + rate of the baskets divides (for any finite set of rates there is one), and `TaxPart` is a
line's tax in such parts, so that sums and rounding are those of integers. Rounding is within a
half (`round2`), a sum of rounded shares is within half a paisa for each line, and the lemmas of
`SumTheorems` carry this from a line to an order; a tax taken after the discount is below the
one taken before it because each line's is. `SettingsAreDated` bounds the age of what is cached
by the time a query takes, and `PricesAreRecent` that of a minimum, when a placement gets it, by
the cache's life on top of it.

### SumTheorems

Sums over a finite set (`SumFunctionOnSet` of the community modules) are defined by a fold, and
a fold by choosing one element after another. The induction theorems of the library take an
operator as a parameter, which the prover cannot instantiate, so the lemmas use the least number
principle in first-order form: `LeastNat` finds the smallest number in a nonempty set of
naturals, applied to the cardinalities of the sets for which a statement fails. They say that
the recursion has a solution (`SumIterExists`), that a sum is a natural or an integer if its
summands are, that it depends on the values on its set only, that its elements may be taken in
any order, what adding, removing or changing one element does to it (`SumRemove`, `SumAdd`,
`SumChanges`), that it splits into the sums of two parts, and that it is at least each summand.

### Accounts_proofs

From `AccountsAssumption` (there is a number and an address, and `None` is neither), for any
calls, times and failures: `AccountsHold`, from it `AccountTypes` (`AccountsTypeOK`),
`CodesAreSpent` (`OneTimeCodes`) and `SessionsHold` (`SessionsAreSound`). The invariant is in
three layers:

* `BaseInv`: types, what a call knows at its stage (`CallsOK`), and that rows name codes and
  sign-ins that exist (`RowsOK`).
* `OtpInv`: no two rows have one code (`CodesOK`); a challenge that no two calls read and wrote
  at once says what became of its code, and one call at most is verifying it
  (`ChallengesOK`); the row with the code written last is its number's newest (`LatestOK`).
* `SessionInv`: a number is one account's and was never turned away (`PhonesOK`), and a
  sign-in that did not fork has one good refresh token, or one call that is exchanging
  it, or neither once it has ended (`LinesOK`).

`SessionInv` and `OtpInv` are each proved on `BaseInv`. `Accounts` runs one statement per step,
so most steps change one row or none: lemmas per kind of step carry most of the cases.

`PageSignsIn` (`SignInIsTrue`) is about `OtpSignIn`, the page that has the codes typed, for any
numbers, sends, resends, late calls and failures (`OtpAssumption`; nobody is not a number).
Whatever outlives a screen carries its number: `TokensOK` says that a token, one that a late
call will bring too, and what is being submitted, are of a number that a code was sent to, and
`BootOK` that nothing is sent before the page knows its transport. An answer of MSG91 that names
no number breaks this chain, and the theorem says that it does: then the page's number is signed
in, after some code was typed. The boxes agree with the code's digits until the visit has had
codes of both kinds, since only a change of transport changes the one and keeps the other.

### Storefront_proofs

It extends `Accounts_proofs`, whose theorems are those of the scenes accounts and signIn.

`WishlistHolds` (`WishlistAgrees`), for any tabs, products, clicks, sign-ins and lost answers.
The account's side (`AccountInv`) and the browser's (`BrowserInv`) are proved apart, as most
steps touch one of them: a request that will count has not counted for its click (`CountsOnce`),
so the counter is the rows; a merge knows the whole list of the browser, and what it has written
or left out is in the account as long as it is wanted (`MergeKnows`); a tab shows the account's
list or an answer that tells it will come (`HeartsFollow`).

`ListingHolds` (`ListingIsUsable`), for any products, prices, stops of the price bands, page
sizes and clicks. Whatever order of the ties a page was fetched in, a product whose ties all fit
on one page is on that page: the products before it in the sorting's column fill no more than
the pages before, and those up to it no more than the pages up to it (`IsFor`). `SeenOK` carries
this through a visit: what was seen of a list is what its sorting puts there. `LinksLead` says
that a URL names a page there is: a filter sets it back to the first, and a link comes from what
is shown. The facets' ends are prices of products, which is why the first and the last band find
one.

`TreeHolds` (`TreeIsSound`), for any editors, categories and edits: a parent is there
(`ParentsThere`), no two categories share a slug (`SlugsDiffer`), an edit that will write a path
computed it from the path of its parent (`Computed`), so paths follow parents until a category
with others below is moved or edits cross (`PathsFollow`). `Acyclic` says that no set of
categories has all of its parents, which is what the menu needs, and takes the place of an
induction in the proof that the categories whose path begins with another's are its subtree
(`ScopesAre`): those outside would be a set that has all of its parents (`PathStep`).

`CatalogHolds` (`CatalogPageIsTrue`), for any windows, rows, clicks and lost answers: a request
asks of a row that was there; one that is about to create found its slug free, one that is about
to delete found no product, and so it is still, unless the request knows of another or of a race
(`Sound`). A window's list is newer than what it did itself, or is on its way (`Follows`).

`PlacesHold` (`PlacesAreCompact`), for any slides, requests, places given by hand and failures.
`AloneIs` says that a request that ran alone so far is the only one in flight, so that what it
read is still so (`PlacesOK`): a creation its count, a move its two places, and a deletion an
order of all the slides (`Ranks`), each at its place or still to be written (`Renumbers`). Once
nothing is left to write, that order is a bijection (`PlacedIsCompact`), whatever the places
were before and in whatever order the updates were carried out.

### BackOffice_proofs

`ClientServes` (`RequestsAreServed`), for any processes, requests, logins, faults and
revocations. `LoginsOK` says that a login keeps its token in memory before it stores it, and
that the process has no other by then; `AgainOK` that once a request has logged in again every
token it can come by is good, unless one of the events that `ReauthSuffices` excuses happened;
`TriesOK` bounds a request's attempts. The proof corrected the model twice. `Processes` must not
be empty. And the history variable `overtaken`, which says that a token read from the row was
used when a login had a newer one, looked at the row only: with three requests of one process,
more than an instance within TLC's time has, `ReauthSuffices` was false. It now also looks at
the login that has not stored its token yet.

`AccessHolds` (`AccessIsHeld`), for any accounts, tabs, endpoints, requests, edits and bans.
`AccessAssumption` says what the guards rely on: permissions come with a staff role only
(`jwt-auth.guard.ts` 46-60), and every mutation of the administration asks for one. A request
passes its guards, its handler and the way back in separate steps, so the invariant is about
what it carries meanwhile (`ReqMeant`): who sent it, whether its sender was found to lack the
permission and still does, and that a handler runs only for staff that did not. An edit of roles
may come at any of these points, and gives as well as takes: a request that was refused nothing
at its guard was allowed at some time since it was sent. Two lemmas say what a step of a tab
(`TabStep`) and of the API does to all of it; each action has one about the requests it adds and
answers.

`StorageHolds` (`StorageFollowsProducts`), for any products, forms, imports, uploads and
deletions. `Named` is who speaks of a file and for which product: rows, forms, replacements.
`HomeOK` says that it is one product's unless its address was copied; `ShownOK` that a form
shows only what it uploaded, or what the rows name or named until the replacement under way
cleared them; `GoneOK` that a file that is deleted, or about to be, is in no rows and in no
save, and that the forms that still show it wait for that replacement; `NeededOK` is the
converse. The last three hold as long as replacements of a product neither overlap nor fail
(`interleaved`): `AloneOK` says so. The case that decides the proof is a save that begins while
a deletion is in flight: by `GoneOK` its form would need a replacement of the same product under
way, and `HomeOK` makes this the overlap that the property excludes.

`SeedHolds` (`SeedIsRepeatable`), for any products, runs, stops, repeated statements, edits and
customers. `Past` names the statements a run has been through and `Now` the one it has come to;
the invariant says what each leaves behind: rows (`RowsAre`), sets (`SetsAre`), values
(`ValuesAre`), products (`BuildInv`). What it needs of the script is in `ScriptOrder`: a look-up
comes right before its creation, a set is cleared before it is filled, the old slide is retired
before slides are counted. `TradeInv` ties the reserved units to the one order line that still
names its variant, and a cart's line to a variant that is there: the building of a product
removes lines before variants, and the database refuses the rest.

`ProductHolds` (`ProductIsWhole`) and `IndexFollows` (`IndexFollowsProduct`), for any
administrators, SKUs, saves, imports, carts and orders. `WholeInv` says of a save in flight
which lists it has filled, which it has just cleared, and of which SKUs it has added variants
(`ListsSoFar`, `VariantsSoFar`), by the numbers of its statements, while saves neither overlap
nor stop; `PriceInv` that a save that compared prices compared what is still there; `LinesInv`
that carts stay clear from where a save clears them; `IndexInv` that an update of the index that
has read the product has what is there, unless a save that has written will still ask for
another. A rebuild that was alone and put what the product still is makes up for what failed
before it.

`FormHolds` (`FormKeepsProduct`) and `FormTypes`, for any sizes, colours, SKUs and prices, about
the editor of a product and the fields that it shows; what it does not show is what a new row
has after the first save. `FormAsLoaded` says of every cell that nobody typed that it still
holds what was loaded, a price only if it was one of the row's own; `SaveAsLoaded` the same of a
save in flight, for the cells that were not typed when it was sent; `StockStays` that a row's
stock is what was loaded unless it was typed or sold, so that a second save of the same form
writes nothing old. A form that is saved as new is replaced by that of its product, where all
this begins anew.

`DeskHolds` (`DeskIsTrue`), for any presses, loads and changes from elsewhere: nothing that was read
or answered is newer than the order, and as long as loads do not overtake each other there is one,
which shows what the page's own requests have done (`CopyInv`); each flag stands for one request
(`FlagInv`). With `AccessHolds` this is `StaffSideIsTrue`.

### What stays with TLC

* Liveness (`CapturedIsConfirmed`, `TransactionsEnd`, `DeliveryIsSeen`): the prover has no support
  for ENABLED and fairness.
* `CsvTellsProducts`, and with it `CatalogueIsWhole`, of which it is a conjunct (the other two are
  proved): that a file reads as it was written is a statement about functions that are
  recursive over texts. It would need an induction rule that the prover cannot instantiate. TLC
  checks it for every text of two symbols and for every kind of list.
* `BackTypeOK`: the type of `ShipmentSync` has to know that `SelectSeq` of a sequence is a
  sequence of some of its elements, and `SelectSeq` is a recursive function of a standard
  module, which the prover does not expand; the types of `ProductCsv` rest on its texts. The
  types of the product, its form and the order's page are theorems.
* The violations of section 3, which are counterexamples.

No module has a RECURSIVE operator: recursion is a fold of the community modules or a recursive
function.

## 5. What is not modelled

Parts that keep no state the properties could be about:

* The newsletter's upsert, e-mail, SMS and the suggestions for a product's texts: one
  statement, or one call to outside whose failure the callers ignore.
* The sandbox payment provider: its outcome is what the tester asks for.
* Throttling, the exception filter, health checks; the storage driver (S3 or disk) and
  the image formats; the transport and wording of every message.
* Dashboards, lists and the forms that save one row with one statement; the home page's
  automatic sliding; layout.
* The seed's switch of the menu's visibility (`seed.ts:812-845`) and its demo texts.

Details left out of what is modelled:

* The data of an order in `OrderPayments`: items, prices, addresses. The admission checks of
  `placeOrder` other than the cart, the stock and the coupon are one refusal there
  (`Checkout` and `CheckoutPage` have more of them; the amounts are `OrderTotals`).
* A second account in the same browser; in `Cart`, an item that was removed and added again
  counts as the same item, while its row has a new id.
* The update of a product's `soldCount` between two stock lines, and its row lock.
* Mode "set" of `adjust`: it reads and writes at the same places as "add".
* The URLs of label, invoice and manifest; the 21 days after which a shipment is no longer
  polled; the log of webhook probes. `handleWebhook` also compares the body's `sr_order_id`
  with `providerShipmentId`, which holds Shiprocket's *shipment* id: two unrelated
  numberings, assumed never to coincide.
* The lengths of backoffs and delays: a wait ends at any time after its cause.
* Refunds: the code has none. A second captured payment of one order is left as it is
  (listed among the hazards).

`PROJECT.json` says per component what is modelled and what is left.

## 6. Plan

1. Composition of orders, stock and shipping for one order: an abstract order life cycle
   that both `OrderPayments` and `ShipmentSync` refine.
2. The administrator's editors for coupons and content rows, if they come to hold more than
   one statement.
