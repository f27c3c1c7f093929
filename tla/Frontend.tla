------------------------------ MODULE Frontend ------------------------------
(***************************************************************************)
(* The frontend over the gateway and the backend: the query cache with the  *)
(* pages of Screens, where a command changes a query when it reaches, past  *)
(* the gateway, an endpoint that writes what the query's endpoint reads.    *)
(***************************************************************************)
EXTENDS QueryCache, SequencesExt

Pages   == INSTANCE Screens
Gateway == INSTANCE Gateway
Backend == INSTANCE Backend

CONSTANT Tolerated   \* the gaps, of those named below, that a run leaves aside

-----------------------------------------------------------------------------
\* Queries and commands with the path of their page.
PageQueries(routes)  == UNION {{r.path} \X r.page.queries : r \in routes}
PageCommands(routes) == UNION {{r.path} \X r.page.commands : r \in routes}

\* A command is told from the others by its page and its endpoint.
Id(c) == <<c[1], c[2].endpoint>>

\* A request the gateway does not forward reaches no service.
Through(commands, forwarded) == {c \in commands : c[2].endpoint \in forwarded}

-----------------------------------------------------------------------------
(* What a command changes: the keys whose endpoint reads what it writes *)

KeysRead(queries, reads) ==
  {<<q[2].key, t[3]>> : <<q, t>> \in
     {<<p, r>> \in queries \X reads : p[2].endpoint = <<r[1], r[2]>>}}

CommandsWrite(commands, writes) ==
  {<<Id(c), t[3]>> : <<c, t>> \in
     {<<d, w>> \in commands \X writes :
        d[2].endpoint = <<w[1], w[2]>> /\ w[3] \notin d[2].spares}}

CommandsChange(written, read) ==
  {<<w[1], r[1]>> : <<w, r>> \in {<<v, q>> \in written \X read : v[2] = q[2]}}

-----------------------------------------------------------------------------
(* What its success does to the cache *)

\* invalidateQueries reaches the keys that start with the one it is given.
CommandsMark(commands, keys) ==
  {<<Id(c), key>> : <<c, key>> \in
     {<<d, j>> \in commands \X keys : \E m \in d[2].marks : IsPrefix(m, j)}}

CommandsStore(commands, keys) ==
  {<<Id(c), key>> : <<c, key>> \in {<<d, j>> \in commands \X keys : j \in d[2].stores}}

-----------------------------------------------------------------------------
(* Commands that change an answer and leave it alone: where the code leaves  *)
(* what its documents say of invalidation, but for the last two, which are   *)
(* changes of fields that no page prints and no document speaks of.          *)

Gap(path, verbs, keys) == {path} \X verbs \X keys

k == Pages!queryKeys

\* The documents of stock and money that name products and locations.
NamingDocuments == {k.receipts, k.receipt, k.returns, k.purchaseReturn, k.saleReturns, k.saleReturn}

\* The payment histories, which join the session and the register of a payment.
Histories == {k.purchasePayments, k.supplierRefunds, k.salePayments, k.saleRefunds}

Gaps ==
  [\* docs/phase-11-frontend-backend-integration.md, item 7; of categories
   \* docs/frontend-phase-10b-catalog-inventory.md
   productNames |->
     Gap("catalog/products/:id", {"activate", "deactivate"}, NamingDocuments \cup {k.purchase, k.sale})
       \cup Gap("catalog/products/:id/edit", {"update"}, NamingDocuments \cup {k.purchase, k.sale}),
   categoryNames     |-> Gap("catalog/categories", {"update"}, {k.productAttributes}),
   vehicleBrandNames |-> Gap("vehicles/brands", {"update"}, {k.vehicleModels}),
   locationNames |->
     Gap("inventory/locations", {"update", "activate", "deactivate"},
         NamingDocuments \cup {k.search}),
   chosenLocation |->
     Gap("inventory/locations", {"update", "activate", "deactivate"},
         {<<"[inventory,locations]", "detail", "id">>}),
   registerNames |->
     Gap("cash/registers/:id", {"activate", "deactivate"}, Histories)
       \cup Gap("cash/registers/:id/edit", {"update"}, Histories \cup {k.currentCashSession}),
   \* docs/frontend-phase-10c-purchasing.md
   receiptStatus |->
     Gap("purchasing/purchases/:id", {"cancel"}, {k.receipts, k.receipt, k.returns, k.purchaseReturn})
       \cup Gap("purchasing/receipts/:id", {"post"}, {k.returns, k.purchaseReturn}),
   \* docs/frontend-phase-10d-sales-receivables.md
   refundable |-> Gap("sales/:id/payments", {"create", "reverse"}, {k.saleReturn}),
   \* docs/frontend-phase-10e-cash-admin.md
   sessionStatus |-> Gap("cash/sessions/:id", {"close"}, {k.cashMovements}),
   \* no document
   historySessions |-> Gap("cash/sessions/:id", {"close"}, Histories),
   returnCount     |-> Gap("sales/:id/returns", {"create"}, {k.sales})]

\* The changes that a run looks at.
Relevant(changes) ==
  {c \in changes : \A g \in Tolerated : <<c[1][1], c[1][2][2], c[2]>> \notin Gaps[g]}

-----------------------------------------------------------------------------
(* Who may see a route or a button may do what it asks *)

Accepts(path, use, routes, forwarded) ==
  /\ use.endpoint \in forwarded
  /\ Backend!Permissions(use.endpoint)
       \subseteq use.needs \cup {r.permission : r \in {q \in routes : q.path = path}}

\* The filters by vehicle that the page of the compatibilities loads for whoever
\* may manage them: their endpoints ask for vehicles.read.
VehicleFilters == {<<"compatibility", k.vehicleBrands>>, <<"compatibility", k.vehicleModels>>}

\* Commands, and queries with a condition of their own, that the gateway or a
\* guard would turn down.
RefusedCommands(commands, routes, forwarded) ==
  {Id(c) : c \in {d \in commands : ~Accepts(d[1], d[2], routes, forwarded)}}

RefusedQueries(queries, routes, forwarded) ==
  {<<q[1], q[2].key>> : q \in {p \in queries : p[2].needs # {} /\ ~Accepts(p[1], p[2], routes, forwarded)}}
    \ VehicleFilters

-----------------------------------------------------------------------------
(* What a page is to a key *)

\* Pairs of a command and a key, and pairs of a page and a key.
Facts(queries, commands, keys, routes, forwarded) ==
  [shown   |-> {<<q[1], q[2].key>> : q \in queries},
   changes |-> Relevant(CommandsChange(CommandsWrite(Through(commands, forwarded), Backend!Writes),
                                       KeysRead(queries, Backend!Reads))),
   marks   |-> CommandsMark(commands, keys),
   stores  |-> CommandsStore(commands, keys),
   refusedCommands |-> RefusedCommands(commands, routes, forwarded),
   refusedQueries  |-> RefusedQueries(queries, routes, forwarded)]

EffectOf(id, key, f) ==
  [changes |-> <<id, key>> \in f.changes, marks |-> <<id, key>> \in f.marks, stores |-> <<id, key>> \in f.stores]

ViewOf(path, key, f) ==
  LET about   == {c \in f.changes \cup f.marks \cup f.stores : c[1][1] = path /\ c[2] = key}
      offered == {c[1] : c \in about}
  IN  [shows   |-> <<path, key>> \in f.shown,
       offers  |-> {EffectOf(id, key, f) : id \in offered},
       allowed |-> <<path, key>> \notin f.refusedQueries /\ offered \cap f.refusedCommands = {}]

Viewed(keys, paths, f) == {[key |-> key, views |-> {ViewOf(path, key, f) : path \in paths}] : key \in keys}

SiteOf(queries, commands, keys, routes, forwarded) ==
  Viewed(keys, {r.path : r \in routes}, Facts(queries, commands, keys, routes, forwarded))

SiteWith(queries, commands, routes) ==
  SiteOf(queries, commands, {q[2].key : q \in queries}, routes, Gateway!Forwarded)

SiteFrom(routes) == SiteWith(PageQueries(routes), PageCommands(routes), routes)

PageSite == SiteFrom(Pages!AppRoutes)

\* A behaviour about a key is one about any key with the same views, and about
\* any key with more of them: the keys with the most views stand for all.
Widest(site) ==
  {w \in site : ~\E v \in site : w.views \subseteq v.views /\ w.views # v.views}

CasesOf(site) == {CHOOSE w \in site : w.views = views : views \in {w.views : w \in site}}

PageCases == CasesOf(Widest(PageSite))

-----------------------------------------------------------------------------
(* Whoever a page offers a command or an optional panel to, the gateway      *)
(* forwards what it asks and the service behind it accepts the caller: the   *)
(* permissions the route and the page test are those of the guards, but for  *)
(* the two filters above.                                                    *)
OfferedIsPermitted == screen.allowed

\* What is edited in the catalogue and repeated, by name or status, elsewhere.
ReferenceRows ==
  {"product", "category", "productBrand", "vehicle", "vehicleModel", "vehicleBrand",
   "location", "supplier", "customer", "cashRegister"}

\* The keys whose answer repeats one of these.
NamingKeys ==
  {r[1] : r \in {q \in KeysRead(PageQueries(Pages!AppRoutes), Backend!Reads) : q[2] \in ReferenceRows}}

(* Names and statuses that answers repeat of products, vehicles, locations,  *)
(* suppliers, customers and cash registers follow their edits in every view  *)
(* (docs/phase-11-frontend-backend-integration.md, item 7 of the cache       *)
(* corrections: scoped reference invalidation refreshes the dependent        *)
(* domains), as do those of categories and brands                            *)
(* (docs/frontend-phase-10b-catalog-inventory.md: mutations invalidate the   *)
(* affected domain roots).  The helpers of invalidation.ts forget some.      *)
NamesFollowEdits == watched.key \in NamingKeys => ConfirmedChangesShow

(* What the pages of purchasing, sales and the cash ledger show as fresh has *)
(* every command that answered: docs/frontend-phase-10c, 10d and 10e say     *)
(* that the mutations of these pages invalidate the roots they affect.       *)
DocumentsFollowCommands ==
  Head(watched.key) \in {"purchasing", "sales"} \/ watched.key = k.cashMovements
    => ConfirmedChangesShow
=============================================================================
