------------------------------ MODULE Backend ------------------------------
(***************************************************************************)
(* What the handlers of ms-autorepuesto and ms-users ask of a caller and   *)
(* what they touch.  Endpoints are named as in Gateway.  A controller is   *)
(* a set of <<path, verb, permission>>: its guards let a request through   *)
(* when the caller has every permission listed for the endpoint.  A        *)
(* service is the set of <<path, verb, item>> its queries read and the set *)
(* its commands write.                                                     *)
(*                                                                         *)
(* Items are what one document or one table contributes to an answer: a    *)
(* plural name is the set of rows, written when a row is created; a        *)
(* singular name is the content of the row, written when it is edited,     *)
(* posted or switched.  Commands and queries are about one document of     *)
(* each kind and the documents it belongs to.  Answers join rows of other  *)
(* tables for display, so a query reads the rows it joins.  Validation,    *)
(* the outcome of a command and the values themselves are modelled by the  *)
(* modules of those components; here a command may always be refused.      *)
(***************************************************************************)

Guard(path, verbs, permission) == {path} \X verbs \X {permission}
Touch(path, verbs, items)      == {path} \X verbs \X items

-----------------------------------------------------------------------------
(* ms-autorepuesto: controllers *)

\* Resources whose permissions are named create, read and update.
DirectoryGuards(path, create, read, update) ==
  Guard(path, {"create"}, create) \cup Guard(path, {"list", "get"}, read)
    \cup Guard(path, {"update", "activate", "deactivate"}, update)

CustomersController ==
  DirectoryGuards("customers", "customers.create", "customers.read", "customers.update")

SuppliersController ==
  DirectoryGuards("suppliers", "suppliers.create", "suppliers.read", "suppliers.update")

LocationsController ==
  DirectoryGuards("locations", "locations.create", "locations.read", "locations.update")

ProductsController ==
  DirectoryGuards("products", "products.create", "products.read", "products.update")

\* Categories, brands and attribute definitions share the product permissions.
ProductCatalogControllers ==
  UNION {DirectoryGuards(path, "products.create", "products.read", "products.update") :
           path \in {"product-categories", "product-brands", "product-attribute-definitions"}}

VehiclesController ==
  DirectoryGuards("vehicles", "vehicles.create", "vehicles.read", "vehicles.update")

VehicleCatalogControllers ==
  UNION {DirectoryGuards(path, "vehicles.create", "vehicles.read", "vehicles.update") :
           path \in {"vehicle-brands", "vehicle-models"}}

CompatibilitiesController ==
  Guard("compatibilities", {"create", "update"}, "compatibilities.manage")
    \cup Guard("compatibilities", {"list", "get"}, "compatibilities.read")
    \cup Guard("products/:id/vehicles", {"list"}, "compatibilities.read")
    \cup Guard("vehicles/:id/products", {"list"}, "compatibilities.read")

FaultyInventoryMovementPermissionsGuard ==
  Guard("inventory/movements", {"transfer", "adjust"}, "inventory.adjust")

\* The permission of a movement depends on the type in its body.
InventoryMovementPermissionsGuard ==
  Guard("inventory/movements", {"transfer"}, "inventory.transfer")
    \cup Guard("inventory/movements", {"adjust"}, "inventory.adjust")

InventoryController ==
  Guard("inventory", {"list", "get"}, "inventory.read")
    \cup UNION {Guard(path, {"list"}, "inventory.read") :
                  path \in {"inventory/movements", "products/:id/inventory", "locations/:id/inventory"}}

ProductSearchController == Guard("search/products", {"list"}, "search.read")

PurchasesController ==
  Guard("purchases", {"create"}, "purchases.create")
    \cup Guard("purchases", {"list", "get"}, "purchases.read")
    \cup Guard("purchases", {"update", "confirm", "cancel"}, "purchases.update")

PurchaseReceiptsController ==
  Guard("purchases/:id/receipts", {"create"}, "purchases.receive")
    \cup Guard("purchase-receipts", {"post"}, "purchases.receive")
    \cup Guard("purchases/:id/receipts", {"list"}, "purchases.read")
    \cup Guard("purchase-receipts", {"get"}, "purchases.read")

PurchaseReturnsController ==
  Guard("purchases/:id/returns", {"create"}, "purchases.return")
    \cup Guard("purchase-returns", {"post"}, "purchases.return")
    \cup Guard("purchases/:id/returns", {"list"}, "purchases.read")
    \cup Guard("purchase-returns", {"get"}, "purchases.read")

SalesController ==
  Guard("sales", {"create"}, "sales.create") \cup Guard("sales", {"list", "get"}, "sales.read")
    \cup Guard("sales", {"update", "cancel"}, "sales.update") \cup Guard("sales", {"post"}, "sales.post")

SaleReturnsController ==
  Guard("sales/:id/returns", {"create"}, "sales.return")
    \cup Guard("sale-returns", {"post"}, "sales.return")
    \cup Guard("sales/:id/returns", {"list"}, "sales.read")
    \cup Guard("sale-returns", {"get"}, "sales.read")

PaymentsController ==
  Guard("sales/:id/payments", {"create"}, "payments.create")
    \cup Guard("sale-returns/:id/refunds", {"create"}, "payments.create")
    \cup Guard("purchases/:id/payments", {"create"}, "purchases.pay")
    \cup Guard("purchase-returns/:id/refunds", {"create"}, "purchases.pay")
    \cup UNION {Guard(path, {"list"}, "payments.read") :
                  path \in {"sales/:id/payments", "sale-returns/:id/refunds",
                            "purchases/:id/payments", "purchase-returns/:id/refunds"}}
    \cup Guard("payments", {"get"}, "payments.read")
    \cup Guard("payments", {"reverse"}, "payments.reverse")

PaymentMethodsController ==
  Guard("payment-methods", {"list", "get"}, "payment-methods.read")
    \cup Guard("payment-methods", {"create", "update", "activate", "deactivate"}, "payment-methods.manage")

CashRegistersController ==
  Guard("cash-registers", {"create", "update", "activate", "deactivate"}, "cash-registers.manage")
    \cup Guard("cash-registers", {"list", "get"}, "cash-registers.read")
    \cup Guard("cash-registers", {"open"}, "cash-sessions.open")
    \cup Guard("cash-registers", {"current-session"}, "cash-sessions.read")

\* The summary of a session asks for two permissions.
CashSessionsController ==
  Guard("cash-sessions", {"list", "get", "summary"}, "cash-sessions.read")
    \cup Guard("cash-sessions", {"summary"}, "cash-movements.read")
    \cup Guard("cash-sessions/:id/movements", {"create"}, "cash-movements.create")
    \cup Guard("cash-sessions", {"close"}, "cash-sessions.close")

CashMovementsController == Guard("cash-movements", {"list"}, "cash-movements.read")

CommercialController ==
  Guard("customers/:id/account", {"list"}, "commercial-receivables.read")
    \cup Guard("suppliers/:id/account", {"list"}, "commercial-payables.read")
    \cup Guard("commercial", {"receivables"}, "commercial-receivables.read")
    \cup Guard("commercial", {"payables"}, "commercial-payables.read")
    \cup Guard("commercial", {"summary"}, "commercial-summary.read")

(* ms-users: controllers *)

UsersController ==
  Guard("users", {"list", "get"}, "users.read") \cup Guard("users", {"create"}, "users.create")
    \cup Guard("users", {"update"}, "users.update") \cup Guard("users", {"activate"}, "users.activate")
    \cup Guard("users", {"deactivate"}, "users.deactivate")

RolesController ==
  Guard("roles", {"list", "get"}, "roles.read") \cup Guard("roles", {"create", "update"}, "roles.manage")

Guarded ==
  UNION {CustomersController, SuppliersController, LocationsController, ProductsController,
         ProductCatalogControllers, VehiclesController, VehicleCatalogControllers,
         CompatibilitiesController, InventoryMovementPermissionsGuard, InventoryController,
         ProductSearchController, PurchasesController, PurchaseReceiptsController,
         PurchaseReturnsController, SalesController, SaleReturnsController, PaymentsController,
         PaymentMethodsController, CashRegistersController, CashSessionsController,
         CashMovementsController, CommercialController, UsersController, RolesController}

-----------------------------------------------------------------------------
(* What the services read and write *)

\* A service of one table: the list and the detail join the rows of "joined",
\* creating adds a row, updating and switching change one.
Directory(path, rows, row, joined) ==
  [reads  |-> Touch(path, {"list"}, {rows, row} \cup joined) \cup Touch(path, {"get"}, {row} \cup joined),
   writes |-> Touch(path, {"create"}, {rows}) \cup Touch(path, {"update", "activate", "deactivate"}, {row})]

CustomersService == Directory("customers", "customers", "customer", {})
SuppliersService == Directory("suppliers", "suppliers", "supplier", {})
LocationsService == Directory("locations", "locations", "location", {})

ProductsService ==
  Directory("products", "products", "product", {"category", "productBrand", "attribute"})

Categories == Directory("product-categories", "categories", "category", {})
Brands     == Directory("product-brands", "productBrands", "productBrand", {})
Attributes == Directory("product-attribute-definitions", "attributes", "attribute", {"category"})

VehicleBrands   == Directory("vehicle-brands", "vehicleBrands", "vehicleBrand", {})
VehicleModels   == Directory("vehicle-models", "vehicleModels", "vehicleModel", {"vehicleBrand"})
VehiclesService == Directory("vehicles", "vehicles", "vehicle", {"vehicleModel", "vehicleBrand"})

\* What a compatibility joins of its product and of its vehicle.
FittedProduct == {"product", "category", "productBrand"}
FittedVehicle == {"vehicle", "vehicleModel", "vehicleBrand"}

CompatibilitiesService ==
  LET links == Directory("compatibilities", "compatibilities", "compatibility",
                         FittedProduct \cup FittedVehicle)
  IN  [reads  |-> links.reads
         \cup Touch("products/:id/vehicles", {"list"}, {"compatibilities", "compatibility"} \cup FittedVehicle)
         \cup Touch("vehicles/:id/products", {"list"}, {"compatibilities", "compatibility"} \cup FittedProduct),
       writes |-> links.writes]

InventoryService ==
  [reads |-> Touch("inventory", {"list", "get"}, {"stock", "location"} \cup FittedProduct)
     \cup Touch("products/:id/inventory", {"list"}, {"stock", "location"} \cup FittedProduct)
     \cup Touch("locations/:id/inventory", {"list"}, {"stock", "location"} \cup FittedProduct)
     \cup Touch("inventory/movements", {"list"}, {"movements", "product", "location"}),
   writes |-> Touch("inventory/movements", {"transfer", "adjust"}, {"stock", "movements"})]

ProductSearchService ==
  [reads |-> Touch("search/products", {"list"},
               {"products", "attribute", "stock", "location", "compatibilities", "compatibility"}
                 \cup FittedProduct \cup FittedVehicle),
   writes |-> {}]

\* A detail carries the receipts, the returns and the settlement of the purchase.
\* What a draft says is edited until it is confirmed; then only its status moves.
\* Cancelling a purchase cancels its draft receipts.
PurchasesService ==
  [reads |-> Touch("purchases", {"list"},
               {"purchases", "purchaseDraft", "purchaseConfirmation", "purchaseStatus", "supplier"})
     \cup Touch("purchases", {"get"},
            {"purchaseDraft", "purchaseConfirmation", "purchaseStatus", "supplier", "product", "location",
             "receipts", "receipt", "purchaseReturns", "purchaseReturn", "purchasePayments", "paymentMethod"}),
   writes |-> Touch("purchases", {"create"}, {"purchases"})
     \cup Touch("purchases", {"update"}, {"purchaseDraft"})
     \cup Touch("purchases", {"confirm"}, {"purchaseConfirmation"})
     \cup Touch("purchases", {"cancel"}, {"purchaseStatus", "receipt"})]

\* Posting a receipt moves stock and sets the status of the purchase.
PurchaseReceiptsService ==
  [reads |-> Touch("purchases/:id/receipts", {"list"},
               {"receipts", "receipt", "purchaseStatus", "product", "location"})
     \cup Touch("purchase-receipts", {"get"}, {"receipt", "purchaseStatus", "product", "location"}),
   writes |-> Touch("purchases/:id/receipts", {"create"}, {"receipts"})
     \cup Touch("purchase-receipts", {"post"}, {"receipt", "purchaseStatus", "stock", "movements"})]

\* The refund summary of a return depends on the whole settlement of its purchase.
PurchaseReturnsService ==
  [reads |-> Touch("purchases/:id/returns", {"list"},
               {"purchaseReturns", "purchaseReturn", "purchaseStatus", "product", "location"})
     \cup Touch("purchase-returns", {"get"},
            {"purchaseReturn", "purchaseStatus", "product", "location", "purchasePayments", "paymentMethod"}),
   writes |-> Touch("purchases/:id/returns", {"create"}, {"purchaseReturns"})
     \cup Touch("purchase-returns", {"post"}, {"purchaseReturn", "stock", "movements"})]

SalesService ==
  [reads |-> Touch("sales", {"list"}, {"sales", "saleDraft", "saleStatus", "customer", "saleReturns"})
     \cup Touch("sales", {"get"},
            {"saleDraft", "saleStatus", "customer", "product", "location", "saleReturns", "saleReturn",
             "salePayments", "paymentMethod"}),
   writes |-> Touch("sales", {"create"}, {"sales"}) \cup Touch("sales", {"update"}, {"saleDraft"})
     \cup Touch("sales", {"cancel"}, {"saleStatus"})
     \cup Touch("sales", {"post"}, {"saleStatus", "stock", "movements"})]

\* The sale of a return is posted and no longer changes; the refund summary
\* depends on the payments of the sale.
SaleReturnsService ==
  [reads |-> Touch("sales/:id/returns", {"list"}, {"saleReturns", "saleReturn", "product", "location"})
     \cup Touch("sale-returns", {"get"},
            {"saleReturn", "product", "location", "salePayments", "paymentMethod"}),
   writes |-> Touch("sales/:id/returns", {"create"}, {"saleReturns"})
     \cup Touch("sale-returns", {"post"}, {"saleReturn", "stock", "movements"})]

\* Every operation may write the ledger of a cash session; a reversal is of a
\* payment of either side.  A history joins the method and the session of each
\* payment, with its register, and names the document it is of, whose number and
\* total no longer change.
PaymentsService ==
  LET joined == {"paymentMethod", "cashSession", "cashRegister"} IN
  [reads |-> Touch("sales/:id/payments", {"list"}, {"salePayments"} \cup joined)
     \cup Touch("sale-returns/:id/refunds", {"list"}, {"salePayments"} \cup joined)
     \cup Touch("purchases/:id/payments", {"list"}, {"purchasePayments"} \cup joined)
     \cup Touch("purchase-returns/:id/refunds", {"list"}, {"purchasePayments"} \cup joined)
     \cup Touch("payments", {"get"}, {"salePayments", "purchasePayments"} \cup joined),
   writes |-> Touch("sales/:id/payments", {"create"}, {"salePayments", "cashMovements"})
     \cup Touch("sale-returns/:id/refunds", {"create"}, {"salePayments", "cashMovements"})
     \cup Touch("purchases/:id/payments", {"create"}, {"purchasePayments", "cashMovements"})
     \cup Touch("purchase-returns/:id/refunds", {"create"}, {"purchasePayments", "cashMovements"})
     \cup Touch("payments", {"reverse"}, {"salePayments", "purchasePayments", "cashMovements"})]

PaymentMethodsService == Directory("payment-methods", "paymentMethods", "paymentMethod", {})

CashRegistersService ==
  LET registers == Directory("cash-registers", "cashRegisters", "cashRegister", {})
  IN  [reads  |-> registers.reads
         \cup Touch("cash-registers", {"current-session"}, {"cashSessions", "cashSession", "cashRegister"}),
       writes |-> registers.writes]

CashSessionsService ==
  [reads |-> Touch("cash-sessions", {"list"}, {"cashSessions", "cashSession", "cashRegister"})
     \cup Touch("cash-sessions", {"get"}, {"cashSession", "cashRegister"})
     \cup Touch("cash-sessions", {"summary"}, {"cashSession", "cashMovements", "cashRegister", "paymentMethod"}),
   writes |-> Touch("cash-registers", {"open"}, {"cashSessions"})
     \cup Touch("cash-sessions/:id/movements", {"create"}, {"cashMovements"})
     \cup Touch("cash-sessions", {"close"}, {"cashSession"})]

CashMovementsService ==
  [reads |-> Touch("cash-movements", {"list"},
               {"cashMovements", "cashRegister", "cashSession", "salePayments", "purchasePayments", "paymentMethod"}),
   writes |-> {}]

\* Receivables are posted sales and their payments; payables are confirmed
\* purchases with the value of their posted returns; the summary adds the open drawers.
CommercialService ==
  LET receivable == {"saleStatus", "customer", "salePayments"}
      payable    == {"purchaseConfirmation", "purchaseStatus", "supplier", "purchaseReturn", "purchasePayments"}
  IN  [reads |-> Touch("customers/:id/account", {"list"}, receivable)
         \cup Touch("suppliers/:id/account", {"list"}, payable)
         \cup Touch("commercial", {"receivables"}, receivable)
         \cup Touch("commercial", {"payables"}, payable)
         \cup Touch("commercial", {"summary"},
                (receivable \cup payable \cup {"cashSessions", "cashSession", "cashMovements"})
                  \ {"customer", "supplier"}),
       writes |-> {}]

\* Users carry the names and permissions of their roles.
UsersService == Directory("users", "users", "user", {"role"})
RolesService == Directory("roles", "roles", "role", {})

Services ==
  {CustomersService, SuppliersService, LocationsService, ProductsService, Categories, Brands,
   Attributes, VehicleBrands, VehicleModels, VehiclesService, CompatibilitiesService,
   InventoryService, ProductSearchService, PurchasesService, PurchaseReceiptsService,
   PurchaseReturnsService, SalesService, SaleReturnsService, PaymentsService,
   PaymentMethodsService, CashRegistersService, CashSessionsService, CashMovementsService,
   CommercialService, UsersService, RolesService}

Reads  == UNION {service.reads : service \in Services}
Writes == UNION {service.writes : service \in Services}

Permissions(endpoint) == {g[3] : g \in {h \in Guarded : <<h[1], h[2]>> = endpoint}}
============================================================================
