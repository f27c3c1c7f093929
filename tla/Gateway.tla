------------------------------ MODULE Gateway ------------------------------
(***************************************************************************)
(* The routes of the API gateway.  An endpoint is a pair <<path, verb>>:   *)
(* "create" is POST path, "list" is GET path, "get" is GET path/:id,       *)
(* "update" is PATCH path/:id, any other verb is the last segment of a     *)
(* POST or PATCH under path/:id.  Every handler forwards method, path,     *)
(* query, body and the Authorization header unchanged, so a controller is  *)
(* the set of endpoints it forwards; what a route does not forward is      *)
(* answered 404 by the gateway itself.                                     *)
(***************************************************************************)

\* The two kinds of routes nearly every resource has.
Documents == {"create", "list", "get", "update"}
Switched  == Documents \cup {"activate", "deactivate"}

Routes(paths, verbs) == paths \X verbs

AuthController  == Routes({"auth"}, {"login", "me"})
UsersController == Routes({"users"}, Switched)
RolesController == Routes({"roles"}, Documents)

\* The health of the gateway and, through it, of both services.
HealthController == Routes({"system"}, {"health"})

-----------------------------------------------------------------------------
(* To ms-autorepuesto: reference data and stock *)

ProductRoutes ==
  Routes({"products"}, Switched) \cup Routes({"products/:id/vehicles"}, {"list"})

ProductCatalogRoutes ==
  Routes({"product-categories", "product-brands", "product-attribute-definitions"},
         {"create", "list", "update"})

VehicleRoutes ==
  Routes({"vehicles"}, Switched) \cup Routes({"vehicles/:id/products"}, {"list"})

VehicleCatalogRoutes ==
  Routes({"vehicle-brands", "vehicle-models"}, {"create", "list", "update"})

CompatibilitiesController == Routes({"compatibilities"}, Documents)

LocationsController ==
  Routes({"locations"}, Switched) \cup Routes({"locations/:id/inventory"}, {"list"})

\* POST inventory/movements is one route; its verb here is the type in the body.
InventoryController ==
  Routes({"inventory/movements"}, {"transfer", "adjust", "list"})
    \cup Routes({"inventory"}, {"list", "get"})
    \cup Routes({"products/:id/inventory"}, {"list"})

SearchController == Routes({"search/products"}, {"list"})

-----------------------------------------------------------------------------
(* To ms-autorepuesto: documents, money and cash *)

SuppliersController == Routes({"suppliers"}, Switched)
CustomersController == Routes({"customers"}, Switched)

PurchaseRoutes ==
  Routes({"purchases"}, Documents \cup {"confirm", "cancel"})

ReceiptAndReturnRoutes ==
  Routes({"purchases/:id/receipts", "purchases/:id/returns"}, {"create", "list"})
    \cup Routes({"purchase-receipts", "purchase-returns"}, {"get", "post"})

SalesController ==
  Routes({"sales"}, Documents \cup {"post", "cancel"})
    \cup Routes({"sales/:id/returns"}, {"create", "list"})
    \cup Routes({"sale-returns"}, {"get", "post"})

CommercialController ==
  Routes({"customers/:id/account", "suppliers/:id/account"}, {"list"})
    \cup Routes({"commercial"}, {"receivables", "payables", "summary"})

PaymentMethodRoutes == Routes({"payment-methods"}, Switched)

CashRegisterRoutes ==
  Routes({"cash-registers"}, Switched \cup {"open", "current-session"})

CashSessionRoutes ==
  Routes({"cash-sessions"}, {"list", "get", "summary", "close"})
    \cup Routes({"cash-sessions/:id/movements"}, {"create"})
    \cup Routes({"cash-movements"}, {"list"})

PaymentRoutes ==
  Routes({"sales/:id/payments", "sale-returns/:id/refunds",
          "purchases/:id/payments", "purchase-returns/:id/refunds"}, {"create", "list"})
    \cup Routes({"payments"}, {"get", "reverse"})

-----------------------------------------------------------------------------
Forwarded ==
  UNION {AuthController, UsersController, RolesController, HealthController,
         ProductRoutes, ProductCatalogRoutes, VehicleRoutes, VehicleCatalogRoutes,
         CompatibilitiesController, LocationsController, InventoryController,
         SearchController, SuppliersController, CustomersController, PurchaseRoutes,
         ReceiptAndReturnRoutes, SalesController, CommercialController,
         PaymentMethodRoutes, CashRegisterRoutes, CashSessionRoutes, PaymentRoutes}
============================================================================
