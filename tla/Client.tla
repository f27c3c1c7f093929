------------------------------- MODULE Client -------------------------------
(***************************************************************************)
(* What the pages of the frontend are written with: the keys their answers *)
(* are cached under (query/query-keys.ts), the calls they make to the      *)
(* gateway (api/*.ts) and the keys they mark stale together                *)
(* (query/invalidation.ts).                                                *)
(*                                                                         *)
(* A key is the sequence the code gives it, with "id" for the id of a      *)
(* document and "filters" for the filters of a list; marking a key stale   *)
(* marks every key that starts with it.  A call is the set of endpoints it *)
(* may reach, named as in Gateway.                                         *)
(***************************************************************************)
EXTENDS Sequences

queryKeys ==
  [inventoryDomainRoot |-> <<"inventory">>,
   productCategories |-> <<"catalog", "product-categories">>,
   productBrands |-> <<"catalog", "product-brands">>,
   productAttributes |-> <<"catalog", "product-attributes", "id">>,
   productsRoot |-> <<"catalog", "products">>,
   productDetailsRoot |-> <<"catalog", "product">>,
   products |-> <<"catalog", "products", "filters">>,
   product |-> <<"catalog", "product", "id">>,
   vehicleBrands |-> <<"vehicles", "brands">>,
   vehicleModelsRoot |-> <<"vehicles", "models">>,
   vehicleModels |-> <<"vehicles", "models", "id">>,
   vehiclesRoot |-> <<"vehicles", "list">>,
   vehicleDetailsRoot |-> <<"vehicles", "detail">>,
   vehicles |-> <<"vehicles", "list", "filters">>,
   vehicle |-> <<"vehicles", "detail", "id">>,
   compatibilitiesRoot |-> <<"compatibilities">>,
   compatibilities |-> <<"compatibilities", "filters">>,
   productVehicles |-> <<"compatibilities", "product", "id", "filters">>,
   vehicleProducts |-> <<"compatibilities", "vehicle", "id", "filters">>,
   locations |-> <<"inventory", "locations", "filters">>,
   inventory |-> <<"inventory", "balances", "filters">>,
   productInventory |-> <<"inventory", "product", "id", "filters">>,
   movements |-> <<"inventory", "movements", "filters">>,
   searchRoot |-> <<"search", "products">>,
   search |-> <<"search", "products", "filters">>,
   suppliersRoot |-> <<"purchasing", "suppliers">>,
   supplierDetailsRoot |-> <<"purchasing", "supplier">>,
   suppliers |-> <<"purchasing", "suppliers", "filters">>,
   supplier |-> <<"purchasing", "supplier", "id">>,
   supplierAccount |-> <<"commercial", "supplier-account", "id", "filters">>,
   purchasesRoot |-> <<"purchasing", "purchases">>,
   purchaseDetailsRoot |-> <<"purchasing", "purchase">>,
   purchases |-> <<"purchasing", "purchases", "filters">>,
   purchase |-> <<"purchasing", "purchase", "id">>,
   receiptsRoot |-> <<"purchasing", "receipts">>,
   receipts |-> <<"purchasing", "receipts", "id", "filters">>,
   receipt |-> <<"purchasing", "receipt", "id">>,
   returnsRoot |-> <<"purchasing", "returns">>,
   returns |-> <<"purchasing", "returns", "id", "filters">>,
   purchaseReturnDetailsRoot |-> <<"purchasing", "return">>,
   purchaseReturn |-> <<"purchasing", "return", "id">>,
   paymentMethods |-> <<"finance", "methods", "filters">>,
   paymentMethod |-> <<"finance", "method", "id">>,
   cashSessionsRoot |-> <<"finance", "sessions">>,
   cashSessions |-> <<"finance", "sessions", "filters">>,
   cashSessionDetailsRoot |-> <<"finance", "session">>,
   cashSession |-> <<"finance", "session", "id">>,
   cashSessionSummary |-> <<"finance", "session", "id", "summary">>,
   cashRegistersRoot |-> <<"finance", "registers">>,
   cashRegisters |-> <<"finance", "registers", "filters">>,
   cashRegister |-> <<"finance", "register", "id">>,
   currentCashSession |-> <<"finance", "register", "id", "current-session">>,
   cashMovementsRoot |-> <<"finance", "cash-movements">>,
   cashMovements |-> <<"finance", "cash-movements", "filters">>,
   purchasePaymentsRoot |-> <<"finance", "purchase-payments">>,
   purchasePayments |-> <<"finance", "purchase-payments", "id", "filters">>,
   supplierRefundsRoot |-> <<"finance", "supplier-refunds">>,
   supplierRefunds |-> <<"finance", "supplier-refunds", "id", "filters">>,
   payablesRoot |-> <<"commercial", "payables">>,
   payables |-> <<"commercial", "payables", "filters">>,
   supplierAccountsRoot |-> <<"commercial", "supplier-account">>,
   customersRoot |-> <<"sales", "customers">>,
   customerDetailsRoot |-> <<"sales", "customer">>,
   customers |-> <<"sales", "customers", "filters">>,
   customer |-> <<"sales", "customer", "id">>,
   customerAccount |-> <<"commercial", "customer-account", "id", "filters">>,
   salesRoot |-> <<"sales", "documents">>,
   saleDetailsRoot |-> <<"sales", "document">>,
   sales |-> <<"sales", "documents", "filters">>,
   sale |-> <<"sales", "document", "id">>,
   saleReturnsRoot |-> <<"sales", "returns">>,
   saleReturns |-> <<"sales", "returns", "id", "filters">>,
   saleReturn |-> <<"sales", "return", "id">>,
   salePaymentsRoot |-> <<"finance", "sale-payments">>,
   salePayments |-> <<"finance", "sale-payments", "id", "filters">>,
   saleRefundsRoot |-> <<"finance", "sale-refunds">>,
   saleRefunds |-> <<"finance", "sale-refunds", "id", "filters">>,
   receivablesRoot |-> <<"commercial", "receivables">>,
   receivables |-> <<"commercial", "receivables", "filters">>,
   customerAccountsRoot |-> <<"commercial", "customer-account">>,
   commercialSummary |-> <<"commercial-summary">>,
   usersRoot |-> <<"administration", "users">>,
   users |-> <<"administration", "users", "filters">>,
   userDetailsRoot |-> <<"administration", "user">>,
   user |-> <<"administration", "user", "id">>,
   rolesRoot |-> <<"administration", "roles">>,
   role |-> <<"administration", "role", "id">>]

-----------------------------------------------------------------------------
(* invalidation.ts: what a change of shared data marks stale *)

invalidateProductReferenceIntegration ==
  {queryKeys.productsRoot, queryKeys.productDetailsRoot, queryKeys.compatibilitiesRoot,
   queryKeys.inventoryDomainRoot, queryKeys.searchRoot}

invalidateVehicleReferenceIntegration ==
  {queryKeys.vehiclesRoot, queryKeys.vehicleDetailsRoot, queryKeys.compatibilitiesRoot,
   queryKeys.searchRoot}

invalidateLocationReferenceIntegration ==
  {queryKeys.inventoryDomainRoot, queryKeys.purchaseDetailsRoot, queryKeys.saleDetailsRoot}

invalidateSupplierReferenceIntegration ==
  {queryKeys.suppliersRoot, queryKeys.supplierDetailsRoot, queryKeys.purchasesRoot,
   queryKeys.purchaseDetailsRoot, queryKeys.payablesRoot, queryKeys.supplierAccountsRoot}

invalidateCustomerReferenceIntegration ==
  {queryKeys.customersRoot, queryKeys.customerDetailsRoot, queryKeys.salesRoot,
   queryKeys.saleDetailsRoot, queryKeys.receivablesRoot, queryKeys.customerAccountsRoot}

FaultyInventoryIntegration == {queryKeys.inventoryDomainRoot}

invalidateInventoryIntegration == {queryKeys.inventoryDomainRoot, queryKeys.searchRoot}

invalidateCommercialSummary == {queryKeys.commercialSummary}

invalidateCashIntegration ==
  {queryKeys.cashSessionsRoot, queryKeys.cashSessionDetailsRoot, queryKeys.cashMovementsRoot}
    \cup invalidateCommercialSummary

invalidateUserRoleIntegration == {queryKeys.usersRoot, queryKeys.userDetailsRoot}

-----------------------------------------------------------------------------
(* api/*.ts: the calls *)

At(path, verb) == {<<path, verb>>}

\* setActive asks for the state the row is not in.
Switch(path) == At(path, "activate") \cup At(path, "deactivate")

getSystemHealth == At("system", "health")
getCommercialSummary == At("commercial", "summary")

usersApi ==
  [list |-> At("users", "list"), detail |-> At("users", "get"), create |-> At("users", "create"),
   update |-> At("users", "update"), setActive |-> Switch("users")]

rolesApi ==
  [list |-> At("roles", "list"), detail |-> At("roles", "get"),
   create |-> At("roles", "create"), update |-> At("roles", "update")]

catalogApi ==
  [categories |-> At("product-categories", "list"),
   createCategory |-> At("product-categories", "create"),
   updateCategory |-> At("product-categories", "update"),
   brands |-> At("product-brands", "list"), createBrand |-> At("product-brands", "create"),
   updateBrand |-> At("product-brands", "update"),
   attributes |-> At("product-attribute-definitions", "list"),
   createAttribute |-> At("product-attribute-definitions", "create"),
   updateAttribute |-> At("product-attribute-definitions", "update"),
   products |-> At("products", "list"), product |-> At("products", "get"),
   createProduct |-> At("products", "create"), updateProduct |-> At("products", "update"),
   setProductActive |-> Switch("products")]

vehiclesApi ==
  [brands |-> At("vehicle-brands", "list"), createBrand |-> At("vehicle-brands", "create"),
   updateBrand |-> At("vehicle-brands", "update"), models |-> At("vehicle-models", "list"),
   createModel |-> At("vehicle-models", "create"), updateModel |-> At("vehicle-models", "update"),
   vehicles |-> At("vehicles", "list"), vehicle |-> At("vehicles", "get"),
   createVehicle |-> At("vehicles", "create"), updateVehicle |-> At("vehicles", "update"),
   setVehicleActive |-> Switch("vehicles")]

compatibilityApi ==
  [list |-> At("compatibilities", "list"), create |-> At("compatibilities", "create"),
   update |-> At("compatibilities", "update"),
   productVehicles |-> At("products/:id/vehicles", "list"),
   vehicleProducts |-> At("vehicles/:id/products", "list")]

\* createMovement posts one of the five types; a transfer is asked for by its own page.
inventoryApi ==
  [locations |-> At("locations", "list"), location |-> At("locations", "get"),
   createLocation |-> At("locations", "create"), updateLocation |-> At("locations", "update"),
   setLocationActive |-> Switch("locations"), balances |-> At("inventory", "list"),
   productBalances |-> At("products/:id/inventory", "list"),
   movements |-> At("inventory/movements", "list"),
   createMovement |-> At("inventory/movements", "adjust"),
   createTransfer |-> At("inventory/movements", "transfer")]

searchApi == [products |-> At("search/products", "list")]

suppliersApi ==
  [list |-> At("suppliers", "list"), detail |-> At("suppliers", "get"),
   create |-> At("suppliers", "create"), update |-> At("suppliers", "update"),
   setActive |-> Switch("suppliers"), account |-> At("suppliers/:id/account", "list")]

customersApi ==
  [list |-> At("customers", "list"), detail |-> At("customers", "get"),
   create |-> At("customers", "create"), update |-> At("customers", "update"),
   setActive |-> Switch("customers"), account |-> At("customers/:id/account", "list")]

purchasingApi ==
  [purchases |-> At("purchases", "list"), purchase |-> At("purchases", "get"),
   createPurchase |-> At("purchases", "create"), updatePurchase |-> At("purchases", "update"),
   confirmPurchase |-> At("purchases", "confirm"), cancelPurchase |-> At("purchases", "cancel"),
   receipts |-> At("purchases/:id/receipts", "list"), receipt |-> At("purchase-receipts", "get"),
   createReceipt |-> At("purchases/:id/receipts", "create"),
   postReceipt |-> At("purchase-receipts", "post"),
   returns |-> At("purchases/:id/returns", "list"),
   purchaseReturn |-> At("purchase-returns", "get"),
   createReturn |-> At("purchases/:id/returns", "create"),
   postReturn |-> At("purchase-returns", "post")]

purchasingFinanceApi ==
  [paymentMethods |-> At("payment-methods", "list"), paymentMethod |-> At("payment-methods", "get"),
   cashSessions |-> At("cash-sessions", "list"), cashSession |-> At("cash-sessions", "get"),
   purchasePayments |-> At("purchases/:id/payments", "list"),
   createPurchasePayment |-> At("purchases/:id/payments", "create"),
   supplierRefunds |-> At("purchase-returns/:id/refunds", "list"),
   createSupplierRefund |-> At("purchase-returns/:id/refunds", "create"),
   reverse |-> At("payments", "reverse"), payables |-> At("commercial", "payables")]

salesApi ==
  [list |-> At("sales", "list"), detail |-> At("sales", "get"), create |-> At("sales", "create"),
   update |-> At("sales", "update"), post |-> At("sales", "post"), cancel |-> At("sales", "cancel"),
   returns |-> At("sales/:id/returns", "list"), createReturn |-> At("sales/:id/returns", "create"),
   returnDetail |-> At("sale-returns", "get"), postReturn |-> At("sale-returns", "post")]

salesFinanceApi ==
  [payments |-> At("sales/:id/payments", "list"), createPayment |-> At("sales/:id/payments", "create"),
   refunds |-> At("sale-returns/:id/refunds", "list"),
   createRefund |-> At("sale-returns/:id/refunds", "create"),
   reverse |-> At("payments", "reverse"), receivables |-> At("commercial", "receivables")]

cashApi ==
  [registers |-> At("cash-registers", "list"), register |-> At("cash-registers", "get"),
   createRegister |-> At("cash-registers", "create"), updateRegister |-> At("cash-registers", "update"),
   setRegisterActive |-> Switch("cash-registers"),
   currentSession |-> At("cash-registers", "current-session"),
   openSession |-> At("cash-registers", "open"), sessions |-> At("cash-sessions", "list"),
   session |-> At("cash-sessions", "get"), summary |-> At("cash-sessions", "summary"),
   closeSession |-> At("cash-sessions", "close"), movements |-> At("cash-movements", "list"),
   createMovement |-> At("cash-sessions/:id/movements", "create")]
=============================================================================
