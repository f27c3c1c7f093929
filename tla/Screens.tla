------------------------------ MODULE Screens ------------------------------
(***************************************************************************)
(* The pages of the frontend: what each one shows from the query cache and *)
(* which commands it offers.  A page is one component of the code; a       *)
(* component that only renders is part of the page that uses it.           *)
(*                                                                         *)
(* A query has the key it is cached under, the endpoint that answers it    *)
(* and the permissions without which it is disabled ("needs").  A command  *)
(* has its endpoint, the permissions without which it is not offered, the  *)
(* keys its success marks stale, the keys it stores its answer under, and  *)
(* the items (of Backend) that its endpoint may write but this use of it   *)
(* cannot.  Everything else a page does (forms, filters, wording, guards   *)
(* on the status of the document it shows) is left out: a command may be   *)
(* offered when the page would hide it, and is then refused.               *)
(***************************************************************************)
EXTENDS Client

Query(key, call, needs) ==
  {[key |-> key, endpoint |-> e, needs |-> needs] : e \in call}

Command(call, needs, marks) ==
  {[endpoint |-> e, needs |-> needs, stores |-> {}, marks |-> marks, spares |-> {}] : e \in call}

\* A form stores the answer under the key of the document.  That of a creation
\* goes to the key of the new document, which no query has asked for yet.
Save(editing, create, update, key, marks) ==
  IF editing THEN {[c EXCEPT !.stores = {key}] : c \in Command(update, {}, marks)}
             ELSE Command(create, {}, marks)

Sparing(items, commands) == {[c EXCEPT !.spares = items] : c \in commands}

Page(queries, commands) == [queries |-> queries, commands |-> commands]

-----------------------------------------------------------------------------
(* Selectors: a list to choose from and the detail of what is chosen *)

ProductSelector ==
  Query(queryKeys.products, catalogApi.products, {}) \cup Query(queryKeys.product, catalogApi.product, {})

\* The key of the detail starts with a list, not with its elements: no prefix
\* of the other keys reaches it.
LocationSelector ==
  Query(queryKeys.locations, inventoryApi.locations, {})
    \cup Query(<<"[inventory,locations]", "detail", "id">>, inventoryApi.location, {})

VehicleSelector ==
  Query(queryKeys.vehicles, vehiclesApi.vehicles, {}) \cup Query(queryKeys.vehicle, vehiclesApi.vehicle, {})

SupplierSelector ==
  Query(queryKeys.suppliers, suppliersApi.list, {}) \cup Query(queryKeys.supplier, suppliersApi.detail, {})

PaymentMethodSelector ==
  Query(queryKeys.paymentMethods, purchasingFinanceApi.paymentMethods, {"payment-methods.read"})
    \cup Query(queryKeys.paymentMethod, purchasingFinanceApi.paymentMethod, {"payment-methods.read"})

OpenCashSessionSelector ==
  Query(queryKeys.cashSessions, purchasingFinanceApi.cashSessions, {"cash-sessions.read"})
    \cup Query(queryKeys.cashSession, purchasingFinanceApi.cashSession, {"cash-sessions.read"})

CustomerSelector ==
  Query(queryKeys.customers, customersApi.list, {}) \cup Query(queryKeys.customer, customersApi.detail, {})

CashRegisterSelector ==
  Query(queryKeys.cashRegisters, cashApi.registers, {})
    \cup Query(queryKeys.cashRegister, cashApi.register, {})

RoleSelector == Query(queryKeys.rolesRoot, rolesApi.list, {})

-----------------------------------------------------------------------------
(* Catalog and vehicles *)

Categories == Query(queryKeys.productCategories, catalogApi.categories, {})
Brands     == Query(queryKeys.productBrands, catalogApi.brands, {})
Attributes == Query(queryKeys.productAttributes, catalogApi.attributes, {})

ProductsPage ==
  Page(Query(queryKeys.products, catalogApi.products, {}) \cup Categories \cup Brands, {})

ProductFormPage(editing) ==
  LET call == IF editing THEN catalogApi.updateProduct ELSE catalogApi.createProduct
      row  == IF editing THEN Query(queryKeys.product, catalogApi.product, {}) ELSE {}
  IN  Page(Categories \cup Brands \cup Attributes \cup row,
           Command(call, {}, invalidateProductReferenceIntegration))

ProductDetailPage ==
  Page(Query(queryKeys.product, catalogApi.product, {})
         \cup Query(queryKeys.productInventory, inventoryApi.productBalances, {"inventory.read"})
         \cup Query(queryKeys.productVehicles, compatibilityApi.productVehicles, {"compatibilities.read"}),
       Command(catalogApi.setProductActive, {"products.update"}, invalidateProductReferenceIntegration))

\* Categories, brands and attributes are edited in the list that shows them.
CatalogPage(queries, key, create, update) ==
  LET marks == {key} \cup invalidateProductReferenceIntegration
  IN  Page(queries, Command(create, {"products.create"}, marks)
                      \cup Command(update, {"products.update"}, marks))

ProductCategoriesPage ==
  CatalogPage(Categories, queryKeys.productCategories, catalogApi.createCategory, catalogApi.updateCategory)
ProductBrandsPage ==
  CatalogPage(Brands, queryKeys.productBrands, catalogApi.createBrand, catalogApi.updateBrand)
ProductAttributesPage ==
  CatalogPage(Categories \cup Attributes, <<"catalog", "product-attributes">>,
              catalogApi.createAttribute, catalogApi.updateAttribute)

VehicleBrands == Query(queryKeys.vehicleBrands, vehiclesApi.brands, {})
VehicleModels == Query(queryKeys.vehicleModels, vehiclesApi.models, {})

VehicleBrandsPage ==
  LET marks == {queryKeys.vehicleBrands} \cup invalidateVehicleReferenceIntegration
  IN  Page(VehicleBrands, Command(vehiclesApi.createBrand, {"vehicles.create"}, marks)
                            \cup Command(vehiclesApi.updateBrand, {"vehicles.update"}, marks))

VehicleModelsPage ==
  LET marks == {queryKeys.vehicleModelsRoot} \cup invalidateVehicleReferenceIntegration
  IN  Page(VehicleBrands \cup VehicleModels,
           Command(vehiclesApi.createModel, {"vehicles.create"}, marks)
             \cup Command(vehiclesApi.updateModel, {"vehicles.update"}, marks))

VehiclesPage ==
  Page(Query(queryKeys.vehicles, vehiclesApi.vehicles, {}) \cup VehicleBrands \cup VehicleModels, {})

VehicleFormPage(editing) ==
  LET call == IF editing THEN vehiclesApi.updateVehicle ELSE vehiclesApi.createVehicle
      row  == IF editing THEN Query(queryKeys.vehicle, vehiclesApi.vehicle, {}) ELSE {}
  IN  Page(VehicleBrands \cup VehicleModels \cup row,
           Command(call, {}, invalidateVehicleReferenceIntegration))

VehicleDetailPage ==
  Page(Query(queryKeys.vehicle, vehiclesApi.vehicle, {})
         \cup Query(queryKeys.vehicleProducts, compatibilityApi.vehicleProducts, {"compatibilities.read"}),
       Command(vehiclesApi.setVehicleActive, {"vehicles.update"}, invalidateVehicleReferenceIntegration))

\* The selectors of the form are shown to who may create a compatibility.
CompatibilityPage ==
  Page(Query(queryKeys.compatibilities, compatibilityApi.list, {})
         \cup Query(queryKeys.vehicleBrands, vehiclesApi.brands, {"compatibilities.manage"})
         \cup Query(queryKeys.vehicleModels, vehiclesApi.models, {"compatibilities.manage"})
         \cup ProductSelector \cup VehicleSelector,
       Command(compatibilityApi.create \cup compatibilityApi.update, {"compatibilities.manage"},
               {queryKeys.compatibilitiesRoot, queryKeys.searchRoot}))

-----------------------------------------------------------------------------
(* Stock *)

InventoryPage ==
  Page(Query(queryKeys.inventory, inventoryApi.balances, {}) \cup ProductSelector \cup LocationSelector, {})

InventoryMovementsPage ==
  Page(Query(queryKeys.movements, inventoryApi.movements, {}) \cup ProductSelector \cup LocationSelector,
       Command(inventoryApi.createMovement, {"inventory.adjust"}, {<<"inventory">>, queryKeys.searchRoot}))

InventoryTransfersPage ==
  Page(Query(queryKeys.inventory, inventoryApi.balances, {}) \cup ProductSelector \cup LocationSelector,
       Command(inventoryApi.createTransfer, {}, {<<"inventory">>, queryKeys.searchRoot}))

LocationsPage ==
  LET marks == invalidateLocationReferenceIntegration
  IN  Page(Query(queryKeys.locations, inventoryApi.locations, {}),
           Command(inventoryApi.createLocation, {"locations.create"}, marks)
             \cup Command(inventoryApi.updateLocation \cup inventoryApi.setLocationActive,
                          {"locations.update"}, marks))

SearchPage ==
  Page(Query(queryKeys.search, searchApi.products, {}) \cup Categories \cup Brands
         \cup VehicleBrands \cup VehicleModels \cup VehicleSelector, {})

-----------------------------------------------------------------------------
(* Suppliers and purchases *)

SuppliersPage == Page(Query(queryKeys.suppliers, suppliersApi.list, {}), {})

SupplierFormPage(editing) ==
  Page(IF editing THEN Query(queryKeys.supplier, suppliersApi.detail, {}) ELSE {},
       Save(editing, suppliersApi.create, suppliersApi.update, queryKeys.supplier,
            invalidateSupplierReferenceIntegration))

SupplierDetailPage ==
  Page(Query(queryKeys.supplier, suppliersApi.detail, {})
         \cup Query(queryKeys.supplierAccount, suppliersApi.account, {"commercial-payables.read"}),
       Command(suppliersApi.setActive, {"suppliers.update"}, invalidateSupplierReferenceIntegration))

PurchasesPage == Page(Query(queryKeys.purchases, purchasingApi.purchases, {}) \cup SupplierSelector, {})

PurchaseFormPage(editing) ==
  LET row == IF editing THEN Query(queryKeys.purchase, purchasingApi.purchase, {}) ELSE {}
  IN  Page(SupplierSelector \cup ProductSelector \cup row,
           Save(editing, purchasingApi.createPurchase, purchasingApi.updatePurchase,
                queryKeys.purchase, {queryKeys.purchasesRoot}))

PurchaseDetailPage ==
  Page(Query(queryKeys.purchase, purchasingApi.purchase, {})
         \cup Query(queryKeys.receipts, purchasingApi.receipts, {})
         \cup Query(queryKeys.returns, purchasingApi.returns, {}),
       Command(purchasingApi.confirmPurchase \cup purchasingApi.cancelPurchase, {"purchases.update"},
               {queryKeys.purchase, queryKeys.purchasesRoot, queryKeys.payablesRoot,
                queryKeys.supplierAccountsRoot} \cup invalidateCommercialSummary))

PurchaseReceiptCreatePage ==
  Page(Query(queryKeys.purchase, purchasingApi.purchase, {}) \cup LocationSelector,
       Command(purchasingApi.createReceipt, {}, {queryKeys.purchase, queryKeys.receiptsRoot}))

PurchaseReceiptDetailPage ==
  Page(Query(queryKeys.receipt, purchasingApi.receipt, {}),
       Command(purchasingApi.postReceipt, {"purchases.receive"},
               {queryKeys.receipt, queryKeys.receiptsRoot, queryKeys.purchase, queryKeys.purchasesRoot,
                queryKeys.payablesRoot, queryKeys.supplierAccountsRoot}
                 \cup invalidateCommercialSummary \cup invalidateInventoryIntegration))

PurchaseReturnCreatePage ==
  Page(Query(queryKeys.purchase, purchasingApi.purchase, {}) \cup LocationSelector,
       Command(purchasingApi.createReturn, {}, {queryKeys.purchase, queryKeys.returnsRoot}))

invalidateSettlement ==
  {queryKeys.purchase, queryKeys.purchasesRoot, queryKeys.purchasePaymentsRoot,
   queryKeys.supplierRefundsRoot, queryKeys.purchaseReturnDetailsRoot, queryKeys.payablesRoot,
   queryKeys.supplierAccountsRoot} \cup invalidateCashIntegration

\* The operations listed on a purchase page are of the purchase.
PaymentHistory ==
  Page(OpenCashSessionSelector,
       Sparing({"salePayments"},
               Command(purchasingFinanceApi.reverse, {"payments.reverse"}, invalidateSettlement)))

PurchasePaymentsPage ==
  Page(Query(queryKeys.purchase, purchasingApi.purchase, {})
         \cup Query(queryKeys.purchasePayments, purchasingFinanceApi.purchasePayments, {"payments.read"})
         \cup PaymentMethodSelector \cup PaymentHistory.queries,
       Command(purchasingFinanceApi.createPurchasePayment, {"purchases.pay"}, invalidateSettlement)
         \cup PaymentHistory.commands)

PurchaseReturnDetailPage ==
  Page(Query(queryKeys.purchaseReturn, purchasingApi.purchaseReturn, {})
         \cup Query(queryKeys.supplierRefunds, purchasingFinanceApi.supplierRefunds, {"payments.read"})
         \cup PaymentMethodSelector \cup PaymentHistory.queries,
       Command(purchasingApi.postReturn, {"purchases.return"},
               {queryKeys.purchaseReturn, queryKeys.returnsRoot}
                 \cup invalidateInventoryIntegration \cup invalidateSettlement)
         \cup Command(purchasingFinanceApi.createSupplierRefund, {"purchases.pay"},
                      invalidateSettlement \cup {queryKeys.purchaseReturn})
         \cup PaymentHistory.commands)

PayablesPage == Page(Query(queryKeys.payables, purchasingFinanceApi.payables, {}) \cup SupplierSelector, {})

-----------------------------------------------------------------------------
(* Customers and sales *)

CustomersPage == Page(Query(queryKeys.customers, customersApi.list, {}), {})

CustomerFormPage(editing) ==
  Page(IF editing THEN Query(queryKeys.customer, customersApi.detail, {}) ELSE {},
       Save(editing, customersApi.create, customersApi.update, queryKeys.customer,
            invalidateCustomerReferenceIntegration))

CustomerDetailPage ==
  Page(Query(queryKeys.customer, customersApi.detail, {})
         \cup Query(queryKeys.customerAccount, customersApi.account, {"commercial-receivables.read"}),
       Command(customersApi.setActive, {"customers.update"}, invalidateCustomerReferenceIntegration))

SalesPage ==
  Page(Query(queryKeys.sales, salesApi.list, {}) \cup CustomerSelector \cup ProductSelector, {})

SaleFormPage(editing) ==
  LET row == IF editing THEN Query(queryKeys.sale, salesApi.detail, {}) ELSE {}
  IN  Page(CustomerSelector \cup ProductSelector \cup LocationSelector \cup row,
           Save(editing, salesApi.create, salesApi.update, queryKeys.sale, {queryKeys.salesRoot}))

SaleDetailPage ==
  LET marks == {queryKeys.sale, queryKeys.salesRoot, queryKeys.receivablesRoot,
                queryKeys.customerAccountsRoot}
                 \cup invalidateInventoryIntegration \cup invalidateCommercialSummary
  IN  Page(Query(queryKeys.sale, salesApi.detail, {})
             \cup Query(queryKeys.saleReturns, salesApi.returns, {"sales.read"}),
           Command(salesApi.post, {"sales.post"}, marks)
             \cup Command(salesApi.cancel, {"sales.update"}, marks))

SaleReturnCreatePage ==
  Page(Query(queryKeys.sale, salesApi.detail, {}) \cup LocationSelector,
       Command(salesApi.createReturn, {}, {queryKeys.saleReturnsRoot, queryKeys.sale}))

SaleReturnDetailPage ==
  Page(Query(queryKeys.saleReturn, salesApi.returnDetail, {}),
       Command(salesApi.postReturn, {"sales.return"},
               {queryKeys.saleReturn, queryKeys.sale, queryKeys.saleReturnsRoot, queryKeys.salesRoot,
                queryKeys.receivablesRoot, queryKeys.customerAccountsRoot}
                 \cup invalidateInventoryIntegration \cup invalidateCommercialSummary))

\* The operations of a sale and of a return are one component; only on the page
\* of a return does it mark a return stale.
FinancialOperations(history, create, ofReturn) ==
  LET marks == {queryKeys.salePaymentsRoot, queryKeys.saleRefundsRoot, queryKeys.salesRoot,
                queryKeys.saleReturnsRoot, queryKeys.receivablesRoot, queryKeys.customerAccountsRoot,
                queryKeys.sale} \cup invalidateCashIntegration \cup ofReturn
  IN  Page(history \cup PaymentMethodSelector \cup OpenCashSessionSelector,
           Command(create, {"payments.create", "payment-methods.read"}, marks)
             \cup Sparing({"purchasePayments"},
                          Command(salesFinanceApi.reverse, {"payments.reverse"}, marks)))

SalePaymentsPage ==
  FinancialOperations(Query(queryKeys.sale, salesApi.detail, {})
                        \cup Query(queryKeys.salePayments, salesFinanceApi.payments, {"payments.read"}),
                      salesFinanceApi.createPayment, {})

SaleRefundsPage ==
  FinancialOperations(Query(queryKeys.saleReturn, salesApi.returnDetail, {})
                        \cup Query(queryKeys.saleRefunds, salesFinanceApi.refunds, {"payments.read"}),
                      salesFinanceApi.createRefund, {queryKeys.saleReturn})

ReceivablesPage ==
  Page(Query(queryKeys.receivables, salesFinanceApi.receivables, {}) \cup CustomerSelector, {})

-----------------------------------------------------------------------------
(* Cash, administration and the dashboard *)

CashRegistersPage == Page(Query(queryKeys.cashRegisters, cashApi.registers, {}), {})

CashRegisterFormPage(editing) ==
  Page(IF editing THEN Query(queryKeys.cashRegister, cashApi.register, {}) ELSE {},
       Save(editing, cashApi.createRegister, cashApi.updateRegister, queryKeys.cashRegister,
            {queryKeys.cashRegistersRoot} \cup invalidateCashIntegration))

CashRegisterDetailPage ==
  Page(Query(queryKeys.cashRegister, cashApi.register, {})
         \cup Query(queryKeys.currentCashSession, cashApi.currentSession, {"cash-sessions.read"}),
       Command(cashApi.setRegisterActive, {"cash-registers.manage"},
               {queryKeys.cashRegister, queryKeys.cashRegistersRoot} \cup invalidateCashIntegration)
         \cup Command(cashApi.openSession, {"cash-sessions.open"},
                      {queryKeys.currentCashSession, queryKeys.cashSessionsRoot}
                        \cup invalidateCommercialSummary))

CashSessionsPage ==
  Page(Query(queryKeys.cashSessions, cashApi.sessions, {}) \cup CashRegisterSelector, {})

\* Without the right to read movements the page shows the session alone.
CashSessionDetailPage ==
  Page(Query(queryKeys.cashSessionSummary, cashApi.summary, {"cash-movements.read"})
         \cup Query(queryKeys.cashMovements, cashApi.movements, {"cash-movements.read"})
         \cup Query(queryKeys.cashSession, cashApi.session, {}),
       Command(cashApi.createMovement, {"cash-movements.create"}, invalidateCashIntegration)
         \cup Command(cashApi.closeSession, {"cash-sessions.close"},
                      {queryKeys.cashSessionSummary, queryKeys.cashSession, queryKeys.cashSessionsRoot,
                       queryKeys.currentCashSession} \cup invalidateCommercialSummary))

CashMovementsPage ==
  Page(Query(queryKeys.cashMovements, cashApi.movements, {}) \cup CashRegisterSelector, {})

UsersPage == Page(Query(queryKeys.users, usersApi.list, {}), {})

UserFormPage(editing) ==
  Page(RoleSelector \cup IF editing THEN Query(queryKeys.user, usersApi.detail, {}) ELSE {},
       Save(editing, usersApi.create, usersApi.update, queryKeys.user, {queryKeys.usersRoot}))

UserDetailPage ==
  LET marks == {queryKeys.user, queryKeys.usersRoot}
  IN  Page(Query(queryKeys.user, usersApi.detail, {}),
           Command(At("users", "activate"), {"users.activate"}, marks)
             \cup Command(At("users", "deactivate"), {"users.deactivate"}, marks))

RolesPage == Page(Query(queryKeys.rolesRoot, rolesApi.list, {}), {})

RoleFormPage(editing) ==
  Page(IF editing THEN Query(queryKeys.role, rolesApi.detail, {}) ELSE {},
       Save(editing, rolesApi.create, rolesApi.update, queryKeys.role,
            {queryKeys.rolesRoot} \cup invalidateUserRoleIntegration))

RoleDetailPage == Page(Query(queryKeys.role, rolesApi.detail, {}), {})

DashboardPage ==
  Page(Query(<<"system-health">>, getSystemHealth, {})
         \cup Query(queryKeys.commercialSummary, getCommercialSummary, {"commercial-summary.read"}), {})

-----------------------------------------------------------------------------
(* AppRoutes: the page of each path and the permission it asks for *)

Route(path, permission, page) == {[path |-> path, permission |-> permission, page |-> page]}

CatalogRoutes ==
  UNION {Route("catalog/products", "products.read", ProductsPage),
         Route("catalog/products/new", "products.create", ProductFormPage(FALSE)),
         Route("catalog/products/:id", "products.read", ProductDetailPage),
         Route("catalog/products/:id/edit", "products.update", ProductFormPage(TRUE)),
         Route("catalog/categories", "products.read", ProductCategoriesPage),
         Route("catalog/brands", "products.read", ProductBrandsPage),
         Route("catalog/attributes", "products.read", ProductAttributesPage),
         Route("vehicles", "vehicles.read", VehiclesPage),
         Route("vehicles/new", "vehicles.create", VehicleFormPage(FALSE)),
         Route("vehicles/:id", "vehicles.read", VehicleDetailPage),
         Route("vehicles/:id/edit", "vehicles.update", VehicleFormPage(TRUE)),
         Route("vehicles/brands", "vehicles.read", VehicleBrandsPage),
         Route("vehicles/models", "vehicles.read", VehicleModelsPage),
         Route("compatibility", "compatibilities.read", CompatibilityPage),
         Route("inventory", "inventory.read", InventoryPage),
         Route("inventory/locations", "locations.read", LocationsPage),
         Route("inventory/movements", "inventory.read", InventoryMovementsPage),
         Route("inventory/transfers", "inventory.transfer", InventoryTransfersPage),
         Route("search", "search.read", SearchPage)}

PurchasingRoutes ==
  UNION {Route("purchasing/suppliers", "suppliers.read", SuppliersPage),
         Route("purchasing/suppliers/new", "suppliers.create", SupplierFormPage(FALSE)),
         Route("purchasing/suppliers/:id", "suppliers.read", SupplierDetailPage),
         Route("purchasing/suppliers/:id/edit", "suppliers.update", SupplierFormPage(TRUE)),
         Route("purchasing/purchases", "purchases.read", PurchasesPage),
         Route("purchasing/purchases/new", "purchases.create", PurchaseFormPage(FALSE)),
         Route("purchasing/purchases/:id", "purchases.read", PurchaseDetailPage),
         Route("purchasing/purchases/:id/edit", "purchases.update", PurchaseFormPage(TRUE)),
         Route("purchasing/purchases/:id/receipts", "purchases.receive", PurchaseReceiptCreatePage),
         Route("purchasing/purchases/:id/returns", "purchases.return", PurchaseReturnCreatePage),
         Route("purchasing/purchases/:id/payments", "purchases.read", PurchasePaymentsPage),
         Route("purchasing/receipts/:id", "purchases.read", PurchaseReceiptDetailPage),
         Route("purchasing/returns/:id", "purchases.read", PurchaseReturnDetailPage),
         Route("commercial/payables", "commercial-payables.read", PayablesPage)}

SalesRoutes ==
  UNION {Route("sales", "sales.read", SalesPage),
         Route("sales/new", "sales.create", SaleFormPage(FALSE)),
         Route("sales/:id", "sales.read", SaleDetailPage),
         Route("sales/:id/edit", "sales.update", SaleFormPage(TRUE)),
         Route("sales/:id/returns", "sales.return", SaleReturnCreatePage),
         Route("sales/:id/payments", "sales.read", SalePaymentsPage),
         Route("sales/returns/:id", "sales.read", SaleReturnDetailPage),
         Route("sales/returns/:id/refunds", "sales.read", SaleRefundsPage),
         Route("sales/customers", "customers.read", CustomersPage),
         Route("sales/customers/new", "customers.create", CustomerFormPage(FALSE)),
         Route("sales/customers/:id", "customers.read", CustomerDetailPage),
         Route("sales/customers/:id/edit", "customers.update", CustomerFormPage(TRUE)),
         Route("commercial/receivables", "commercial-receivables.read", ReceivablesPage)}

CashAndAdminRoutes ==
  UNION {Route("cash/registers", "cash-registers.read", CashRegistersPage),
         Route("cash/registers/new", "cash-registers.manage", CashRegisterFormPage(FALSE)),
         Route("cash/registers/:id", "cash-registers.read", CashRegisterDetailPage),
         Route("cash/registers/:id/edit", "cash-registers.manage", CashRegisterFormPage(TRUE)),
         Route("cash/sessions", "cash-sessions.read", CashSessionsPage),
         Route("cash/sessions/:id", "cash-sessions.read", CashSessionDetailPage),
         Route("cash/movements", "cash-movements.read", CashMovementsPage),
         Route("admin/users", "users.read", UsersPage),
         Route("admin/users/new", "users.create", UserFormPage(FALSE)),
         Route("admin/users/:id", "users.read", UserDetailPage),
         Route("admin/users/:id/edit", "users.update", UserFormPage(TRUE)),
         Route("admin/roles", "roles.read", RolesPage),
         Route("admin/roles/new", "roles.manage", RoleFormPage(FALSE)),
         Route("admin/roles/:id", "roles.read", RoleDetailPage),
         Route("admin/roles/:id/edit", "roles.manage", RoleFormPage(TRUE))}

\* The dashboard asks for no permission of its own.
AppRoutes ==
  Route("dashboard", "", DashboardPage)
    \cup CatalogRoutes \cup PurchasingRoutes \cup SalesRoutes \cup CashAndAdminRoutes
=============================================================================
