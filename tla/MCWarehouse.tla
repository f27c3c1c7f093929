---------------------------- MODULE MCWarehouse ----------------------------
(* Warehouse on one product and two locations, one document of each kind.   *)
EXTENDS Warehouse

WarehouseRefs == PurchasingRefs \cup SalesRefs
=============================================================================
