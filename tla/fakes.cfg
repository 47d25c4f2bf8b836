CONSTANTS
    Id = {a, b, c}
    Supplier = Supplier
    KeySet = {ka, kb}
    SupplierKeys = SupplierKeys
    Null = Null
SPECIFICATION Spec
INVARIANTS IndexInRange SupplierAuthenticates DbInv
