SPECIFICATION Spec
CONSTANT Programs <- MCPrograms
INVARIANT LoadInv RootIsWhole
PROPERTY ImplementsImportOrder
CHECK_DEADLOCK FALSE
