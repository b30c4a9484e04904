SPECIFICATION Spec
CONSTANTS
    Programs <- UnionSelect
    Loadable <- MCLoadable
    Storages <- MCStorages
    InitialNodes <- MCInitialNodes
PROPERTIES
    SelectReturns
CHECK_DEADLOCK FALSE
