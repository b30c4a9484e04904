SPECIFICATION Spec
CONSTANTS
    Programs <- MCPrograms
    Loadable <- MCLoadable
    Storages <- MCStorages
    InitialNodes <- MCInitialNodes
CHECK_DEADLOCK FALSE
INVARIANTS StatesKept SavedIsKept NothingLeftBehind InputsConnected
 
