---------------------------- MODULE SharedStates ----------------------------
(***************************************************************************)
(* Shared states and the statements on them: the registry                    *)
(* (core/shared_state.go), CREATE, DROP, UPDATE, SAVE and LOAD STATE          *)
(* (bql/topology_builder.go), and the two storages, in memory                *)
(* (bql/udf/uds_storage.go) and in files (server/udsstorage/fs.go).           *)
(*                                                                         *)
(* Goroutines execute the statements of a program one after the other, as     *)
(* the handlers of the server do.  What a method does with its mutex locked   *)
(* is one step.  All statements are about one name and one tag.              *)
(*                                                                         *)
(* A state (external) has a type; the types in Loadable have a Load method.  *)
(* Its content is a number: 0 when created, a new one for every update.       *)
(***************************************************************************)
EXTENDS Naturals, Sequences, FiniteSets

CONSTANTS
    Programs,       \* a program: goroutine -> the statements it executes
    Loadable,       \* the types of states with a Load method
    Storages        \* {"memory", "files"}, or one of them

VARIABLES
    prog,       \* the program
    at,         \* goroutine -> the number of its statement
    pc,         \* goroutine -> where the statement is
    loc,        \* goroutine -> local variables: the instance st, the content val
    reg,        \* registry: None, or the instance and type of the state
    inst,       \* the instances: type, content, number of Terminate calls, valid name
    updates,    \* the number of updates
    storage,    \* which storage is used
    file,       \* the stored content, or None
    temp,       \* goroutine -> the content of the writer's buffer or temporary file, or None
    committed,  \* history: the content of the last SAVE that succeeded, or None
    commitFailed, crashed   \* history

stmtVars == <<at, pc, loc>>
regVars == <<reg, inst, updates>>
storeVars == <<file, temp, committed, commitFailed>>
stateVars == <<prog, stmtVars, regVars, storage, storeVars, crashed>>

None == [none |-> TRUE]
Goroutines == DOMAIN prog
Stmt(g) == prog[g][at[g]]
IsRunning(g, op) == at[g] <= Len(prog[g]) /\ Stmt(g).op = op
NoLocals == [st |-> 0, val |-> 0]

StateInit ==
    /\ prog \in Programs
    /\ at = [g \in DOMAIN prog |-> 1]
    /\ pc = [g \in DOMAIN prog |-> "start"]
    /\ loc = [g \in DOMAIN prog |-> NoLocals]
    /\ reg = None /\ inst = <<>> /\ updates = 0
    /\ storage \in Storages
    /\ file = None /\ temp = [g \in DOMAIN prog |-> None]
    /\ committed = None /\ commitFailed = FALSE /\ crashed = FALSE

\* The statement of g returns; the next one starts with fresh locals.
Return(g) ==
    /\ at' = [at EXCEPT ![g] = @ + 1]
    /\ pc' = [pc EXCEPT ![g] = "start"]
    /\ loc' = [loc EXCEPT ![g] = NoLocals]

Goto(g, label, locals) ==
    /\ pc' = [pc EXCEPT ![g] = label]
    /\ loc' = [loc EXCEPT ![g] = locals]
    /\ UNCHANGED at

HasState == reg # None
Instance(type, val, valid) == [type |-> type, val |-> val, terms |-> 0, valid |-> valid]

-----------------------------------------------------------------------------
(* CREATE STATE                                                             *)

\* CreateState of the type's creator, which may fail.
CreateInstance(g) ==
    \/ Return(g) /\ UNCHANGED regVars
    \/ /\ inst' = Append(inst, Instance(Stmt(g).type, 0, Stmt(g).valid))
       /\ Goto(g, "add", [NoLocals EXCEPT !.st = Len(inst')])
       /\ UNCHANGED <<reg, updates>>

CreateState(g) ==
    /\ IsRunning(g, "createState") /\ pc[g] = "start"
    /\ CreateInstance(g)
    /\ UNCHANGED <<prog, storage, storeVars, crashed>>

\* Mutant: a state that cannot be added is just forgotten.
MAdd(g) ==
    /\ pc[g] = "add"
    /\ Return(g)
    /\ reg' = IF Stmt(g).valid /\ ~HasState THEN [st |-> loc[g].st, type |-> Stmt(g).type] ELSE reg
    /\ UNCHANGED <<prog, inst, updates, storage, storeVars, crashed>>

\* A state with a name that is taken is terminated; one with an invalid name is not.
Add(g) ==
    /\ pc[g] = "add"
    /\ \/ ~Stmt(g).valid /\ Return(g) /\ UNCHANGED reg
       \/ Stmt(g).valid /\ HasState /\ Goto(g, "terminate", loc[g]) /\ UNCHANGED reg
       \/ /\ Stmt(g).valid /\ ~HasState
          /\ reg' = [st |-> loc[g].st, type |-> Stmt(g).type]
          /\ Return(g)
    /\ UNCHANGED <<prog, inst, updates, storage, storeVars, crashed>>

Terminated(st) == inst' = [inst EXCEPT ![st].terms = @ + 1]

Terminate(g) ==
    /\ pc[g] = "terminate"
    /\ Terminated(loc[g].st)
    /\ Return(g)
    /\ UNCHANGED <<prog, reg, updates, storage, storeVars, crashed>>

-----------------------------------------------------------------------------
(* DROP STATE, and UPDATE STATE or a tuple written by a sharedStateSink.       *)

\* Get: the statement fails when the registry has no state of the name.
Get(g, op, label) ==
    /\ IsRunning(g, op) /\ pc[g] = "start"
    /\ IF HasState THEN Goto(g, label, [NoLocals EXCEPT !.st = reg.st]) ELSE Return(g)
    /\ UNCHANGED <<prog, regVars, storage, storeVars, crashed>>

DropState(g) == Get(g, "dropState", "remove")

\* Remove of the registry takes whatever state has the name by now.
Remove(g) ==
    /\ pc[g] = "remove"
    /\ \/ ~HasState /\ Return(g) /\ UNCHANGED reg
       \/ /\ HasState
          /\ reg' = None
          /\ Goto(g, "terminate", [NoLocals EXCEPT !.st = reg.st])
    /\ UNCHANGED <<prog, inst, updates, storage, storeVars, crashed>>

UpdateState(g) == Get(g, "updateState", "update")

\* The state may have been terminated meanwhile; it then returns an error.
Update(g) ==
    /\ pc[g] = "update"
    /\ Return(g)
    /\ \/ /\ inst[loc[g].st].terms = 0
          /\ updates' = updates + 1
          /\ inst' = [inst EXCEPT ![loc[g].st].val = updates']
       \/ inst[loc[g].st].terms > 0 /\ UNCHANGED <<updates, inst>>
    /\ UNCHANGED <<prog, reg, storage, storeVars, crashed>>

-----------------------------------------------------------------------------
(* SAVE STATE                                                               *)

SaveState(g) == Get(g, "saveState", "open")

\* Save of the storage: a buffer, or a temporary file of its own.
Open(g) ==
    /\ pc[g] = "open"
    /\ temp' = [temp EXCEPT ![g] = [val |-> 0, complete |-> FALSE]]
    /\ Goto(g, "save", loc[g])
    /\ UNCHANGED <<prog, regVars, storage, file, committed, commitFailed, crashed>>

\* Mutants: what is already written is committed; the target is removed.
MSaveCommits(g) ==
    /\ pc[g] = "save"
    /\ \/ /\ Return(g)
          /\ file' = [temp[g] EXCEPT !.val = inst[loc[g].st].val]
          /\ temp' = [temp EXCEPT ![g] = None]
       \/ /\ temp' = [temp EXCEPT ![g] = [val |-> inst[loc[g].st].val, complete |-> TRUE]]
          /\ Goto(g, "commit", loc[g]) /\ UNCHANGED file
    /\ UNCHANGED <<prog, regVars, storage, committed, commitFailed, crashed>>

\* Save of the state, which may fail halfway (or find itself terminated): Abort.
Save(g) ==
    /\ pc[g] = "save"
    /\ \/ Return(g) /\ temp' = [temp EXCEPT ![g] = None]
       \/ /\ inst[loc[g].st].terms = 0
          /\ temp' = [temp EXCEPT ![g] = [val |-> inst[loc[g].st].val, complete |-> TRUE]]
          /\ Goto(g, "commit", loc[g])
    /\ UNCHANGED <<prog, regVars, storage, file, committed, commitFailed, crashed>>

\* Flushing, closing or renaming the file may fail; the temporary file then stays.
Commit(g) ==
    /\ pc[g] = "commit"
    /\ Return(g)
    /\ \/ /\ file' = temp[g] /\ committed' = temp[g]
          /\ temp' = [temp EXCEPT ![g] = None]
          /\ UNCHANGED commitFailed
       \/ /\ storage = "files"
          /\ commitFailed' = TRUE
          /\ UNCHANGED <<file, committed, temp>>
    /\ UNCHANGED <<prog, regVars, storage, crashed>>

-----------------------------------------------------------------------------
(* LOAD STATE [OR CREATE IF NOT SAVED]                                        *)

LoadState(g) ==
    /\ IsRunning(g, "loadState") /\ pc[g] = "start"
    /\ \/ /\ file = None /\ ~Stmt(g).orCreate
          /\ Return(g) /\ UNCHANGED regVars
       \/ /\ file = None /\ Stmt(g).orCreate
          /\ CreateInstance(g)
       \/ /\ file # None
          /\ Goto(g, "getState", [NoLocals EXCEPT !.val = file.val])
          /\ UNCHANGED regVars
    /\ UNCHANGED <<prog, storage, storeVars, crashed>>

GetState(g) ==
    /\ pc[g] = "getState"
    /\ IF HasState THEN Goto(g, "getType", [loc[g] EXCEPT !.st = reg.st])
                   ELSE Goto(g, "loadNew", loc[g])
    /\ UNCHANGED <<prog, regVars, storage, storeVars, crashed>>

GetType(g) ==
    /\ pc[g] = "getType"
    /\ IF ~HasState THEN Return(g)
       ELSE IF reg.type # Stmt(g).type THEN Return(g)
       ELSE Goto(g, IF inst[loc[g].st].type \in Loadable THEN "loadInto" ELSE "loadNew", loc[g])
    /\ UNCHANGED <<prog, regVars, storage, storeVars, crashed>>

LoadInto(g) ==
    /\ pc[g] = "loadInto"
    /\ Return(g)
    /\ inst' = IF inst[loc[g].st].terms = 0 THEN [inst EXCEPT ![loc[g].st].val = loc[g].val] ELSE inst
    /\ UNCHANGED <<prog, reg, updates, storage, storeVars, crashed>>

\* LoadState of the type's loader, which may fail.
LoadNew(g) ==
    /\ pc[g] = "loadNew"
    /\ \/ Return(g) /\ UNCHANGED inst
       \/ /\ inst' = Append(inst, Instance(Stmt(g).type, loc[g].val, TRUE))
          /\ Goto(g, "replace", [loc[g] EXCEPT !.st = Len(inst')])
    /\ UNCHANGED <<prog, reg, updates, storage, storeVars, crashed>>

Replace(g) ==
    /\ pc[g] = "replace"
    /\ \/ /\ HasState /\ reg.type # Stmt(g).type
          /\ Terminated(loc[g].st)
          /\ Return(g) /\ UNCHANGED reg
       \/ /\ HasState /\ reg.type = Stmt(g).type
          /\ reg' = [st |-> loc[g].st, type |-> Stmt(g).type]
          /\ Goto(g, "terminate", [NoLocals EXCEPT !.st = reg.st]) /\ UNCHANGED inst
       \/ /\ ~HasState
          /\ reg' = [st |-> loc[g].st, type |-> Stmt(g).type]
          /\ Return(g) /\ UNCHANGED inst
    /\ UNCHANGED <<prog, updates, storage, storeVars, crashed>>

-----------------------------------------------------------------------------
(* The process dies and is started again: only files remain.  In the storage   *)
(* in memory a Load that reads the map of states while Commit writes it kills   *)
(* the process, too: the two lock different mutexes.                          *)

Crash ==
    /\ ~crashed /\ \E g \in Goroutines : pc[g] # "start"
    /\ crashed' = TRUE
    /\ at' = [g \in Goroutines |-> IF pc[g] = "start" THEN at[g] ELSE at[g] + 1]
    /\ pc' = [g \in Goroutines |-> "start"]
    /\ loc' = [g \in Goroutines |-> NoLocals]
    /\ reg' = None /\ inst' = <<>>
    /\ file' = IF storage = "files" THEN file ELSE None
    /\ committed' = IF storage = "files" THEN committed ELSE None
    /\ temp' = IF storage = "files" THEN temp ELSE [g \in Goroutines |-> None]
    /\ UNCHANGED <<prog, updates, storage, commitFailed>>

StateStep(g) ==
    \/ CreateState(g) \/ Add(g) \/ Terminate(g) \/ DropState(g) \/ Remove(g)
    \/ UpdateState(g) \/ Update(g)
    \/ SaveState(g) \/ Open(g) \/ Save(g) \/ Commit(g)
    \/ LoadState(g) \/ GetState(g) \/ GetType(g) \/ LoadInto(g) \/ LoadNew(g) \/ Replace(g)

-----------------------------------------------------------------------------
(* Properties                                                               *)

\* Terminate "doesn't have to be idempotent": DROP, LOAD and a CREATE whose name is taken
\* call it at most once for every instance, and the state that the registry hands out is
\* not one that was terminated.
TerminatedOnce ==
    /\ \A i \in DOMAIN inst : inst[i].terms <= 1
    /\ HasState => inst[reg.st].terms = 0

\* No instance is lost: one that is not terminated is in the registry or in the hands
\* of a statement that registers or terminates it ("The caller doesn't have to call
\* Terminate on failure").  The exception is a name that Add finds invalid.
NoStateLost ==
    \A i \in DOMAIN inst :
        \/ inst[i].terms > 0 \/ ~inst[i].valid
        \/ HasState /\ reg.st = i
        \/ \E g \in Goroutines : pc[g] \in {"add", "replace", "terminate"} /\ loc[g].st = i

\* "The type name must be same as the previous state's type name": the registered type
\* is the type of the instance, although LOAD checks it before it makes the instance.
TypesAgree == HasState => inst[reg.st].type = reg.type

\* No instance of a state is terminated twice, lost or registered under another type,
\* whichever of CREATE, DROP and LOAD overlap or fail.
StatesKept == TerminatedOnce /\ NoStateLost /\ TypesAgree

\* What is stored is always what the last successful SAVE wrote, completely, whatever
\* SAVE failed or was cut off by a crash since ("Save doesn't discard the previously
\* saved data until UDSStorageWriter.Commit is called").
StoredIsCommitted == file = committed /\ (file # None => file.complete)

\* A temporary file goes with its SAVE, unless the process died or the commit failed.
TempFilesGo ==
    \A g \in Goroutines :
        temp[g] # None => pc[g] \in {"save", "commit"} \/ crashed \/ commitFailed

\* A SAVE is all or nothing: it commits a complete file or leaves the previous one, and
\* no temporary file stays.
SavedIsKept == StoredIsCommitted /\ TempFilesGo
=============================================================================
