----------------------------- MODULE ConfigSaving -----------------------------
(* Saving from the configuration editor: pages of the web console that edit a  *)
(* draft of gobackup.yml, and the server that saves it                         *)
(* (pages/config-editor-page.tsx, api/config-editor.ts, web/config_editor.go).  *)
(* A page keeps its edits as a list of operations on the config it has read,    *)
(* and sends them with the version of that config, a hash of its bytes: here    *)
(* the version is the config.  What a config is, what may be edited in it and   *)
(* what an operation does to it are parameters; ConfigEditing gives them.       *)
EXTENDS Naturals, Sequences

CONSTANTS Pages,         \* the pages open on the editor
          NoConfig,      \* no config read yet; no answer yet; no page
          InitialConfigs, \* what gobackup.yml may hold at the start
          Unloaded,      \* what a load that failed leaves to run: the models as they
                         \* were, or emptied and filled up to the one it refused
          Topics,        \* what the users may have come for, by page: the path of a part
                         \* of the config, and bounds on edits and reads
          Offers(_),     \* the operations a draft offers
          Concerns(_, _), \* whether an operation is one on this part of the config
          Shown(_, _),   \* a draft after an operation
          Noted(_, _),   \* a list of operations after one more
          Overtakes(_, _, _), \* whether an operation replaces one others build on
          Result(_, _),  \* what the server makes of a config and a list of operations
          Rejected,      \* ... when it refuses one of them
          Same(_, _)     \* whether a config, once saved, shows as a draft does

ASSUME EditorAssumption ==
  /\ NoConfig \notin Pages
  /\ \A t \in Topics : DOMAIN t = Pages /\ \A p \in Pages : t[p].edits \in Nat /\ t[p].reads \in Nat

VARIABLES
  file,           \* gobackup.yml
  running,        \* the configuration the daemon has loaded
  writing,        \* the page whose save holds configEditorMu, the file replaced, or
                  \* NoConfig
  previous,       \* what that save has replaced
  committed,      \* the last config saved and loaded (history)
  astray,         \* a rejected file could not be put back since (history)
  cached,         \* query.data.config of each page
  reading,        \* the answer under way to each page: [for, config], to its query
                  \* or to reloadLatest
  draft, version, operations,                  \* the page's own state
  call,           \* its save under way: [stage, version, operations]
  origin,         \* the config its draft was taken from (history)
  clobbered,      \* an operation was replaced that others build on (history)
  topic,          \* what the user of each page edits (bounds the edits)
  edits, reads

editor == <<draft, version, operations, origin, clobbered>>
server == <<file, running, writing, previous, committed, astray>>
bounds == <<topic, reads>>
editorVars == <<server, editor, cached, reading, call, edits, bounds>>

NoSave == [stage |-> "idle"]
Stages == {"idle", "validate", "patch", "restore", "reload", "answered"}

EditorInit ==
  /\ file \in InitialConfigs /\ running = file /\ committed = file
  /\ writing = NoConfig /\ previous = NoConfig /\ astray = FALSE
  /\ cached = [p \in Pages |-> NoConfig]
  /\ reading = [p \in Pages |-> NoConfig]
  /\ draft = [p \in Pages |-> NoConfig] /\ version = [p \in Pages |-> NoConfig]
  /\ operations = [p \in Pages |-> <<>>]
  /\ call = [p \in Pages |-> NoSave]
  /\ origin = [p \in Pages |-> NoConfig] /\ clobbered = [p \in Pages |-> FALSE]
  /\ topic \in Topics
  /\ edits = [p \in Pages |-> 0] /\ reads = [p \in Pages |-> 0]

--------------------------------------------------------------------------------
(* The page.                                                                    *)

\* What setDraft, setVersion and setOperations([]) do together.
Takes(p, config, at) ==
  /\ draft' = [draft EXCEPT ![p] = config]
  /\ version' = [version EXCEPT ![p] = at]
  /\ operations' = [operations EXCEPT ![p] = <<>>]
  /\ origin' = [origin EXCEPT ![p] = config]
  /\ clobbered' = [clobbered EXCEPT ![p] = FALSE]

\* useQuery asks: on mount, when the route is refreshed, on a retry.
Asks(p, for) ==
  /\ reading[p] = NoConfig /\ reads[p] < topic[p].reads
  /\ reading' = [reading EXCEPT ![p] = [for |-> for, config |-> file]]
  /\ reads' = [reads EXCEPT ![p] = @ + 1]
  /\ UNCHANGED <<server, editor, cached, call, edits, topic>>

\* getConfigEditor reads the file without the mutex.
Fetch(p) == Asks(p, "query")

\* "Read again" asks by itself, beside the query.
ReloadLatest(p) == draft[p] # NoConfig /\ Asks(p, "reload")

Answer(p, for) ==
  /\ reading[p] # NoConfig /\ reading[p].for = for
  /\ reading' = [reading EXCEPT ![p] = NoConfig]
  /\ UNCHANGED <<server, call, edits, bounds>>

\* The effect on query.data: a draft with operations is left alone.  An answer
\* equal to the cached one keeps its identity and runs no effect.
ReceiveFetch(p) ==
  /\ Answer(p, "query")
  /\ LET config == reading[p].config IN
     /\ cached' = [cached EXCEPT ![p] = config]
     /\ IF config # cached[p] /\ operations[p] = <<>> THEN Takes(p, config, config)
                                                     ELSE UNCHANGED editor

\* The answer to reloadLatest replaces the draft whatever it holds; the cached one
\* stays.  A read that fails changes nothing.
ReceiveReload(p) ==
  /\ Answer(p, "reload")
  /\ Takes(p, reading[p].config, reading[p].config) \/ UNCHANGED editor
  /\ UNCHANGED cached

\* updateValue and deleteValue.
Edit(p) ==
  /\ draft[p] # NoConfig /\ edits[p] < topic[p].edits
  /\ \E operation \in {o \in Offers(draft[p]) : Concerns(o, topic[p].path)} :
       /\ draft' = [draft EXCEPT ![p] = Shown(@, operation)]
       /\ operations' = [operations EXCEPT ![p] = Noted(@, operation)]
       /\ clobbered' = [clobbered EXCEPT ![p] = @ \/ Overtakes(operations[p], operation, draft[p])]
  /\ edits' = [edits EXCEPT ![p] = @ + 1]
  /\ UNCHANGED <<server, version, origin, cached, reading, call, bounds>>

\* The draft goes back to the cached config; the version stays.
DiscardChanges(p) ==
  /\ operations[p] # <<>>
  /\ Takes(p, cached[p], version[p])
  /\ UNCHANGED <<server, cached, reading, call, edits, bounds>>

\* The dialog with the summary is opened and confirmed: saveChanges works on the
\* version and the operations of that click.  The dialog can be left while the
\* save goes on, and the draft edited.
SaveChanges(p) ==
  /\ call[p] = NoSave /\ operations[p] # <<>>
  /\ call' = [call EXCEPT ![p] = [stage |-> "validate", version |-> version[p],
                                  operations |-> operations[p]]]
  /\ UNCHANGED <<server, editor, cached, reading, edits, bounds>>

\* The answer to the patch: whatever the page holds by then is replaced.
ReceiveSaved(p) ==
  /\ call[p].stage = "answered"
  /\ Takes(p, call[p].config, call[p].config)
  /\ call' = [call EXCEPT ![p] = NoSave]
  /\ UNCHANGED <<server, cached, reading, edits, bounds>>

\* The page is left and opened again: its state is that of the cached answer.
Remount(p) ==
  /\ cached[p] # NoConfig /\ call[p] = NoSave /\ reading[p] = NoConfig
  /\ Takes(p, cached[p], cached[p])
  /\ UNCHANGED <<server, cached, reading, call, edits, bounds>>

--------------------------------------------------------------------------------
(* The server.                                                                  *)

Requests(p, stage) == call[p].stage = stage /\ writing = NoConfig

\* An error ends the save: the draft, the operations and the dialog stay.
Refuse(p) ==
  /\ call' = [call EXCEPT ![p] = NoSave]
  /\ UNCHANGED server

Conflict(p) == call[p].version # file
Updated(p) == Result(file, call[p].operations)

\* validateConfigEditor: all checks of a save, nothing is written.
ServerValidate(p) ==
  /\ Requests(p, "validate")
  /\ \/ Refuse(p)                           \* the document is not valid
     \/ /\ Conflict(p) \/ Updated(p) = Rejected
        /\ Refuse(p)
     \/ /\ ~Conflict(p) /\ Updated(p) # Rejected
        /\ call' = [call EXCEPT ![p] = [stage |-> "patch", version |-> @.version,
                                        operations |-> @.operations]]
        /\ UNCHANGED server
  /\ UNCHANGED <<editor, cached, reading, edits, bounds>>

\* Mutant: only the validation compares the versions.
ServerPatchUnchecked(p) ==
  /\ Requests(p, "patch")
  /\ Updated(p) # Rejected
  /\ file' = Updated(p)
  /\ writing' = p /\ previous' = file
  /\ UNCHANGED <<running, committed, astray, call, editor, cached, reading, edits, bounds>>

\* patchConfigEditor up to replaceConfigFile, under the mutex.
ServerPatch(p) ==
  /\ Requests(p, "patch")
  /\ \/ Refuse(p)                           \* not valid, or the write failed
     \/ /\ Conflict(p) \/ Updated(p) = Rejected
        /\ Refuse(p)
     \/ /\ ~Conflict(p) /\ Updated(p) # Rejected
        /\ file' = Updated(p)
        /\ writing' = p /\ previous' = file
        /\ UNCHANGED <<running, committed, astray, call>>
  /\ UNCHANGED <<editor, cached, reading, edits, bounds>>

Writes(p, stage) == writing = p /\ call[p].stage = stage

\* What loadConfig may leave to run.
Loaded == {file, Unloaded}

\* The mutex is released, with an error.
Fail(p) ==
  /\ writing' = NoConfig /\ previous' = NoConfig
  /\ call' = [call EXCEPT ![p] = NoSave]

\* config.Reload accepts the new file.
LoadSucceeds(p) ==
  /\ Writes(p, "patch")
  /\ running' = file /\ committed' = file /\ astray' = FALSE
  /\ writing' = NoConfig /\ previous' = NoConfig
  /\ call' = [call EXCEPT ![p] = [stage |-> "answered", version |-> @.version,
                                  operations |-> @.operations, config |-> file]]
  /\ UNCHANGED <<file, editor, cached, reading, edits, bounds>>

\* Mutant: the error path leaves the rejected file in place.
LoadFailsUnrestored(p) ==
  /\ Writes(p, "patch")
  /\ running' = Unloaded
  /\ Fail(p)
  /\ UNCHANGED <<file, committed, astray, editor, cached, reading, edits, bounds>>

\* It rejects it: the exact previous bytes are to be put back.
LoadFails(p) ==
  /\ Writes(p, "patch")
  /\ running' = Unloaded
  /\ call' = [call EXCEPT ![p].stage = "restore"]
  /\ UNCHANGED <<file, writing, previous, committed, astray, editor, cached, reading, edits, bounds>>

\* They are.
Restore(p) ==
  /\ Writes(p, "restore")
  /\ file' = previous
  /\ call' = [call EXCEPT ![p].stage = "reload"]
  /\ UNCHANGED <<running, writing, previous, committed, astray, editor, cached, reading, edits, bounds>>

\* They cannot be: the rejected file stays and nothing is loaded.
RestoreFails(p) ==
  /\ Writes(p, "restore")
  /\ astray' = TRUE
  /\ Fail(p)
  /\ UNCHANGED <<file, running, committed, editor, cached, reading, edits, bounds>>

\* What was put back is loaded, or not: the error of this reload is ignored.
ReloadRestored(p) ==
  /\ Writes(p, "reload")
  /\ running' \in Loaded
  /\ Fail(p)
  /\ UNCHANGED <<file, committed, astray, editor, cached, reading, edits, bounds>>

\* The watcher of the file, some time after it was replaced, or POST
\* /config/editor/reload: neither takes the mutex.
Reload ==
  /\ running' \in Loaded
  /\ UNCHANGED <<file, writing, previous, committed, astray, editor, cached, reading, call, edits,
                 bounds>>

PageStep(p) ==
  \/ Fetch(p) \/ ReceiveFetch(p) \/ ReloadLatest(p) \/ ReceiveReload(p)
  \/ Edit(p) \/ DiscardChanges(p)
  \/ SaveChanges(p) \/ ReceiveSaved(p) \/ Remount(p)

ServerStep(p) ==
  \/ ServerValidate(p) \/ ServerPatch(p) \/ LoadSucceeds(p) \/ LoadFails(p)
  \/ Restore(p) \/ RestoreFails(p) \/ ReloadRestored(p)

EditorNext == Reload \/ \E p \in Pages : PageStep(p) \/ ServerStep(p)

EditorSpec == EditorInit /\ [][EditorNext]_editorVars

--------------------------------------------------------------------------------
(* Properties.                                                                  *)

\* Types: what a page holds agrees with how far it has come; the page that holds
\* the mutex is one whose patch is being served.
EditorTypeOK ==
  /\ \A p \in Pages :
       /\ call[p].stage \in Stages
       /\ draft[p] = NoConfig <=> version[p] = NoConfig
       /\ draft[p] = NoConfig => operations[p] = <<>>
  /\ writing # NoConfig => writing \in Pages /\ call[writing].stage \in {"patch", "restore", "reload"}
  /\ topic \in Topics
  /\ \A p \in Pages : edits[p] \in 0..topic[p].edits /\ reads[p] \in 0..topic[p].reads

\* No save overwrites a configuration that its page has not read: between the
\* validation, the patch and the answers to reads no other save is lost
\* (config_editor.go:147).  Only a rejected file that could not be put back is
\* built on like a saved one.
NoLostUpdate ==
  [][\A p \in Pages : writing = p /\ committed' # committed /\ ~astray =>
        call[p].version = committed]_editorVars

\* What the server would make of a page's operations is what the page shows, as
\* long as no operation has taken the place of one that a later one builds on
\* (addOperation, config-editor-page.tsx:282) or has gone below something that is
\* neither a map nor a list, of which the page makes a map (setAtPath, :250) and
\* which the server refuses (setYAMLNode, config_editor.go:574).
SavedIsShown ==
  \A p \in Pages : draft[p] # NoConfig /\ ~clobbered[p] =>
    LET saved == Result(origin[p], operations[p])
    IN  saved # Rejected /\ Same(saved, draft[p])

\* Whenever no save is being written the file is the last configuration that was
\* saved and loaded, unless a rejected one could not be put back; and the daemon
\* runs what the file says, unless its last load of it failed: a rejected
\* configuration leaves nothing else behind (config_editor.go:194).
FileIsRunning ==
  writing = NoConfig => /\ ~astray => file = committed
                        /\ running \in Loaded

\* The request of SavedConfig that a page's save is.
AsRequest(c) ==
  CASE c.stage = "idle"     -> [stage |-> "none"]
    [] c.stage = "answered" -> [stage |-> "answered", config |-> c.config]
    [] OTHER                -> [stage |-> "asked", version |-> c.version, operations |-> c.operations]

\* The config in force: the file, but not yet while a save is written.
InForce == IF writing = NoConfig THEN file ELSE previous

Promised == INSTANCE SavedConfig
  WITH Client <- Pages, InitialValues <- InitialConfigs, Apply <- Result,
       value <- InForce, request <- [p \in Pages |-> AsRequest(call[p])]

\* A save is one step on the config in force: its operations are done to the
\* version its page has sent, once and all of them; the answer is the result, or
\* an error when they had to be undone and could not be.  Or nothing has happened,
\* although the checks, the replaced file, the reload and the way back are steps
\* between which others read, load and save (config_editor.go:147, 194-203).
ImplementsSavedConfig == Promised!Spec
===============================================================================
