----------------------------- MODULE ConfigEditing -----------------------------
(* The configuration editor: what its components let a user do to a draft       *)
(* (pages/config-editor-page.tsx and its parts), over the protocol of           *)
(* ConfigSaving and the trees of ConfigTree.                                    *)
EXTENDS ConfigTree, ConfigSaving

CONSTANTS NewModels,     \* the names a user gives to new models
          Values         \* what a user types into a field

--------------------------------------------------------------------------------
(* The edits a draft offers, component by component.                            *)

\* SecretEditor and ScalarEditor: type a value; clear a secret that is set.
FieldEdits(path, node) == {SetOperation(path, Scalar(v)) : v \in Values}
SecretEdits(path, node) ==
  {SetOperation(path, Scalar(v)) : v \in Values}
    \cup {DeleteOperation(path) : x \in {node} \ {Scalar("absent")}}

\* ArrayEditor: change or delete an item, append an empty one.
ArrayEdits(path, node) ==
  LET items == IF IsList(node) THEN node.items ELSE <<>>
      at == {s \in DOMAIN Position : InList(items, s)}
  IN  {SetOperation(Append(path, s), Scalar(v)) : s \in at, v \in Values}
        \cup {DeleteOperation(Append(path, s)) : s \in at}
        \cup {SetOperation(Append(path, "-"), Scalar("")) : x \in {i \in {1} : Len(items) < 3}}

\* ObjectFields: the editor of each entry by what it holds.
RECURSIVE ObjectEdits(_, _)
ObjectEdits(path, node) ==
  UNION {LET at == Append(path, key)
             value == Entries(node)[key]
         IN  CASE IsMap(value)  -> ObjectEdits(at, value)
               [] IsList(value) -> ArrayEdits(at, value)
               [] OTHER         -> FieldEdits(at, value) : key \in DOMAIN Entries(node)}

\* SchemaObjectFields: the fields of the schema with the editor of their type,
\* then what the file has beside them.
FieldType == [every |-> "scalar", includes |-> "array", password |-> "secret", port |-> "scalar"]
SchemaEdits(path, node, fields) ==
  ObjectEdits(path, Mapping([key \in DOMAIN Entries(node) \ fields |-> Entries(node)[key]]))
  \cup UNION {LET at == Append(path, field)
                  value == Child(node, field)
              IN  CASE FieldType[field] = "array"  -> ArrayEdits(at, value)
                    [] FieldType[field] = "secret" -> SecretEdits(at, value)
                    [] OTHER                       -> FieldEdits(at, value) : field \in fields}

\* OptionalSection: enable one that has no content; disable it or edit its fields.
SectionEdits(path, node, defaults, fields) ==
  IF HasContent(node)
  THEN {DeleteOperation(path)} \cup SchemaEdits(path, node, fields)
  ELSE {SetOperation(path, defaults)}

\* DatabaseNameEditor: a name that is typed, or taken from the list of the server.
DatabaseNameEdits(path) == {SetOperation(Append(path, "database"), Scalar(v)) : v \in Values}

DisableAllDatabases(path) == SetOperation(Append(path, "all_databases"), Scalar("false"))

\* DatabaseTableField: a table is moved, typed or taken away, and the whole
\* selection is written; with all databases on there is only the way back.
DatabaseTableEdits(path, database) ==
  LET tables == Child(database, "tables")
      selected == IF IsList(tables) THEN {item.text : item \in ToSet(tables.items)} \ {""} ELSE {}
  IN  IF Child(database, "all_databases") = Scalar("true") THEN {DisableAllDatabases(path)}
      ELSE DatabaseNameEdits(path)
             \cup {SetOperation(Append(path, "tables"), List(SetToSeq({Scalar(t) : t \in next}))) :
                     next \in SUBSET (selected \cup Values) \ {selected}}

\* ProviderCollection: add a database, change its type, edit its fields, delete it.
ProviderEdits(path, node) ==
  {SetOperation(Append(path, name), Mapping([type |-> Scalar("mysql")])) :
     name \in {"main"} \ DOMAIN Entries(node)}
  \cup UNION {LET at == Append(path, name)
                  database == Entries(node)[name]
              IN  {DeleteOperation(at), SetOperation(Append(at, "type"), Scalar("mysql")),
                   SetOperation(Append(at, "all_databases"), Scalar("true"))}
                    \cup DatabaseNameEdits(at) \cup DatabaseTableEdits(at, database)
                    \cup SecretEdits(Append(at, "password"), Child(database, "password")) :
              name \in DOMAIN Entries(node)}

Enabled(every) == Mapping([enabled |-> Scalar("true"), every |-> Scalar(every)])

\* ModelEditor: delete the model, its sections and its databases.
ModelEdits(path, model) ==
  {DeleteOperation(path)}
    \cup SectionEdits(Append(path, "schedule"), Child(model, "schedule"),
                      Mapping([enabled |-> Scalar("true")]), {"every"})
    \cup SectionEdits(Append(path, "archive"), Child(model, "archive"),
                      Mapping([includes |-> List(<<>>)]), {"includes"})
    \cup ProviderEdits(Append(path, "databases"), Child(model, "databases"))

\* ScheduleMatrixView and toggleScheduleEnabled: the whole section is written.
ScheduleToggles(path, model) ==
  {SetOperation(Append(path, "schedule"),
                Mapping(With(Entries(Child(model, "schedule")), "enabled", Scalar(b)))) :
     b \in {"true", "false"}}

\* handleConfirm of the dialog for a connection: its name is one of no model.
ConnectionNames(models) == NewModels \ DOMAIN Entries(models)

NewConnection(name) ==
  Mapping([schedule |-> Enabled("1day"), databases |-> Mapping(name :> Mapping([type |-> Scalar("mysql")]))])

\* addModel and handleCreateConnection: a model of an unused name.
NewModelEdits(models) ==
  {SetOperation(<<"models", name>>, Mapping([archive |-> Mapping([includes |-> List(<<>>)])])) :
     name \in NewModels \ DOMAIN Entries(models)}
  \cup {SetOperation(<<"models", name>>, NewConnection(name)) : name \in ConnectionNames(models)}

\* The basic settings, where the working directory is deleted when empty, and
\* what else the file has at its top.
GlobalEdits(config) ==
  {SetOperation(<<"workdir">>, Scalar(v)) : v \in Values} \cup {DeleteOperation(<<"workdir">>)}
    \cup SchemaEdits(<<"web">>, Child(config, "web"), {"port", "password"})
    \cup ObjectEdits(<<>>, Mapping([key \in DOMAIN Entries(config) \ {"web", "models", "workdir"} |->
                                     Entries(config)[key]]))

Offered(config) ==
  LET models == Child(config, "models")
      Of(name) == LET path == <<"models", name>>
                      model == Entries(models)[name]
                  IN  ModelEdits(path, model) \cup ScheduleToggles(path, model)
  IN  GlobalEdits(config) \cup NewModelEdits(models)
        \cup UNION {Of(name) : name \in DOMAIN Entries(models)}

\* What a user who came for one part of the config edits of it
OfPart(operation, path) == Related(operation.path, path)

\* A map without content shows as one that is not there.
RECURSIVE Content(_)
Content(node) ==
  IF ~IsMap(node) THEN node
  ELSE LET of == [key \in DOMAIN node.entries |-> Content(node.entries[key])]
       IN  Mapping([key \in {k \in DOMAIN of : of[k] # EmptyMap} |-> of[key]])

SameContent(saved, shown) == Content(saved) = Content(shown)

--------------------------------------------------------------------------------
(* What the page says of itself.                                                *)

\* A draft without operations shows the configuration of the version it would
\* save against (config-editor-page.tsx:1819: "discarded").
DiscardShowsCurrent == \A p \in Pages : draft[p] # NoConfig => origin[p] = version[p]
===============================================================================
