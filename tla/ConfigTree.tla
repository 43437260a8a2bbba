------------------------------ MODULE ConfigTree ------------------------------
(* The configuration as the editor sees it: a tree of maps, lists and scalars.  *)
(* A path is the sequence of the segments of a JSON pointer.  The page applies  *)
(* an edit to its draft with SetAt and DeleteAt (config-editor-page.tsx); the   *)
(* server applies the list of operations it is sent with ServerSet and          *)
(* ServerDelete (config_editor.go), which refuse what the page lets pass.       *)
EXTENDS Naturals, SequencesExt

Scalar(text) == [kind |-> "scalar", text |-> text]
Mapping(entries) == [kind |-> "map", entries |-> entries]
List(items) == [kind |-> "list", items |-> items]
EmptyMap == Mapping(<<>>)
Refused == [kind |-> "refused"]

IsMap(node) == node.kind = "map"
IsList(node) == node.kind = "list"

\* What valuesAsObject gives: the entries of a map, none of anything else.
Entries(node) == IF IsMap(node) THEN node.entries ELSE <<>>
Child(node, key) == IF key \in DOMAIN Entries(node) THEN Entries(node)[key] ELSE Scalar("absent")
HasContent(node) == DOMAIN Entries(node) # {}

With(entries, key, node) == (key :> node) @@ entries
Without(entries, key) == [other \in DOMAIN entries \ {key} |-> entries[other]]

\* A segment that selects an item of a list; the page shows at most these.
Position == [segment \in {"0", "1", "2"} |->
              CASE segment = "0" -> 1 [] segment = "1" -> 2 [] OTHER -> 3]
InList(items, segment) == segment \in DOMAIN Position /\ Position[segment] <= Len(items)

\* The value of a path, Scalar("absent") where there is none.
RECURSIVE ValueAt(_, _)
ValueAt(node, path) ==
  IF path = <<>> THEN node
  ELSE IF IsList(node) /\ InList(node.items, Head(path))
       THEN ValueAt(node.items[Position[Head(path)]], Tail(path))
       ELSE IF IsMap(node) /\ Head(path) \in DOMAIN node.entries
            THEN ValueAt(node.entries[Head(path)], Tail(path))
            ELSE Scalar("absent")

--------------------------------------------------------------------------------
(* The page.                                                                    *)

\* A step below something that is neither map nor list makes it an empty map.
Container(node) == IF IsMap(node) \/ IsList(node) THEN node ELSE EmptyMap

RECURSIVE SetAt(_, _, _)
SetAt(node, path, value) ==
  IF path = <<>> THEN value
  ELSE LET segment == Head(path) IN
       CASE IsList(node) /\ segment = "-" -> List(Append(node.items, value))
         [] IsList(node) /\ InList(node.items, segment) ->
              LET at == Position[segment]
                  child == IF Len(path) = 1 THEN node.items[at] ELSE Container(node.items[at])
              IN  List([node.items EXCEPT ![at] = SetAt(child, Tail(path), value)])
         [] IsMap(node) ->
              LET child == Container(Child(node, segment))
              IN  Mapping(With(node.entries, segment, SetAt(child, Tail(path), value)))
         [] OTHER -> node

RECURSIVE DeleteAt(_, _)
DeleteAt(node, path) ==
  LET segment == Head(path) IN
  CASE IsList(node) /\ InList(node.items, segment) ->
         LET at == Position[segment]
         IN  IF Len(path) = 1 THEN List(RemoveAt(node.items, at))
             ELSE List([node.items EXCEPT ![at] = DeleteAt(node.items[at], Tail(path))])
    [] IsMap(node) /\ segment \in DOMAIN node.entries ->
         IF Len(path) = 1 THEN Mapping(Without(node.entries, segment))
         ELSE Mapping(With(node.entries, segment, DeleteAt(node.entries[segment], Tail(path))))
    [] OTHER -> node

--------------------------------------------------------------------------------
(* The server.                                                                  *)

\* The map or list with its child replaced, Refused when the child is.
Replaced(child, whole) == IF child = Refused THEN Refused ELSE whole

RECURSIVE ServerSet(_, _, _)
ServerSet(node, path, value) ==
  IF path = <<>> THEN value
  ELSE LET segment == Head(path) IN
       CASE IsList(node) /\ segment = "-" /\ Len(path) = 1 -> List(Append(node.items, value))
         [] IsList(node) /\ InList(node.items, segment) ->
              LET child == ServerSet(node.items[Position[segment]], Tail(path), value)
              IN  Replaced(child, List([node.items EXCEPT ![Position[segment]] = child]))
         [] IsMap(node) ->
              LET old == IF segment \in DOMAIN node.entries THEN node.entries[segment] ELSE EmptyMap
                  child == ServerSet(old, Tail(path), value)
              IN  Replaced(child, Mapping(With(node.entries, segment, child)))
         [] OTHER -> Refused

RECURSIVE ServerDelete(_, _)
ServerDelete(node, path) ==
  LET segment == Head(path) IN
  CASE IsList(node) /\ InList(node.items, segment) ->
         IF Len(path) = 1 THEN List(RemoveAt(node.items, Position[segment]))
         ELSE LET child == ServerDelete(node.items[Position[segment]], Tail(path))
              IN  Replaced(child, List([node.items EXCEPT ![Position[segment]] = child]))
    [] IsMap(node) /\ segment \notin DOMAIN node.entries -> node
    [] IsMap(node) /\ segment \in DOMAIN node.entries ->
         IF Len(path) = 1 THEN Mapping(Without(node.entries, segment))
         ELSE LET child == ServerDelete(node.entries[segment], Tail(path))
              IN  Replaced(child, Mapping(With(node.entries, segment, child)))
    [] OTHER -> Refused

--------------------------------------------------------------------------------
(* Operations and lists of operations.                                          *)

SetOperation(path, value) == [op |-> "set", path |-> path, value |-> value]
DeleteOperation(path) == [op |-> "delete", path |-> path]

Edited(draft, operation) ==
  IF operation.op = "set" THEN SetAt(draft, operation.path, operation.value)
                          ELSE DeleteAt(draft, operation.path)

\* Mutant: the operation that is there already is kept.
AddOperationOnce(operations, operation) ==
  IF \E i \in DOMAIN operations : operations[i].path = operation.path THEN operations
  ELSE Append(operations, operation)

\* An append is added; any other operation takes the place of one of its path.
AddOperation(operations, operation) ==
  LET same == {i \in DOMAIN operations : operations[i].path = operation.path}
  IN  IF Last(operation.path) = "-" \/ same = {} THEN Append(operations, operation)
      ELSE [operations EXCEPT ![Min(same)] = operation]

\* One operation that is refused refuses the list.
ServerApply(config, operations) ==
  LET Step(sofar, operation) ==
        IF sofar = Refused THEN Refused
        ELSE IF operation.op = "set" THEN ServerSet(sofar, operation.path, operation.value)
                                     ELSE ServerDelete(sofar, operation.path)
  IN  FoldLeft(Step, config, operations)

\* One of two paths is a prefix of the other.
Related(path, other) == IsPrefix(path, other) \/ IsPrefix(other, path)

\* Something on the way to the path is neither a map nor a list.
Blocked(config, path) ==
  \E n \in 1..(Len(path) - 1) :
    LET node == ValueAt(config, SubSeq(path, 1, n))
    IN  node # Scalar("absent") /\ ~IsMap(node) /\ ~IsList(node)

\* Adding the operation changes one that a later operation builds on, or a
\* deletion that has moved the items of a list: the list of operations then says
\* something else than the edits did in the order they were made.
Reorders(operations, operation, config) ==
  /\ Last(operation.path) # "-"
  /\ \E i \in DOMAIN operations :
       /\ operations[i].path = operation.path
       /\ LET later == SubSeq(operations, i + 1, Len(operations))
              siblings == Front(operation.path)
          IN  \/ \E other \in ToSet(later) : Related(other.path, operation.path)
              \/ /\ IsList(ValueAt(config, siblings))
                 /\ \/ "delete" \in {operation.op, operations[i].op}
                    \/ \E other \in ToSet(later) : IsPrefix(siblings, other.path)

\* The edits that the page and the server do not agree on.
Clobbers(operations, operation, config) ==
  Blocked(config, operation.path) \/ Reorders(operations, operation, config)
===============================================================================
