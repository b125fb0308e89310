-------------------------------- MODULE GroupOps --------------------------------
(***************************************************************************)
(* Operations that file the elements of a range by key, in one pass:       *)
(* aggregate_by, reduce_by (rows in a vector and an index of their keys),  *)
(* count_by (a map of counts and a vector of its keys), group_by with two  *)
(* keys (nested maps), to_dictionary, to_map and to_unordered_map.         *)
(*                                                                         *)
(* An element is its place.  What a group is reduced to is taken to be the *)
(* sequence of the elements reduced, so that it tells which and in which   *)
(* order.                                                                  *)
(***************************************************************************)
EXTENDS Places

VARIABLES
  groupOp,   \* the operation
  key1,      \* key1[x]: the key of element x
  key2,      \* key2[x]: the second key of element x, of group_by
  filing,    \* the element the loop is at
  index,     \* key_to_idx, the place of the row of a key; counts; or the map to be returned
  groups,    \* groups[j]: a key and its group; while count_by runs, order
  grouping   \* "run", "done" or "thrown"

groupVars == <<groupOp, key1, key2, filing, index, groups, grouping>>

RowKinds == {"aggregate_by", "reduce_by"}
MapKinds == {"to_map", "to_dictionary"}

GroupInit ==
  /\ groupOp \in RowKinds \cup MapKinds \cup {"count_by", "group_by"}
  /\ key1 \in UNION {[1 .. l -> Keys] : l \in 0 .. MaxLen}
  /\ key2 \in IF groupOp = "group_by" THEN [DOMAIN key1 -> Keys] ELSE {key1}
  /\ filing = 1
  /\ index = <<>>
  /\ groups = <<>>
  /\ grouping = "run"

Filing == grouping = "run" /\ filing <= Len(key1)

\* The map f with v at k, new or not.
Put(f, k, v) == [x \in DOMAIN f \cup {k} |-> IF x = k THEN v ELSE f[x]]

\* Fault: each new row takes the place of the first in the index.
NewRowUnindexed ==
  /\ Filing
  /\ groupOp \in RowKinds
  /\ key1[filing] \notin DOMAIN index
  /\ index' = Put(index, key1[filing], 1)
  /\ groups' = Append(groups, [key |-> key1[filing], group |-> <<filing>>])
  /\ filing' = filing + 1
  /\ UNCHANGED <<groupOp, key1, key2, grouping>>

\* A key not met before: a new row, which the index knows by its place.
NewRow ==
  /\ Filing
  /\ groupOp \in RowKinds
  /\ key1[filing] \notin DOMAIN index
  /\ index' = Put(index, key1[filing], Len(groups) + 1)
  /\ groups' = Append(groups, [key |-> key1[filing], group |-> <<filing>>])
  /\ filing' = filing + 1
  /\ UNCHANGED <<groupOp, key1, key2, grouping>>

OldRow ==
  /\ Filing
  /\ groupOp \in RowKinds
  /\ key1[filing] \in DOMAIN index
  /\ groups' = [groups EXCEPT ![index[key1[filing]]] =
                              [key |-> key1[filing], group |-> Append(@.group, filing)]]
  /\ filing' = filing + 1
  /\ UNCHANGED <<groupOp, key1, key2, index, grouping>>

At(f, k, none) == IF k \in DOMAIN f THEN f[k] ELSE none

\* counts.try_emplace(k, 0), order.push_back(k) if that was new, ++count
Count ==
  /\ Filing
  /\ groupOp = "count_by"
  /\ index' = Put(index, key1[filing], Append(At(index, key1[filing], <<>>), filing))
  /\ groups' = IF key1[filing] \in DOMAIN index THEN groups ELSE Append(groups, key1[filing])
  /\ filing' = filing + 1
  /\ UNCHANGED <<groupOp, key1, key2, grouping>>

\* group_by_impl::emplace: handle[k0][k1].emplace_back(val)
Emplace ==
  /\ Filing
  /\ groupOp = "group_by"
  /\ LET inner == At(index, key1[filing], <<>>)
         leaf == At(inner, key2[filing], <<>>)
     IN  index' = Put(index, key1[filing], Put(inner, key2[filing], Append(leaf, filing)))
  /\ filing' = filing + 1
  /\ UNCHANGED <<groupOp, key1, key2, groups, grouping>>

\* to_map and to_unordered_map: (*owner)[k] = v. to_dictionary: emplace.
EnterMap ==
  /\ Filing
  /\ groupOp \in MapKinds
  /\ groupOp = "to_dictionary" => key1[filing] \notin DOMAIN index
  /\ index' = Put(index, key1[filing], filing)
  /\ filing' = filing + 1
  /\ UNCHANGED <<groupOp, key1, key2, groups, grouping>>

\* to_dictionary: std::invalid_argument.
Duplicate ==
  /\ Filing
  /\ groupOp = "to_dictionary"
  /\ key1[filing] \in DOMAIN index
  /\ grouping' = "thrown"
  /\ UNCHANGED <<groupOp, key1, key2, filing, index, groups>>

\* count_by makes its rows of the keys in order and their counts.
GroupReturn ==
  /\ grouping = "run"
  /\ filing > Len(key1)
  /\ grouping' = "done"
  /\ groups' =
       IF groupOp = "count_by"
       THEN [j \in DOMAIN groups |-> [key |-> groups[j], group |-> index[groups[j]]]]
       ELSE groups
  /\ UNCHANGED <<groupOp, key1, key2, filing, index>>

GroupNext == NewRow \/ OldRow \/ Count \/ Emplace \/ EnterMap \/ Duplicate \/ GroupReturn

GroupSpec == GroupInit /\ [][GroupNext]_groupVars

-----------------------------------------------------------------------------
RowsCorrect ==
  /\ \A j \in DOMAIN groups : Lists(groups[j].group, {x \in DOMAIN key1 : key1[x] = groups[j].key})
  /\ {groups[j].key : j \in DOMAIN groups} = {key1[x] : x \in DOMAIN key1}
  /\ \A j \in 1 .. Len(groups) - 1 : groups[j].group[1] < groups[j + 1].group[1]

TreeCorrect ==
  /\ DOMAIN index = {key1[x] : x \in DOMAIN key1}
  /\ \A k \in DOMAIN index :
       /\ DOMAIN index[k] = {key2[x] : x \in {x \in DOMAIN key1 : key1[x] = k}}
       /\ \A k2 \in DOMAIN index[k] :
            Lists(index[k][k2], {x \in DOMAIN key1 : key1[x] = k /\ key2[x] = k2})

MapCorrect ==
  /\ DOMAIN index = {key1[x] : x \in DOMAIN key1}
  /\ \A k \in DOMAIN index :
       key1[index[k]] = k /\ \A x \in DOMAIN key1 : key1[x] = k => x <= index[k]

\* Each group holds the elements with its key(s) and no others, in their order;
\* rows come in the order their keys are first met; of elements with the same
\* key to_map keeps the last, and to_dictionary, only then, refuses.
GroupCorrect ==
  /\ grouping = "done" =>
       /\ groupOp \in RowKinds \cup {"count_by"} => RowsCorrect
       /\ groupOp = "group_by" => TreeCorrect
       /\ groupOp \in MapKinds => MapCorrect
  /\ groupOp = "to_dictionary" =>
       /\ grouping = "thrown" => ~IsInjective(key1)
       /\ grouping = "done" => IsInjective(key1)
=============================================================================
