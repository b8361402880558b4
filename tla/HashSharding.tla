------------------------------ MODULE HashSharding ------------------------------
(***************************************************************************)
(* The ShardingManager of src/distributed_systems/sharding/hash_sharding.cpp*)
(*                                                                         *)
(* A Node is a record [nodeId, data], data a function from the keys it     *)
(* stores to their values; the manager's nodes vector is a sequence of     *)
(* Nodes.  std::hash<std::string> is a fixed function hash from keys to    *)
(* naturals, given by the caller; only its residues modulo the vector's    *)
(* sizes matter.  putData and getData route a key to node                  *)
(* hash(key) % nodes.size(); with an empty vector that is a division by    *)
(* zero, which the callers below see as Route = NoRoute.                   *)
(***************************************************************************)
EXTENDS Naturals, Sequences, SequencesExt

\* the string retrieveData returns for a key the node does not hold
NotFound == "Key not found!"

\* the route of an empty vector: hash % 0 is undefined (SIGFPE on x86)
NoRoute == 0

\* Node(id): a node with no data
NewNode(id) == [nodeId |-> id, data |-> [k \in {} |-> NotFound]]

\* Node::storeData: data[key] = value
StoreData(node, k, v) ==
    [node EXCEPT !.data = [x \in DOMAIN @ \cup {k} |-> IF x = k THEN v ELSE @[x]]]

\* Node::retrieveData
RetrieveData(node, k) == IF k \in DOMAIN node.data THEN node.data[k] ELSE NotFound

\* ShardingManager(nodeIds)
NewManager(ids) == [i \in 1..Len(ids) |-> NewNode(ids[i])]

\* the position (1-based) of hash(key) % nodes.size(), or NoRoute
Route(nodes, hash, k) == IF nodes = <<>> THEN NoRoute ELSE (hash[k] % Len(nodes)) + 1

\* putData(key, value), on a non-empty vector
PutData(nodes, hash, k, v) ==
    LET i == Route(nodes, hash, k) IN [nodes EXCEPT ![i] = StoreData(@, k, v)]

\* getData(key), on a non-empty vector
GetData(nodes, hash, k) == RetrieveData(nodes[Route(nodes, hash, k)], k)

\* addNode(nodeId)
AddNode(nodes, id) == Append(nodes, NewNode(id))

\* removeNode(nodeId): erase the first node with the id, and its data
RemoveNode(nodes, id) ==
    LET i == SelectInSeq(nodes, LAMBDA n : n.nodeId = id)
    IN  IF i = 0 THEN nodes ELSE RemoveAt(nodes, i)

=============================================================================
