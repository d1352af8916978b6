------------------------------ MODULE Quantizer ------------------------------
(***************************************************************************)
(* quantize_model (quantize.rs) as a rewriting of the model's graph: the     *)
(* large float weights of MatMul, Conv and Gemm nodes are replaced by an     *)
(* INT8 tensor, its scales, its zero points and a node that dequantizes      *)
(* them.                                                                   *)
(*                                                                         *)
(* A name is a pair of what it is and of what: <<"scale", w>> stands for the *)
(* name of w followed by "_scale".  The numbers in the tensors are left out; *)
(* a tensor is told by what the code asks of it.  The order of the tensors   *)
(* in a graph has no meaning: there, and in the vector of new ones, it is    *)
(* counted how many have a name.                                            *)
(***************************************************************************)
EXTENDS Naturals, Sequences, Functions

CONSTANTS
    Weights,    \* initializers of the model that is read
    Kinds,      \* what they may be
    NumNodes,   \* its nodes
    Arity       \* inputs of a node

\* large     FLOAT, 1024 elements or more       small   fewer, or another type
\* mismatch  large, but its data do not fit its shape
\* nodata    large, but it has no data of its own, or not whole floats
ASSUME QuantizerAssumption ==
    /\ Kinds \subseteq {"large", "small", "mismatch", "nodata"}
    /\ NumNodes \in Nat
    /\ Arity \in Nat \ {0}

VARIABLES
    pc,         \* "running", "done" or "failed"
    kind,       \* of each weight
    nodes,      \* graph.node
    inits,      \* graph.initializer
    ni, ii,     \* the node and the input that are looked at next
    targets,    \* where a weight is to be replaced: <<node, input>>
    next,       \* the target the loop is at
    seen,       \* quantized_names
    newNodes,   \* new_nodes
    newInits,   \* new_initializers
    original    \* history: the nodes that were read

vars == <<pc, kind, nodes, inits, ni, ii, targets, next, seen, newNodes, newInits, original>>

Activation == <<"activation", 0>>
WeightNames == {"weight"} \X Weights
Names == {"weight", "quantized", "scale", "zero_point"} \X Weights

Node(op, inputs, output) == [op |-> op, inputs |-> inputs, output |-> output]

\* QUANTIZABLE_OPS, and any other operator.
Quantizable == {"MatMul"}
Ops == Quantizable \union {"Gather"}

Large == {"large", "mismatch", "nodata"}

At(ns, pos) == ns[pos[1]].inputs[pos[2]]

\* The first input of a node is its activation.
Candidate(ns, pos) == ns[pos[1]].op \in Quantizable /\ pos[2] > 1

\* The names of the initializers.
InitMap == {name \in Names : inits[name] > 0}

IsTarget(ns, pos) ==
    /\ Candidate(ns, pos)
    /\ At(ns, pos) \in InitMap
    /\ kind[At(ns, pos)[2]] \in Large

Inputs(i) == {Activation} \union WeightNames \union {<<"node", n>> : n \in 1..(i - 1)}

\* The nodes a model may have, in the order they are computed.
Graphs ==
    {[i \in 1..NumNodes |-> Node(ops[i], ins[i], <<"node", i>>)] :
        ops \in [1..NumNodes -> Ops],
        ins \in {f \in [1..NumNodes -> [1..Arity -> Inputs(NumNodes)]] :
                    \A i \in 1..NumNodes : \A j \in 1..Arity : f[i][j] \in Inputs(i)}}

Init ==
    /\ pc = "running"
    /\ kind \in [Weights -> Kinds]
    /\ nodes \in Graphs
    /\ inits = [name \in Names |-> IF name \in WeightNames THEN 1 ELSE 0]
    /\ ni = 1 /\ ii = 1
    /\ targets = <<>>
    /\ next = 1
    /\ seen = {}
    /\ newNodes = <<>>
    /\ newInits = [name \in Names |-> 0]
    /\ original = nodes

\* One input, of a node that is not passed over.
Collect ==
    /\ pc = "running"
    /\ ni <= NumNodes
    /\ targets' = IF IsTarget(nodes, <<ni, ii>>) THEN Append(targets, <<ni, ii>>) ELSE targets
    /\ IF nodes[ni].op \in Quantizable /\ ii < Arity
       THEN ii' = ii + 1 /\ UNCHANGED ni
       ELSE ii' = 1 /\ ni' = ni + 1
    /\ UNCHANGED <<pc, kind, nodes, inits, next, seen, newNodes, newInits, original>>

Parts(w) == <<<<"quantized", w>>, <<"scale", w>>, <<"zero_point", w>>>>

Dequantize(w) == Node("DequantizeLinear", Parts(w), <<"dequantized", w>>)

\* The new tensors and the new node of a weight.
Add(w) ==
    /\ newInits' = [name \in Names |-> newInits[name] + IF name \in Range(Parts(w)) THEN 1 ELSE 0]
    /\ newNodes' = Append(newNodes, Dequantize(w))

\* Mutation: a weight is quantized wherever it is used.
Quantize_Again ==
    /\ pc = "running"
    /\ ni > NumNodes
    /\ next <= Len(targets)
    /\ LET w == At(nodes, targets[next])[2] IN
        /\ kind[w] # "nodata"
        /\ next' = next + 1
        /\ seen' = seen \union {<<"weight", w>>}
        /\ Add(w)
    /\ UNCHANGED <<pc, kind, nodes, inits, ni, ii, targets, original>>

\* The next target: its weight is quantized unless it was seen before, cannot be
\* read, which ends the whole call, or does not fit its shape.
Quantize ==
    /\ pc = "running"
    /\ ni > NumNodes
    /\ next <= Len(targets)
    /\ LET name == At(nodes, targets[next])
           w == name[2]
       IN
        /\ seen' = seen \union {name}
        /\ IF name \notin seen /\ kind[w] = "nodata"
           THEN pc' = "failed" /\ UNCHANGED <<next, newNodes, newInits>>
           ELSE /\ next' = next + 1
                /\ IF name \in seen \/ kind[w] = "mismatch"
                   THEN UNCHANGED <<newNodes, newInits>>
                   ELSE Add(w)
                /\ UNCHANGED pc
    /\ UNCHANGED <<kind, nodes, inits, ni, ii, targets, original>>

\* Mutation: all targets are given the same weight.
Rewired_First(ns) ==
    [i \in 1..Len(ns) |->
        Node(ns[i].op,
             [j \in 1..Arity |-> IF <<i, j>> \in Range(targets)
                                 THEN <<"dequantized", At(ns, targets[1])[2]>>
                                 ELSE ns[i].inputs[j]],
             ns[i].output)]

\* The targets are given the dequantized weights.
Rewired(ns) ==
    [i \in 1..Len(ns) |->
        Node(ns[i].op,
             [j \in 1..Arity |-> IF <<i, j>> \in Range(targets)
                                 THEN <<"dequantized", ns[i].inputs[j][2]>>
                                 ELSE ns[i].inputs[j]],
             ns[i].output)]

\* The inputs are rewired, the seen initializers replaced, and the new nodes put
\* before the others.
Rewrite ==
    /\ pc = "running"
    /\ ni > NumNodes
    /\ next > Len(targets)
    /\ pc' = "done"
    /\ nodes' = newNodes \o Rewired(nodes)
    /\ inits' = [name \in Names |-> (IF name \in seen THEN 0 ELSE inits[name]) + newInits[name]]
    /\ UNCHANGED <<kind, ni, ii, targets, next, seen, newNodes, newInits, original>>

Next == Collect \/ Quantize \/ Rewrite

Spec == Init /\ [][Next]_vars

---------------------------------------------------------------------------
(* Properties *)

TypeOK ==
    /\ pc \in {"running", "done", "failed"}
    /\ kind \in [Weights -> Kinds]
    /\ inits \in [Names -> Nat] /\ newInits \in [Names -> Nat]
    /\ ni \in 1..(NumNodes + 1) /\ ii \in 1..Arity
    /\ targets \in Seq((1..NumNodes) \X (1..Arity))
    /\ next \in 1..(Len(targets) + 1)
    /\ seen \subseteq WeightNames
    /\ newNodes \in Seq({Dequantize(w) : w \in Weights})
    /\ original \in Graphs

\* What can be read when node i is computed.
Available(i) ==
    {Activation} \union InitMap \union {nodes[n].output : n \in 1..(i - 1)}

\* No tensor is there twice, and each input is a tensor or was computed before.
WellFormed ==
    /\ \A name \in Names : inits[name] <= 1
    /\ \A i, j \in 1..Len(nodes) : nodes[i].output = nodes[j].output => i = j
    /\ \A i \in 1..Len(nodes) : Range(nodes[i].inputs) \subseteq Available(i)

\* What the rewriting takes for granted of the model it reads: a weight it
\* visits is not skipped for its shape, and has no use but those it visits.
TakenForGranted ==
    \A pos \in (1..NumNodes) \X (1..Arity) :
        At(original, pos) \in seen =>
            /\ kind[At(original, pos)[2]] # "mismatch"
            /\ Candidate(original, pos)

\* The graph that is written can be loaded, if and only if the model has what
\* the rewriting takes for granted: these are all the conditions it does not
\* check, however weights are shared between nodes.
Loadable == pc = "done" => (WellFormed <=> TakenForGranted)

\* Up to the quantization of weights it computes what the graph that was read
\* does: after the dequantizing nodes the old nodes follow, each with its old
\* inputs, or the dequantized form of the same weight.
SameComputation ==
    pc = "done" =>
        LET k == Len(nodes) - NumNodes IN
        /\ \A i \in 1..k : nodes[i].op = "DequantizeLinear"
        /\ \A i \in 1..NumNodes :
            /\ nodes[k + i].op = original[i].op
            /\ nodes[k + i].output = original[i].output
            /\ \A j \in 1..Arity :
                LET old == original[i].inputs[j] IN
                \/ nodes[k + i].inputs[j] = old
                \/ old \in WeightNames /\ nodes[k + i].inputs[j] = <<"dequantized", old[2]>>
=============================================================================
