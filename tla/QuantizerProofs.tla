-------------------------- MODULE QuantizerProofs --------------------------
(***************************************************************************)
(* For any number of nodes, inputs and weights: the rewriting keeps what    *)
(* the graph computes, and the graph can be loaded exactly if the model has  *)
(* what the code takes for granted of it.                                   *)
(***************************************************************************)
EXTENDS Quantizer, TLAPS

\* The names and positions the loops meet are those of the graph that was read.
IsWeight(i, j) ==
    /\ Candidate(original, <<i, j>>)
    /\ At(original, <<i, j>>) \in WeightNames
    /\ kind[At(original, <<i, j>>)[2]] \in Large

Graph ==
    /\ original \in [1..NumNodes -> [op : Ops, inputs : [1..Arity -> Inputs(NumNodes)],
                                     output : {"node"} \X (1..NumNodes)]]
    /\ \A i \in 1..NumNodes :
          /\ original[i].output = <<"node", i>>
          /\ \A j \in 1..Arity : original[i].inputs[j] \in Inputs(i)

Before == [name \in Names |-> IF name \in WeightNames THEN 1 ELSE 0]

\* The graph is changed once, after both loops.
Untouched == pc # "done" => nodes = original /\ inits = Before

\* The first loop finds all the weights at the inputs it has passed.
Found ==
    /\ \A k \in 1..Len(targets) : IsWeight(targets[k][1], targets[k][2])
    /\ \A i \in 1..NumNodes : \A j \in 1..Arity :
          (i < ni \/ (i = ni /\ j < ii)) /\ IsWeight(i, j) =>
              \E k \in 1..Len(targets) : targets[k] = <<i, j>>

Target(k) == At(original, targets[k])

\* The names the second loop has seen are those of the targets it has passed.
Visited ==
    /\ ni <= NumNodes => next = 1 /\ seen = {}
    /\ \A k \in 1..(next - 1) : Target(k) \in seen
    /\ \A name \in seen : \E k \in 1..Len(targets) : Target(k) = name
    /\ \A name \in seen : pc # "failed" => kind[name[2]] # "nodata"

\* A weight that was seen and could be quantized.
Replaced(w) == <<"weight", w>> \in seen /\ kind[w] \notin {"mismatch", "nodata"}

\* Each of them was given its node and its tensors, once.
Replacements ==
    /\ \A n \in 1..Len(newNodes) :
          \E w \in Weights : Replaced(w) /\ newNodes[n] = Dequantize(w)
    /\ \A w \in Weights : Replaced(w) => \E n \in 1..Len(newNodes) : newNodes[n] = Dequantize(w)
    /\ \A m, n \in 1..Len(newNodes) : newNodes[m] = newNodes[n] => m = n
    /\ newInits = [name \in Names |->
                      IF name[1] # "weight" /\ Replaced(name[2]) THEN 1 ELSE 0]

\* What is written.
Written ==
    pc = "done" =>
        /\ ni > NumNodes /\ next = Len(targets) + 1
        /\ nodes = newNodes \o Rewired(original)
        /\ inits = [name \in Names |-> (IF name \in seen THEN 0 ELSE Before[name]) + newInits[name]]

Types ==
    /\ pc \in {"running", "done", "failed"}
    /\ kind \in [Weights -> Kinds]
    /\ ni \in 1..(NumNodes + 1) /\ ii \in 1..Arity
    /\ targets \in Seq((1..NumNodes) \X (1..Arity))
    /\ next \in 1..(Len(targets) + 1)
    /\ seen \subseteq WeightNames
    /\ newNodes \in Seq({Dequantize(w) : w \in Weights})
    /\ original \in Graphs

QuantInv == Types /\ Untouched /\ Found /\ Visited /\ Replacements /\ Written

---------------------------------------------------------------------------
(* Names and positions *)

LEMMA GraphShape == ASSUME original \in Graphs PROVE Graph
<1>1. PICK ops \in [1..NumNodes -> Ops],
           ins \in {f \in [1..NumNodes -> [1..Arity -> Inputs(NumNodes)]] :
                       \A i \in 1..NumNodes : \A j \in 1..Arity : f[i][j] \in Inputs(i)} :
        original = [i \in 1..NumNodes |-> Node(ops[i], ins[i], <<"node", i>>)]
  BY DEF Graphs
<1>2. ASSUME NEW i \in 1..NumNodes
      PROVE  /\ original[i].op = ops[i] /\ original[i].inputs = ins[i]
             /\ original[i].output = <<"node", i>>
             /\ original[i] \in [op : Ops, inputs : [1..Arity -> Inputs(NumNodes)],
                                 output : {"node"} \X (1..NumNodes)]
  BY <1>1 DEF Node
<1> QED
  BY <1>1, <1>2 DEF Graph

LEMMA FunctionAsSequence ==
  ASSUME NEW S, NEW n \in Nat, NEW f \in [1..n -> S]
  PROVE  f \in Seq(S) /\ Len(f) = n
  OBVIOUS

LEMMA AppendAt ==
  ASSUME NEW S, NEW s \in Seq(S), NEW e \in S
  PROVE  /\ Append(s, e) \in Seq(S)
         /\ Len(s) \in Nat /\ Len(Append(s, e)) = Len(s) + 1
         /\ \A n \in 1..Len(s) : Append(s, e)[n] = s[n]
         /\ Append(s, e)[Len(s) + 1] = e
  OBVIOUS

LEMMA ConcatenationAt ==
  ASSUME NEW S, NEW s \in Seq(S), NEW t \in Seq(S)
  PROVE  /\ Len(s \o t) = Len(s) + Len(t)
         /\ \A n \in 1..Len(s) : (s \o t)[n] = s[n]
         /\ \A n \in 1..Len(t) : (s \o t)[Len(s) + n] = t[n]
  OBVIOUS

LEMMA LongerRange ==
  ASSUME NEW m \in Nat, NEW n \in Nat, m <= n, NEW k \in 1..m
  PROVE  k \in 1..n
  OBVIOUS

\* One new entry at the end keeps the entries of a sequence apart.
LEMMA NewEntryDiffers ==
  ASSUME NEW len \in Nat, NEW s, NEW t, NEW e,
         \A m, n \in 1..len : s[m] = s[n] => m = n,
         \A n \in 1..len : t[n] = s[n] /\ s[n] # e,
         t[len + 1] = e,
         NEW m \in 1..(len + 1), NEW n \in 1..(len + 1), t[m] = t[n]
  PROVE  m = n
<1>1. (m \in 1..len \/ m = len + 1) /\ (n \in 1..len \/ n = len + 1)
  OBVIOUS
<1>2. CASE m \in 1..len /\ n \in 1..len
  BY <1>2
<1>3. CASE m \in 1..len /\ n = len + 1
  BY <1>3
<1>4. CASE m = len + 1 /\ n \in 1..len
  BY <1>4
<1> QED
  BY <1>1, <1>2, <1>3, <1>4

LEMMA PartsOfWeight ==
  ASSUME NEW w \in Weights
  PROVE  Range(Parts(w)) = {<<"quantized", w>>, <<"scale", w>>, <<"zero_point", w>>}
  BY DEF Parts, Range

\* No two weights share a new node.
LEMMA DequantizeInjective ==
  ASSUME NEW v, NEW w, Dequantize(v) = Dequantize(w)
  PROVE  v = w
<1>1. Dequantize(v).output = <<"dequantized", v>> /\ Dequantize(w).output = <<"dequantized", w>>
  BY DEF Dequantize, Node
<1> QED
  BY <1>1

\* Until the graph is changed every weight is found under its name, and nothing else.
LEMMA InitMapBefore ==
  ASSUME inits = Before PROVE InitMap = WeightNames
<1>1. WeightNames \subseteq Names
  BY DEF WeightNames, Names
<1>2. \A name \in Names : inits[name] = IF name \in WeightNames THEN 1 ELSE 0
  BY DEF Before
<1> QED
  BY <1>1, <1>2 DEF InitMap

---------------------------------------------------------------------------
(* The invariant *)

LEMMA InitEstablishesInv == Init => QuantInv
<1> SUFFICES ASSUME Init PROVE QuantInv
  OBVIOUS
<1> USE DEF Init
<1>1. Types
  BY QuantizerAssumption DEF Types
<1>2. Untouched
  BY DEF Untouched, Before
<1>3. Found
  BY QuantizerAssumption DEF Found
<1>4. Visited
  BY DEF Visited
<1>5. Replacements
  BY DEF Replacements, Replaced
<1>6. Written
  BY DEF Written
<1> QED
  BY <1>1, <1>2, <1>3, <1>4, <1>5, <1>6 DEF QuantInv

LEMMA CollectKeepsInv == ASSUME QuantInv, Collect PROVE QuantInv'
<1> USE DEF QuantInv
<1>1. /\ pc = "running" /\ ni \in 1..NumNodes /\ ii \in 1..Arity
      /\ NumNodes \in Nat /\ Arity \in Nat \ {0}
      /\ nodes = original /\ inits = Before
      /\ targets \in Seq((1..NumNodes) \X (1..Arity)) /\ next = 1 /\ seen = {}
      /\ UNCHANGED <<pc, kind, nodes, inits, next, seen, newNodes, newInits, original>>
  BY QuantizerAssumption DEF Collect, Types, Untouched, Visited
<1>2. <<ni, ii>> \in (1..NumNodes) \X (1..Arity)
  BY <1>1
<1>3. IsTarget(nodes, <<ni, ii>>) <=> IsWeight(ni, ii)
  BY <1>1, InitMapBefore DEF IsTarget, IsWeight
<1>4. targets' = IF IsWeight(ni, ii) THEN Append(targets, <<ni, ii>>) ELSE targets
  BY <1>3 DEF Collect
<1>5. /\ targets' \in Seq((1..NumNodes) \X (1..Arity))
      /\ Len(targets) \in Nat /\ Len(targets') \in Nat
      /\ Len(targets) <= Len(targets') /\ Len(targets') <= Len(targets) + 1
      /\ \A k \in 1..Len(targets) : targets'[k] = targets[k]
  BY <1>1, <1>2, <1>4
<1>6. \/ ni' = ni /\ ii' = ii + 1 /\ ii < Arity
      \/ ni' = ni + 1 /\ ii' = 1 /\ (ii = Arity \/ original[ni].op \notin Quantizable)
  BY <1>1 DEF Collect
<1>7. Types'
  <2>1. ni' \in 1..(NumNodes + 1) /\ ii' \in 1..Arity
    BY <1>1, <1>6
  <2>2. next' \in 1..(Len(targets') + 1)
    BY <1>1, <1>5
  <2> QED
    BY <1>1, <1>5, <2>1, <2>2 DEF Types
<1>8. Untouched'
  BY <1>1 DEF Untouched, Before
<1>9. Found'
  <2>1. \A i, j : IsWeight(i, j)' <=> IsWeight(i, j)
    BY <1>1 DEF IsWeight, Candidate, At
  <2>2. ASSUME NEW k \in 1..Len(targets') PROVE IsWeight(targets'[k][1], targets'[k][2])
    <3>1. CASE k \in 1..Len(targets)
      BY <1>5, <3>1 DEF Found
    <3>2. CASE k \notin 1..Len(targets)
      <4>1. IsWeight(ni, ii) /\ targets'[k] = <<ni, ii>>
        BY <1>1, <1>2, <1>4, <1>5, <3>2
      <4> QED
        BY <4>1
    <3> QED
      BY <3>1, <3>2
  <2>3. ASSUME NEW i \in 1..NumNodes, NEW j \in 1..Arity, IsWeight(i, j),
               i < ni' \/ (i = ni' /\ j < ii')
        PROVE  \E k \in 1..Len(targets') : targets'[k] = <<i, j>>
    <3>1. CASE i < ni \/ (i = ni /\ j < ii)
      <4>1. PICK k \in 1..Len(targets) : targets[k] = <<i, j>>
        <5>1. \E k \in 1..Len(targets) : targets[k] = <<i, j>>
          BY <2>3, <3>1, Zenon DEF Found
        <5> QED
          BY <5>1
      <4>2. k \in 1..Len(targets')
        BY <1>5, LongerRange
      <4>3. targets'[k] = <<i, j>>
        BY <1>5, <4>1, Zenon
      <4> QED
        BY <4>2, <4>3, Zenon
    <3>2. CASE i = ni /\ j = ii
      <4>1. targets' = Append(targets, <<i, j>>)
        BY <1>4, <2>3, <3>2
      <4>2. Len(targets) + 1 \in 1..Len(targets') /\ targets'[Len(targets) + 1] = <<i, j>>
        <5>1. targets \in Seq((1..NumNodes) \X (1..Arity)) /\ <<i, j>> \in (1..NumNodes) \X (1..Arity)
          BY <1>1
        <5> QED
          BY <4>1, <5>1, AppendAt
      <4> QED
        BY <4>2
    <3>3. original[i].op \in Quantizable
      BY <2>3 DEF IsWeight, Candidate
    <3> QED
      BY <1>1, <1>6, <2>3, <3>1, <3>2, <3>3
  <2> QED
    BY <1>1, <2>1, <2>2, <2>3 DEF Found
<1>10. Visited'
  BY <1>1 DEF Visited
<1>11. Replacements'
  BY <1>1 DEF Replacements, Replaced
<1>12. Written'
  BY <1>1 DEF Written
<1> QED
  BY <1>7, <1>8, <1>9, <1>10, <1>11, <1>12

LEMMA QuantizeKeepsInv == ASSUME QuantInv, Quantize PROVE QuantInv'
<1> USE DEF QuantInv
<1> DEFINE name == At(nodes, targets[next])
           w == name[2]
<1>1. /\ pc = "running" /\ ni > NumNodes /\ next \in 1..Len(targets)
      /\ nodes = original /\ inits = Before /\ Len(targets) \in Nat
      /\ UNCHANGED <<kind, nodes, inits, ni, ii, targets, original>>
  BY DEF Quantize, Types, Untouched
<1>2. /\ name = Target(next) /\ name \in WeightNames /\ name = <<"weight", w>> /\ w \in Weights
      /\ kind[w] \in Large
  <2>1. targets[next] \in (1..NumNodes) \X (1..Arity)
    BY <1>1 DEF Types
  <2>2. targets[next] = <<targets[next][1], targets[next][2]>>
    BY <2>1
  <2>3. IsWeight(targets[next][1], targets[next][2])
    BY <1>1 DEF Found
  <2>4. name = Target(next) /\ name \in WeightNames /\ kind[w] \in Large
    BY <1>1, <2>2, <2>3 DEF IsWeight, Target, At
  <2> QED
    BY <2>4 DEF WeightNames
<1> HIDE DEF name, w
<1>3. seen' = seen \union {name}
  BY DEF Quantize, name
<1>4. \/ /\ name \notin seen /\ kind[w] = "nodata"
         /\ pc' = "failed" /\ UNCHANGED <<next, newNodes, newInits>>
      \/ /\ name \in seen \/ kind[w] = "mismatch"
         /\ pc' = pc /\ next' = next + 1 /\ UNCHANGED <<newNodes, newInits>>
      \/ /\ name \notin seen /\ kind[w] \notin {"nodata", "mismatch"}
         /\ pc' = pc /\ next' = next + 1 /\ Add(w)
  BY DEF Quantize, name, w
<1>5. Untouched'
  BY <1>1, <1>4 DEF Untouched, Before
<1>6. Found'
  BY <1>1 DEF Found, IsWeight, Candidate, At
<1>7. Visited'
  <2>1. \A k : Target(k)' = Target(k)
    BY <1>1 DEF Target, At
  <2>2. ASSUME NEW k \in 1..(next' - 1) PROVE Target(k) \in seen'
    <3>1. k = next \/ k \in 1..(next - 1)
      BY <1>1, <1>4
    <3> QED
      BY <1>2, <1>3, <3>1 DEF Visited
  <2>3. \A n \in seen' : \E k \in 1..Len(targets) : Target(k) = n
    BY <1>1, <1>2, <1>3 DEF Visited
  <2>4. \A n \in seen' : pc' # "failed" => kind[n[2]] # "nodata"
    BY <1>1, <1>2, <1>3, <1>4 DEF Visited
  <2>5. ~(ni <= NumNodes)
    BY <1>1, QuantizerAssumption DEF Types
  <2> QED
    BY <1>1, <2>1, <2>2, <2>3, <2>4, <2>5 DEF Visited
<1>8. Written'
  BY <1>1, <1>4 DEF Written
<1>9. \A v \in Weights : Replaced(v)' <=> <<"weight", v>> \in seen' /\ kind[v] \notin {"mismatch", "nodata"}
  BY <1>1 DEF Replaced
<1>10. \A v \in Weights : <<"weight", v>> \in seen' <=> <<"weight", v>> \in seen \/ v = w
  BY <1>2, <1>3
<1>11. seen' \subseteq WeightNames
  BY <1>2, <1>3 DEF Types
<1>12. CASE UNCHANGED <<newNodes, newInits>> /\ \A v \in Weights : Replaced(v)' <=> Replaced(v)
  <2>1. Types'
    BY <1>1, <1>4, <1>11, <1>12 DEF Types
  <2>2. Replacements'
    <3>1. \A n \in Names : n[2] \in Weights
      BY DEF Names
    <3> QED
      BY <1>12, <3>1 DEF Replacements
  <2> QED
    BY <1>5, <1>6, <1>7, <1>8, <2>1, <2>2
<1>13. CASE name \notin seen /\ kind[w] \notin {"nodata", "mismatch"} /\ Add(w)
  <2>1. ~Replaced(w) /\ \A v \in Weights : Replaced(v)' <=> Replaced(v) \/ v = w
    BY <1>2, <1>9, <1>10, <1>13 DEF Replaced
  <2>2. /\ newNodes \in Seq({Dequantize(v) : v \in Weights})
        /\ newNodes' = Append(newNodes, Dequantize(w))
        /\ Dequantize(w) \in {Dequantize(v) : v \in Weights}
    BY <1>2, <1>13 DEF Types, Add
  <2>3. /\ newNodes' \in Seq({Dequantize(v) : v \in Weights})
        /\ Len(newNodes) \in Nat /\ Len(newNodes') = Len(newNodes) + 1
        /\ \A n \in 1..Len(newNodes) : newNodes'[n] = newNodes[n]
        /\ newNodes'[Len(newNodes) + 1] = Dequantize(w)
    BY <2>2, AppendAt
  <2>4. Types'
    BY <1>1, <1>4, <1>11, <2>3 DEF Types
  <2>5. ASSUME NEW n \in 1..Len(newNodes')
        PROVE  \E v \in Weights : Replaced(v)' /\ newNodes'[n] = Dequantize(v)
    BY <1>2, <2>1, <2>3 DEF Replacements
  <2>6. ASSUME NEW v \in Weights, Replaced(v)'
        PROVE  \E n \in 1..Len(newNodes') : newNodes'[n] = Dequantize(v)
    <3>1. CASE v = w
      BY <2>3, <3>1
    <3>2. CASE v # w
      <4>1. PICK n \in 1..Len(newNodes) : newNodes[n] = Dequantize(v)
        BY <2>1, <2>6, <3>2 DEF Replacements
      <4>2. n \in 1..Len(newNodes')
        BY <2>3
      <4>3. newNodes'[n] = Dequantize(v)
        BY <2>3, <4>1, Zenon
      <4> QED
        BY <4>2, <4>3, Zenon
    <3> QED
      BY <3>1, <3>2
  <2>7. ASSUME NEW m \in 1..Len(newNodes'), NEW n \in 1..Len(newNodes'), newNodes'[m] = newNodes'[n]
        PROVE  m = n
    <3>1. \A k \in 1..Len(newNodes) : newNodes[k] # Dequantize(w)
      BY <1>2, <2>1, DequantizeInjective DEF Replacements
    <3>2. \A k, l \in 1..Len(newNodes) : newNodes[k] = newNodes[l] => k = l
      BY Zenon DEF Replacements
    <3> HIDE DEF Dequantize
    <3> QED
      BY <2>3, <2>7, <3>1, <3>2, NewEntryDiffers
  <2>8. newInits' = [n \in Names |-> IF n[1] # "weight" /\ Replaced(n[2])' THEN 1 ELSE 0]
    <3>1. ASSUME NEW n \in Names
          PROVE  /\ n[2] \in Weights
                 /\ n \in Range(Parts(w)) <=> n[1] # "weight" /\ n[2] = w
      BY <1>2, PartsOfWeight DEF Names
    <3>2. ASSUME NEW n \in Names
          PROVE  newInits[n] + (IF n \in Range(Parts(w)) THEN 1 ELSE 0)
                   = IF n[1] # "weight" /\ Replaced(n[2])' THEN 1 ELSE 0
      <4>1. newInits[n] = IF n[1] # "weight" /\ Replaced(n[2]) THEN 1 ELSE 0
        BY DEF Replacements
      <4> QED
        BY <2>1, <3>1, <4>1
    <3> QED
      BY <1>13, <3>2 DEF Add
  <2>9. Replacements'
    BY <2>5, <2>6, <2>7, <2>8 DEF Replacements
  <2> QED
    BY <1>5, <1>6, <1>7, <1>8, <2>4, <2>9
<1>14. CASE name \in seen \/ kind[w] \in {"mismatch", "nodata"}
  <2>1. \A v \in Weights : Replaced(v)' <=> Replaced(v)
    BY <1>2, <1>9, <1>10, <1>14 DEF Replaced
  <2>2. UNCHANGED <<newNodes, newInits>>
    BY <1>4, <1>14
  <2> QED
    BY <1>12, <2>1, <2>2
<1> QED
  BY <1>4, <1>13, <1>14

LEMMA RewriteKeepsInv == ASSUME QuantInv, Rewrite PROVE QuantInv'
<1> USE DEF QuantInv
<1>1. /\ pc = "running" /\ pc' = "done" /\ ni > NumNodes /\ next > Len(targets)
      /\ nodes = original /\ inits = Before
      /\ UNCHANGED <<kind, ni, ii, targets, next, seen, newNodes, newInits, original>>
  BY DEF Rewrite, Untouched
<1>2. Types' /\ Untouched'
  BY <1>1 DEF Types, Untouched
<1>3. Found' /\ Visited'
  <2>1. \A i, j : IsWeight(i, j)' <=> IsWeight(i, j)
    BY <1>1 DEF IsWeight, Candidate, At
  <2>2. \A k : Target(k)' = Target(k)
    BY <1>1 DEF Target, At
  <2> QED
    BY <1>1, <2>1, <2>2 DEF Found, Visited
<1>4. Replacements'
  BY <1>1 DEF Replacements, Replaced
<1>5. Written'
  <2>1. next = Len(targets) + 1
    <3>1. Len(targets) \in Nat /\ next \in 1..(Len(targets) + 1)
      BY DEF Types
    <3> QED
      BY <1>1, <3>1
  <2>2. Rewired(original)' = Rewired(original)
    BY <1>1 DEF Rewired, At
  <2>3. Before' = Before
    BY DEF Before
  <2>4. inits' = [name \in Names |-> (IF name \in seen THEN 0 ELSE Before[name]) + newInits[name]]
    BY <1>1 DEF Rewrite
  <2>5. nodes' = newNodes \o Rewired(original)
    BY <1>1 DEF Rewrite
  <2> QED
    BY <1>1, <2>1, <2>2, <2>3, <2>4, <2>5 DEF Written
<1> QED
  BY <1>2, <1>3, <1>4, <1>5

THEOREM Invariance == Spec => []QuantInv
<1>1. QuantInv /\ [Next]_vars => QuantInv'
  <2> SUFFICES ASSUME QuantInv, [Next]_vars PROVE QuantInv'
    OBVIOUS
  <2>1. CASE UNCHANGED vars
    <3>1. /\ UNCHANGED <<pc, kind, nodes, inits, ni, ii, targets, next, seen>>
          /\ UNCHANGED <<newNodes, newInits, original>>
      BY <2>1 DEF vars
    <3>2. Types' /\ Untouched'
      BY <3>1 DEF QuantInv, Types, Untouched, Before
    <3>3. Found'
      BY <3>1 DEF QuantInv, Found, IsWeight, Candidate, At
    <3>4. Visited'
      BY <3>1 DEF QuantInv, Visited, Target, At
    <3>5. Replacements'
      BY <3>1 DEF QuantInv, Replacements, Replaced
    <3>6. Written'
      BY <3>1 DEF QuantInv, Written, Rewired, Before, At
    <3> QED
      BY <3>2, <3>3, <3>4, <3>5, <3>6 DEF QuantInv
  <2> QED
    BY <2>1, CollectKeepsInv, QuantizeKeepsInv, RewriteKeepsInv DEF Next
<1> QED
  BY <1>1, InitEstablishesInv, PTL DEF Spec

\* The state of quantize_model has its types: the loops stay within the graph and
\* the targets, and only weights are named in quantized_names.
THEOREM TypeCorrect == Spec => []TypeOK
<1>1. QuantInv => TypeOK
  <2> SUFFICES ASSUME QuantInv PROVE TypeOK
    OBVIOUS
  <2> USE DEF QuantInv
  <2>1. newInits \in [Names -> Nat] /\ Before \in [Names -> Nat]
    BY DEF Replacements, Before
  <2>2. inits \in [Names -> Nat]
    BY <2>1 DEF Untouched, Written
  <2> QED
    BY <2>1, <2>2 DEF Types, TypeOK
<1> QED
  BY <1>1, Invariance, PTL

---------------------------------------------------------------------------
(* The graph that is written *)

\* Both loops are through: what is a target, and whose name was seen.
LEMMA LoopsAreThrough ==
  ASSUME QuantInv, pc = "done"
  PROVE  /\ \A i \in 1..NumNodes : \A j \in 1..Arity :
               <<i, j>> \in Range(targets) <=> IsWeight(i, j)
         /\ \A name : name \in seen <=>
               \E i \in 1..NumNodes : \E j \in 1..Arity :
                  IsWeight(i, j) /\ original[i].inputs[j] = name
         /\ \A w \in Weights : Replaced(w) <=> <<"weight", w>> \in seen /\ kind[w] # "mismatch"
<1> USE DEF QuantInv
<1>1. /\ ni = NumNodes + 1 /\ next = Len(targets) + 1 /\ Len(targets) \in Nat
      /\ NumNodes \in Nat
      /\ targets \in Seq((1..NumNodes) \X (1..Arity))
      /\ Range(targets) = {targets[k] : k \in 1..Len(targets)}
      /\ \A i \in 1..NumNodes : i < ni
  <2>1. targets \in Seq((1..NumNodes) \X (1..Arity)) /\ ni \in 1..(NumNodes + 1)
    BY DEF Types
  <2>2. DOMAIN targets = 1..Len(targets)
    BY <2>1
  <2>3. ni > NumNodes /\ next = Len(targets) + 1
    BY DEF Written
  <2> QED
    BY <2>1, <2>2, <2>3, QuantizerAssumption DEF Range
<1>2. ASSUME NEW k \in 1..Len(targets)
      PROVE  /\ targets[k][1] \in 1..NumNodes /\ targets[k][2] \in 1..Arity
             /\ targets[k] = <<targets[k][1], targets[k][2]>>
             /\ IsWeight(targets[k][1], targets[k][2])
             /\ Target(k) = original[targets[k][1]].inputs[targets[k][2]]
  BY <1>1 DEF Found, Target, At
<1>3. ASSUME NEW i \in 1..NumNodes, NEW j \in 1..Arity
      PROVE  <<i, j>> \in Range(targets) <=> IsWeight(i, j)
  <2>1. ASSUME <<i, j>> \in Range(targets) PROVE IsWeight(i, j)
    <3>1. PICK k \in 1..Len(targets) : targets[k] = <<i, j>>
      BY <1>1, <2>1
    <3> QED
      BY <1>2, <3>1
  <2>2. ASSUME IsWeight(i, j) PROVE <<i, j>> \in Range(targets)
    <3>1. \E k \in 1..Len(targets) : targets[k] = <<i, j>>
      BY <1>1, <2>2 DEF Found
    <3> QED
      BY <1>1, <3>1
  <2> QED
    BY <2>1, <2>2
<1>4. ASSUME NEW name, name \in seen
      PROVE  \E i \in 1..NumNodes : \E j \in 1..Arity :
                IsWeight(i, j) /\ original[i].inputs[j] = name
  <2>1. PICK k \in 1..Len(targets) : Target(k) = name
    BY <1>4 DEF Visited
  <2> QED
    BY <1>2, <2>1
<1>5. ASSUME NEW i \in 1..NumNodes, NEW j \in 1..Arity, IsWeight(i, j)
      PROVE  original[i].inputs[j] \in seen
  <2>1. PICK k \in 1..Len(targets) : targets[k] = <<i, j>>
    BY <1>1, <1>5 DEF Found
  <2>2. Target(k) = original[i].inputs[j]
    BY <1>2, <2>1
  <2>3. k \in 1..(next - 1)
    BY <1>1
  <2> QED
    BY <2>2, <2>3 DEF Visited
<1>6. ASSUME NEW w \in Weights
      PROVE  Replaced(w) <=> <<"weight", w>> \in seen /\ kind[w] # "mismatch"
  BY DEF Visited, Replaced
<1> QED
  BY <1>3, <1>4, <1>5, <1>6

\* The old nodes after the new ones, and where their inputs now come from.
LEMMA WrittenNodes ==
  ASSUME QuantInv, pc = "done"
  PROVE  /\ Len(newNodes) \in Nat /\ Len(nodes) = Len(newNodes) + NumNodes
         /\ \A n \in 1..Len(newNodes) : nodes[n] = newNodes[n]
         /\ \A i \in 1..NumNodes :
               /\ nodes[Len(newNodes) + i].op = original[i].op
               /\ nodes[Len(newNodes) + i].output = original[i].output
               /\ DOMAIN nodes[Len(newNodes) + i].inputs = 1..Arity
               /\ \A j \in 1..Arity :
                     nodes[Len(newNodes) + i].inputs[j] =
                        IF IsWeight(i, j) THEN <<"dequantized", original[i].inputs[j][2]>>
                        ELSE original[i].inputs[j]
<1> DEFINE r == Rewired(original)
           k == Len(newNodes)
<1>1. /\ NumNodes \in Nat /\ k \in Nat
      /\ newNodes \in Seq({Dequantize(w) : w \in Weights})
      /\ nodes = newNodes \o r
      /\ DOMAIN original = 1..NumNodes /\ Len(original) = NumNodes
  <2>1. Graph
    BY GraphShape DEF QuantInv, Types
  <2>2. original \in [1..NumNodes -> {original[i] : i \in 1..NumNodes}]
    BY <2>1 DEF Graph
  <2>3. Len(original) = NumNodes
    BY <2>2, QuantizerAssumption
  <2> QED
    BY <2>2, <2>3, QuantizerAssumption DEF QuantInv, Types, Written
<1>2. /\ r = [i \in 1..NumNodes |-> r[i]]
      /\ \A i \in 1..NumNodes : r[i] =
            Node(original[i].op,
                 [j \in 1..Arity |-> IF <<i, j>> \in Range(targets)
                                     THEN <<"dequantized", original[i].inputs[j][2]>>
                                     ELSE original[i].inputs[j]],
                 original[i].output)
  BY <1>1 DEF Rewired
<1> HIDE DEF r
<1>3. r \in Seq({r[i] : i \in 1..NumNodes}) /\ Len(r) = NumNodes
  <2>1. r \in [1..NumNodes -> {r[i] : i \in 1..NumNodes}]
    BY <1>2
  <2> QED
    BY <1>1, <2>1, FunctionAsSequence
<1>4. /\ Len(nodes) = k + NumNodes
      /\ \A n \in 1..k : nodes[n] = newNodes[n]
      /\ \A i \in 1..NumNodes : nodes[k + i] = r[i]
  <2> DEFINE S == {Dequantize(w) : w \in Weights} \union {r[i] : i \in 1..NumNodes}
  <2>1. newNodes \in Seq(S) /\ r \in Seq(S)
    BY <1>1, <1>3
  <2> HIDE DEF S
  <2>2. /\ Len(newNodes \o r) = k + Len(r)
        /\ \A n \in 1..k : (newNodes \o r)[n] = newNodes[n]
        /\ \A n \in 1..Len(r) : (newNodes \o r)[k + n] = r[n]
    BY <2>1, ConcatenationAt DEF k
  <2> QED
    BY <1>1, <1>3, <2>2
<1>5. ASSUME NEW i \in 1..NumNodes
      PROVE  /\ nodes[k + i].op = original[i].op
             /\ nodes[k + i].output = original[i].output
             /\ DOMAIN nodes[k + i].inputs = 1..Arity
             /\ \A j \in 1..Arity : nodes[k + i].inputs[j] =
                   IF <<i, j>> \in Range(targets)
                   THEN <<"dequantized", original[i].inputs[j][2]>>
                   ELSE original[i].inputs[j]
  <2> DEFINE ins == [j \in 1..Arity |-> IF <<i, j>> \in Range(targets)
                                        THEN <<"dequantized", original[i].inputs[j][2]>>
                                        ELSE original[i].inputs[j]]
  <2>1. nodes[k + i] = Node(original[i].op, ins, original[i].output)
    BY <1>2, <1>4
  <2>2. /\ nodes[k + i].op = original[i].op /\ nodes[k + i].inputs = ins
        /\ nodes[k + i].output = original[i].output
    <3> HIDE DEF ins
    <3> QED
      BY <2>1 DEF Node
  <2> QED
    BY <2>2
<1>6. ASSUME NEW i \in 1..NumNodes, NEW j \in 1..Arity
      PROVE  nodes[k + i].inputs[j] =
                IF IsWeight(i, j) THEN <<"dequantized", original[i].inputs[j][2]>>
                ELSE original[i].inputs[j]
  BY <1>5, LoopsAreThrough
<1> QED
  BY <1>1, <1>4, <1>5, <1>6

\* The quantized graph computes what the graph of floats does: quantize.rs puts
\* the new nodes first, and changes no input but to the same weight's new form.
THEOREM ComputesTheSame == Spec => []SameComputation
<1>1. QuantInv => SameComputation
  <2> SUFFICES ASSUME QuantInv, pc = "done" PROVE SameComputation
    BY DEF SameComputation
  <2>1. Len(nodes) - NumNodes = Len(newNodes)
    BY WrittenNodes, QuantizerAssumption
  <2>2. ASSUME NEW n \in 1..Len(newNodes) PROVE nodes[n].op = "DequantizeLinear"
    <3>1. PICK w \in Weights : newNodes[n] = Dequantize(w)
      BY DEF QuantInv, Replacements
    <3> QED
      BY <3>1, WrittenNodes DEF Dequantize, Node
  <2>3. ASSUME NEW i \in 1..NumNodes, NEW j \in 1..Arity
        PROVE  \/ nodes[Len(newNodes) + i].inputs[j] = original[i].inputs[j]
               \/ /\ original[i].inputs[j] \in WeightNames
                  /\ nodes[Len(newNodes) + i].inputs[j] = <<"dequantized", original[i].inputs[j][2]>>
    BY WrittenNodes DEF IsWeight, At
  <2> QED
    <3> DEFINE k == Len(nodes) - NumNodes
    <3>1. k = Len(newNodes)
      BY <2>1
    <3> HIDE DEF k
    <3>2. \A i \in 1..k : nodes[i].op = "DequantizeLinear"
      BY <2>2, <3>1
    <3>3. \A i \in 1..NumNodes :
             /\ nodes[k + i].op = original[i].op
             /\ nodes[k + i].output = original[i].output
             /\ \A j \in 1..Arity :
                   \/ nodes[k + i].inputs[j] = original[i].inputs[j]
                   \/ /\ original[i].inputs[j] \in WeightNames
                      /\ nodes[k + i].inputs[j] = <<"dequantized", original[i].inputs[j][2]>>
      BY <2>3, <3>1, WrittenNodes
    <3> QED
      BY <3>2, <3>3 DEF SameComputation, k
<1> QED
  BY <1>1, Invariance, PTL

LEMMA WrittenTensors ==
  ASSUME QuantInv, pc = "done"
  PROVE  /\ \A name \in Names : inits[name] <= 1
         /\ InitMap \subseteq Names
         /\ \A w \in Weights : <<"weight", w>> \in InitMap <=> <<"weight", w>> \notin seen
         /\ \A w \in Weights : \A part \in {"quantized", "scale", "zero_point"} :
               <<part, w>> \in InitMap <=> Replaced(w)
<1>1. ASSUME NEW w \in Weights
      PROVE  /\ <<"weight", w>> \in Names
             /\ inits[<<"weight", w>>] = IF <<"weight", w>> \in seen THEN 0 ELSE 1
  <2>1. <<"weight", w>> \in Names /\ <<"weight", w>> \in WeightNames
    BY DEF Names, WeightNames
  <2>2. Before[<<"weight", w>>] = 1 /\ newInits[<<"weight", w>>] = 0
    BY <2>1 DEF Before, QuantInv, Replacements
  <2> QED
    BY <2>1, <2>2 DEF QuantInv, Written
<1>2. ASSUME NEW w \in Weights, NEW part \in {"quantized", "scale", "zero_point"}
      PROVE  /\ <<part, w>> \in Names
             /\ inits[<<part, w>>] = IF Replaced(w) THEN 1 ELSE 0
  <2>1. <<part, w>> \in Names /\ <<part, w>> \notin WeightNames
    BY DEF Names, WeightNames
  <2>2. Before[<<part, w>>] = 0 /\ newInits[<<part, w>>] = IF Replaced(w) THEN 1 ELSE 0
    BY <2>1 DEF Before, QuantInv, Replacements
  <2>3. <<part, w>> \notin seen
    BY <2>1 DEF QuantInv, Types
  <2> QED
    BY <2>1, <2>2, <2>3 DEF QuantInv, Written
<1>3. ASSUME NEW name \in Names
      PROVE  \E w \in Weights : \/ name = <<"weight", w>>
                                \/ \E part \in {"quantized", "scale", "zero_point"} :
                                      name = <<part, w>>
  BY DEF Names
<1>4. ASSUME NEW name \in Names PROVE inits[name] <= 1
  <2>1. PICK w \in Weights : \/ name = <<"weight", w>>
                             \/ \E part \in {"quantized", "scale", "zero_point"} :
                                   name = <<part, w>>
    BY <1>3
  <2>2. inits[name] \in {0, 1}
    BY <1>1, <1>2, <2>1
  <2> QED
    BY <2>2
<1> QED
  BY <1>1, <1>2, <1>4 DEF InitMap

LEMMA WrittenOutputs ==
  ASSUME QuantInv, pc = "done"
  PROVE  /\ \A n \in 1..Len(newNodes) : \E w \in Weights :
               /\ Replaced(w) /\ nodes[n].output = <<"dequantized", w>>
               /\ nodes[n].inputs = Parts(w)
         /\ \A w \in Weights : Replaced(w) =>
               \E n \in 1..Len(newNodes) : nodes[n].output = <<"dequantized", w>>
         /\ \A i \in 1..NumNodes : nodes[Len(newNodes) + i].output = <<"node", i>>
         /\ \A m, n \in 1..Len(nodes) : nodes[m].output = nodes[n].output => m = n
<1> DEFINE k == Len(newNodes)
<1>1. /\ NumNodes \in Nat /\ k \in Nat /\ Len(nodes) = k + NumNodes
      /\ \A n \in 1..k : nodes[n] = newNodes[n]
  BY WrittenNodes, QuantizerAssumption
<1>2. \A w : Dequantize(w).output = <<"dequantized", w>> /\ Dequantize(w).inputs = Parts(w)
  BY DEF Dequantize, Node
<1>3. \A n \in 1..k : \E w \in Weights : Replaced(w) /\ nodes[n] = Dequantize(w)
  BY <1>1 DEF QuantInv, Replacements
<1>4. \A w \in Weights : Replaced(w) => \E n \in 1..k : nodes[n] = Dequantize(w)
  BY <1>1 DEF QuantInv, Replacements
<1>5. \A i \in 1..NumNodes : nodes[k + i].output = <<"node", i>>
  <2>1. Graph
    BY GraphShape DEF QuantInv, Types
  <2> QED
    BY <2>1, WrittenNodes DEF Graph
<1>6. ASSUME NEW m \in 1..k, NEW n \in 1..k, nodes[m].output = nodes[n].output
      PROVE  m = n
  <2>1. nodes[m] = nodes[n]
    BY <1>2, <1>3, <1>6
  <2> QED
    BY <1>1, <2>1 DEF QuantInv, Replacements
<1>7. ASSUME NEW m \in 1..k, NEW i \in 1..NumNodes
      PROVE  nodes[m].output # nodes[k + i].output
  BY <1>2, <1>3, <1>5
<1>8. ASSUME NEW h \in 1..NumNodes, NEW i \in 1..NumNodes, nodes[k + h].output = nodes[k + i].output
      PROVE  h = i
  BY <1>5, <1>8
<1>9. ASSUME NEW m \in 1..Len(nodes), NEW n \in 1..Len(nodes), nodes[m].output = nodes[n].output
      PROVE  m = n
  <2>1. ASSUME NEW x \in 1..Len(nodes)
        PROVE  x \in 1..k \/ (x - k \in 1..NumNodes /\ x = k + (x - k))
    BY <1>1
  <2>2. CASE m \in 1..k /\ n \in 1..k
    BY <1>6, <1>9, <2>2
  <2>3. CASE m \in 1..k /\ n \notin 1..k
    BY <1>7, <1>9, <2>1, <2>3
  <2>4. CASE m \notin 1..k /\ n \in 1..k
    BY <1>7, <1>9, <2>1, <2>4
  <2>5. CASE m \notin 1..k /\ n \notin 1..k
    <3>1. m - k \in 1..NumNodes /\ m = k + (m - k) /\ n - k \in 1..NumNodes /\ n = k + (n - k)
      BY <2>1, <2>5
    <3>2. m - k = n - k
      BY <1>8, <1>9, <3>1
    <3> QED
      BY <1>1, <3>2
  <2> QED
    BY <2>2, <2>3, <2>4, <2>5
<1> QED
  BY <1>2, <1>3, <1>4, <1>5, <1>9

\* What an old node can read.
LEMMA WrittenAvailable ==
  ASSUME QuantInv, pc = "done", NEW i \in 1..NumNodes, NEW x
  PROVE  x \in Available(Len(newNodes) + i) <=>
            \/ x = Activation
            \/ x \in InitMap
            \/ \E w \in Weights : Replaced(w) /\ x = <<"dequantized", w>>
            \/ \E m \in 1..(i - 1) : x = <<"node", m>>
<1> DEFINE k == Len(newNodes)
<1>1. k \in Nat /\ NumNodes \in Nat
  BY WrittenNodes, QuantizerAssumption
<1>2. PICK p \in Nat : p = k + i
  BY <1>1
<1>3. \A q : x \in Available(q) <=>
         x = Activation \/ x \in InitMap \/ \E n \in 1..(q - 1) : x = nodes[n].output
  BY DEF Available
<1>4. ASSUME NEW n \in 1..(p - 1)
      PROVE  \/ \E w \in Weights : Replaced(w) /\ nodes[n].output = <<"dequantized", w>>
             \/ \E m \in 1..(i - 1) : nodes[n].output = <<"node", m>>
  <2>1. CASE n \in 1..k
    BY <2>1, WrittenOutputs
  <2>2. CASE n \notin 1..k
    <3>1. n - k \in 1..(i - 1) /\ n - k \in 1..NumNodes /\ n = k + (n - k)
      BY <1>1, <1>2, <2>2
    <3> QED
      BY <3>1, WrittenOutputs
  <2> QED
    BY <2>1, <2>2
<1>5. ASSUME NEW w \in Weights, Replaced(w), x = <<"dequantized", w>>
      PROVE  x \in Available(p)
  <2>1. PICK n \in 1..k : nodes[n].output = <<"dequantized", w>>
    BY <1>5, WrittenOutputs
  <2>2. n \in 1..(p - 1)
    BY <1>1, <1>2
  <2> QED
    BY <1>3, <1>5, <2>1, <2>2
<1>6. ASSUME NEW m \in 1..(i - 1), x = <<"node", m>>
      PROVE  x \in Available(p)
  <2>1. m \in 1..NumNodes /\ k + m \in 1..(p - 1)
    BY <1>1, <1>2
  <2>2. nodes[k + m].output = x
    BY <1>6, <2>1, WrittenOutputs
  <2> QED
    BY <1>3, <2>1, <2>2
<1>7. ASSUME x = Activation \/ x \in InitMap PROVE x \in Available(p)
  BY <1>3, <1>7
<1>8. ASSUME x \in Available(p)
      PROVE  \/ x = Activation
             \/ x \in InitMap
             \/ \E w \in Weights : Replaced(w) /\ x = <<"dequantized", w>>
             \/ \E m \in 1..(i - 1) : x = <<"node", m>>
  BY <1>3, <1>4, <1>8
<1> QED
  BY <1>2, <1>5, <1>6, <1>7, <1>8

\* An input of an old node can be read if and only if the model has there what
\* the rewriting takes for granted.
LEMMA InputIsAvailable ==
  ASSUME QuantInv, pc = "done", NEW i \in 1..NumNodes, NEW j \in 1..Arity
  PROVE  nodes[Len(newNodes) + i].inputs[j] \in Available(Len(newNodes) + i) <=>
            (At(original, <<i, j>>) \in seen =>
                /\ kind[At(original, <<i, j>>)[2]] # "mismatch"
                /\ Candidate(original, <<i, j>>))
<1> DEFINE old == original[i].inputs[j]
           new == nodes[Len(newNodes) + i].inputs[j]
<1>1. At(original, <<i, j>>) = old
  BY DEF At
<1>2. new = IF IsWeight(i, j) THEN <<"dequantized", old[2]>> ELSE old
  BY WrittenNodes
<1>3. /\ old = Activation \/ old \in WeightNames \/ \E m \in 1..(i - 1) : old = <<"node", m>>
      /\ seen \subseteq WeightNames
  <2>1. Graph
    BY GraphShape DEF QuantInv, Types
  <2> QED
    BY <2>1 DEF Graph, Inputs, QuantInv, Types
<1>4. CASE IsWeight(i, j)
  <2>1. /\ old \in WeightNames /\ old = <<"weight", old[2]>> /\ old[2] \in Weights
        /\ Candidate(original, <<i, j>>) /\ old \in seen
    BY <1>1, <1>4, LoopsAreThrough DEF IsWeight, WeightNames
  <2>2. new = <<"dequantized", old[2]>>
    BY <1>2, <1>4
  <2>3. new # Activation /\ new \notin InitMap /\ \A m : new # <<"node", m>>
    BY <2>2, WrittenTensors DEF Activation, Names
  <2>4. new \in Available(Len(newNodes) + i) <=> Replaced(old[2])
    BY <2>1, <2>2, <2>3, WrittenAvailable
  <2>5. Replaced(old[2]) <=> kind[old[2]] # "mismatch"
    BY <2>1, LoopsAreThrough
  <2> QED
    BY <1>1, <2>1, <2>4, <2>5
<1>5. CASE ~IsWeight(i, j) /\ old \in WeightNames
  <2>1. old = <<"weight", old[2]>> /\ old[2] \in Weights
    BY <1>5 DEF WeightNames
  <2>2. new = old /\ new # Activation /\ \A x : new # <<"node", x>> /\ new # <<"dequantized", x>>
    BY <1>2, <1>5, <2>1 DEF Activation
  <2>3. new \in Available(Len(newNodes) + i) <=> old \notin seen
    <3>1. new \in Available(Len(newNodes) + i) <=> old \in InitMap
      BY <2>2, WrittenAvailable
    <3> QED
      BY <2>1, <3>1, WrittenTensors
  <2>4. ASSUME old \in seen PROVE ~Candidate(original, <<i, j>>)
    <3>1. kind[old[2]] \in Large
      BY <2>4, LoopsAreThrough DEF IsWeight, At
    <3> QED
      BY <1>1, <1>5, <3>1 DEF IsWeight
  <2> QED
    BY <1>1, <2>3, <2>4
<1>6. CASE old \notin WeightNames
  <2>1. new = old /\ old \notin seen
    BY <1>1, <1>2, <1>3, <1>6 DEF IsWeight
  <2>2. new \in Available(Len(newNodes) + i)
    BY <1>3, <1>6, <2>1, WrittenAvailable
  <2> QED
    BY <1>1, <2>1, <2>2
<1> QED
  BY <1>4, <1>5, <1>6

\* The graph that quantize.rs writes can be loaded exactly if no weight it visits
\* is skipped for its shape or used at an input it does not visit: each new name
\* is given once, however weights are shared, and each input is found.
THEOREM LoadableExactlyIf == Spec => []Loadable
<1>1. QuantInv => Loadable
  <2> SUFFICES ASSUME QuantInv, pc = "done" PROVE WellFormed <=> TakenForGranted
    BY DEF Loadable
  <2> DEFINE k == Len(newNodes)
  <2>1. k \in Nat /\ NumNodes \in Nat /\ Len(nodes) = k + NumNodes
    BY WrittenNodes, QuantizerAssumption
  <2>2. ASSUME NEW n \in 1..k PROVE Range(nodes[n].inputs) \subseteq Available(n)
    <3>1. PICK w \in Weights : Replaced(w) /\ nodes[n].inputs = Parts(w)
      BY WrittenOutputs
    <3>2. Range(Parts(w)) \subseteq InitMap
      BY <3>1, PartsOfWeight, WrittenTensors
    <3> QED
      BY <3>1, <3>2 DEF Available
  <2>3. ASSUME NEW i \in 1..NumNodes
        PROVE  Range(nodes[k + i].inputs) \subseteq Available(k + i) <=>
                  \A j \in 1..Arity : nodes[k + i].inputs[j] \in Available(k + i)
    BY WrittenNodes DEF Range
  <2>4. WellFormed <=> \A i \in 1..NumNodes : \A j \in 1..Arity :
                          nodes[k + i].inputs[j] \in Available(k + i)
    <3>1. WellFormed <=> \A n \in 1..Len(nodes) : Range(nodes[n].inputs) \subseteq Available(n)
      BY WrittenTensors, WrittenOutputs DEF WellFormed
    <3>2. \A n \in 1..Len(nodes) : n \in 1..k \/ (n - k \in 1..NumNodes /\ n = k + (n - k))
      BY <2>1
    <3>3. \A i \in 1..NumNodes : k + i \in 1..Len(nodes)
      BY <2>1
    <3> HIDE DEF k
    <3> QED
      BY <2>2, <2>3, <3>1, <3>2, <3>3
  <2>5. TakenForGranted <=> \A i \in 1..NumNodes : \A j \in 1..Arity :
           At(original, <<i, j>>) \in seen =>
                /\ kind[At(original, <<i, j>>)[2]] # "mismatch"
                /\ Candidate(original, <<i, j>>)
    BY DEF TakenForGranted
  <2> QED
    BY <2>4, <2>5, InputIsAvailable
<1> QED
  BY <1>1, Invariance, PTL
=============================================================================
