----------------------------- MODULE JarvisCore -----------------------------
(***************************************************************************)
(* jarvis_core.c: the AI core's singleton, its neural network and its     *)
(* knowledge base, as heap objects.  core holds what the instance points  *)
(* to (Blank before jarvis_core_init).  The network's per-neuron weight   *)
(* arrays (192 kmallocs whose NULL result no code reads) and the neurons' *)
(* random biases are left out: they hang below a neuron array and are     *)
(* never freed or read.                                                    *)
(***************************************************************************)
EXTENDS KernelHeap, Integers, Sequences

CONSTANTS
  CoreObjs,     \* kmalloc(sizeof(jarvis_core_t)) in jarvis_core_init
  NetObjs,      \* kmalloc(sizeof(neural_network_t))
  LayerObjs,    \* kmalloc(sizeof(neural_layer_t) * num_layers)
  NeuronObjs,   \* kmalloc(sizeof(neuron_t) * layer_sizes[i]), one per layer
  KbObjs,       \* kmalloc(sizeof(knowledge_base_t))
  KbArrObjs,    \* kmalloc(sizeof(knowledge_node_t*) * capacity)
  KbNodeObjs    \* kmalloc(sizeof(knowledge_node_t)) in knowledge_base_add

VARIABLES jarvis_instance, core

core_vars == <<jarvis_instance, core>>

JAR_OK == 0
JAR_NOMEM == -2
JAR_INVAL == -3
JAR_NOTFOUND == -4

\* u32 layers[] = {64, 128, 64}
NumLayers == 3

KbCapacity == 100

CoreInit == jarvis_instance = NULL /\ core = Blank

\* The heap after k neuron arrays were granted, one per layer.
NeuronsGranted(h, k) == CHOOSE s \in SUBSET (NeuronObjs \ h) : Cardinality(s) = k

\* neural_network_create(3, layers): net, then layers, then each layer's
\* neurons; a NULL layers or neurons array is stored through at once
\* (net->layers[i].num_neurons, neurons[j].bias).
NetworkOutcomes(h) ==
  {[heap |-> h, fault |-> "none", objs |-> {}, net |-> NULL]} \cup
  UNION {UNION {
    {IF l = NULL THEN [heap |-> h \cup {n}, fault |-> "null_store", objs |-> {n}, net |-> n]
     ELSE LET s == NeuronsGranted(h \cup {n, l}, k)
          IN  [heap |-> h \cup {n, l} \cup s,
               fault |-> IF k < NumLayers THEN "null_store" ELSE "none",
               objs |-> {n, l} \cup s, net |-> n]
     : k \in 0 .. IF Cardinality(NeuronObjs) < NumLayers THEN Cardinality(NeuronObjs) ELSE NumLayers}
    : l \in kmalloc(h \cup {n}, LayerObjs)}
  : n \in kmalloc(h, NetObjs) \ {NULL}}

\* knowledge_base_create: the nodes array is not checked.
KbOutcomes(h) ==
  {[heap |-> h, kb |-> NULL, nodes |-> NULL]} \cup
  UNION {{[heap |-> Granted(h \cup {b}, a), kb |-> b, nodes |-> a]
          : a \in kmalloc(h \cup {b}, KbArrObjs)}
         : b \in kmalloc(h, KbObjs) \ {NULL}}

\* jarvis_core_init when there is no instance yet.  A NULL kmalloc of the
\* instance returns JAR_NOMEM and changes nothing; a second call returns
\* JAR_OK and changes nothing.
jarvis_core_init ==
  /\ Running
  /\ jarvis_instance = NULL
  /\ \E c \in kmalloc(heap, CoreObjs) \ {NULL} :
     \E r \in NetworkOutcomes(heap \cup {c}) :
     \E b \in KbOutcomes(r.heap) :
       /\ jarvis_instance' = c
       /\ IF r.fault # "none"
          THEN heap' = r.heap /\ fault' = r.fault /\ core' = Blank
          ELSE /\ heap' = b.heap
               /\ fault' = "none"
               /\ core' = [net |-> r.net, net_objs |-> r.objs, knowledge |-> b.kb,
                           nodes |-> b.nodes, num_nodes |-> 0, node_objs |-> {}]

\* knowledge_base_add(jarvis_instance->knowledge, ...): the node's kmalloc
\* is not checked before strncpy writes into it.
knowledge_base_add ==
  /\ Running
  /\ core # Blank
  /\ IF core.knowledge = NULL
     THEN fault' = "null_read" /\ UNCHANGED <<heap, core_vars>>
     ELSE /\ core.num_nodes < KbCapacity
          /\ \E n \in kmalloc(heap, KbNodeObjs) :
               /\ heap' = Granted(heap, n)
               /\ fault' = IF n = NULL \/ core.nodes = NULL THEN "null_store" ELSE "none"
               /\ core' = [core EXCEPT !.num_nodes = @ + 1, !.node_objs = @ \cup {n}]
               /\ UNCHANGED jarvis_instance

\* jarvis_process_input: JAR_INVAL, response untouched, without an
\* instance; otherwise the matching definition or "Analyse en cours..."
\* is copied into response and JAR_OK returned.
jarvis_process_input == IF jarvis_instance = NULL THEN JAR_INVAL ELSE JAR_OK

CoreNext == jarvis_core_init \/ knowledge_base_add

\* neuron_t, neural_layer_t, neural_network_t: the network's objects.
NeuralNetworkObjs == SUBSET (NetObjs \cup LayerObjs \cup NeuronObjs)

\* knowledge_node_t, knowledge_base_t: the nodes kmalloc'd so far.
KnowledgeNodes == SUBSET (KbNodeObjs \cup {NULL})

\* jarvis_core_t, with the network and the knowledge base it points to.
jarvis_core_t ==
  [net : NetObjs \cup {NULL}, net_objs : NeuralNetworkObjs, knowledge : KbObjs \cup {NULL},
   nodes : KbArrObjs \cup {NULL}, num_nodes : 0 .. KbCapacity, node_objs : KnowledgeNodes]

\* The singleton is NULL or a core object, and a core holds at most one
\* node object per knowledge_base_add.
CoreTypeOK ==
  /\ jarvis_instance \in CoreObjs \cup {NULL}
  /\ core \in jarvis_core_t \cup {Blank}
  /\ core # Blank => Cardinality(core.node_objs) <= core.num_nodes

\* What the static jarvis_instance keeps reachable.
CoreReachable ==
  IF jarvis_instance = NULL THEN {}
  ELSE {jarvis_instance} \cup
       (IF core = Blank THEN {}
        ELSE (core.net_objs \cup {core.knowledge, core.nodes} \cup core.node_objs) \ {NULL})

=============================================================================
