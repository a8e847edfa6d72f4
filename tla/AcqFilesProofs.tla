--------------------------- MODULE AcqFilesProofs ---------------------------
(***************************************************************************)
(* Proofs about AcqFiles for any number of applications, addresses and     *)
(* types, every size of a chunk and of a request, and any number of        *)
(* requests, faults and restarts: the global map is the union of the       *)
(* lists, the module is in step with it between requests, and what was     *)
(* confirmed to an application is in its table.                            *)
(***************************************************************************)
EXTENDS AcqFiles, SequenceTheorems, FiniteSetTheorems, TLAPS

----------------------------------------------------------------------------
(* The inductive invariant. *)

Busy == step # "none"
Adding == Busy /\ job.op = "Add"
Deleting == Busy /\ job.op \in {"Del", "Clear"}

\* Which lists of nodes are empty where, and whose the request with the agent and the
\* result in the mailbox are.
ControlInv ==
  /\ stage \in {"clear", "clearing", "load"} => ~Busy
  /\ stage = "loading" => Busy
  /\ Busy => /\ (job.op = "Init" <=> stage = "loading")
             /\ job.op # "Init" => job.app \in Apps
             /\ job.op = "Init" => step \in {"chunk", "node", "wait"} /\ todo = << >>
  /\ ~Busy => rest = << >> /\ todo = << >> /\ (stage # "load" => nodes = << >>)
  /\ step = "chunk" => todo = << >> /\ nodes = << >>
  /\ step = "wait" => todo = << >>
  /\ step \in {"update", "save"} => todo # << >>
  /\ step \in {"wait", "update", "save"} => nodes # << >>

UartInv ==
  /\ uart # None =>
       /\ operation_result = None
       /\ \/ stage = "clearing" /\ uart.what = "Params"
          \/ /\ step = "wait"
             /\ uart.what = IF job.op \in {"Add", "Init"} THEN "AddNode" ELSE "DelNode"
             /\ uart.addrs = AddrsOf(nodes)
  /\ operation_result # None => stage = "clearing" \/ step = "wait"

\* What is left to do names each address once; what was found out about the nodes for the
\* module still holds when the module has answered.
WorkInv ==
  /\ Adding => ToSet(rest) \cup ToSet(todo) \cup ToSet(nodes) \subseteq NodeInfo
  /\ Busy /\ job.op = "Del" => \A n \in ToSet(rest) \cup ToSet(todo) \cup ToSet(nodes) : n.pro_type = NoType
  /\ Adding \/ Deleting => Distinct(rest) /\ Distinct(todo) /\ Distinct(nodes)
  /\ step = "node" => AddrsOf(nodes) \cap AddrsOf(todo) = {}
  /\ step = "update" => ToSet(todo) \subseteq ToSet(nodes)
  /\ Adding /\ step \in {"node", "wait"} => \A a \in AddrsOf(nodes) : global_data[a] = None
  /\ Adding /\ step = "update" => \A a \in AddrsOf(todo) : global_data[a] = None
  /\ Deleting /\ step \in {"node", "wait"} => \A a \in AddrsOf(nodes) : Holders(a) = {job.app}
  /\ Deleting /\ step = "update" =>
       /\ \A a \in AddrsOf(todo) : Holders(a) = {job.app}
       /\ \A a \in AddrsOf(nodes) \ AddrsOf(todo) : ~Has(job.app, a)
  /\ Deleting /\ step = "save" => \A a \in AddrsOf(todo) : ~Has(job.app, a)

\* A listed node has a row, or the request at work is about to insert it.
Unsaved(app) ==
  IF Adding /\ app = job.app
  THEN CASE step = "update" -> ToSet(nodes) [] step = "save" -> ToSet(todo) [] OTHER -> {}
  ELSE {}
ListedAreSaved == \A app \in Apps : ToSet(node_data[app]) \subseteq table[app] \cup Unsaved(app)

\* A node of an addition has a row or is still to be dealt with; no confirmed node is named
\* by a deletion at work.
SavedInv ==
  /\ ListedAreSaved
  /\ stage = "load" => \A app \in Apps : unread[app] \subseteq table[app]
  /\ Adding => /\ job.body \in Seq(NodeInfo)
               /\ ToSet(job.body) \subseteq table[job.app] \cup ToSet(rest) \cup ToSet(todo)
                                            \cup (IF step = "save" THEN {} ELSE ToSet(nodes))
  /\ AckedAreSaved
  /\ Deleting => \A n \in acked[job.app] :
       n.acq_addr \notin AddrsOf(rest) \cup AddrsOf(todo) \cup AddrsOf(nodes)
  /\ Busy /\ job.op = "Clear" => acked[job.app] = {}

\* The addresses the module has, outside doubt: those of the global map, but for the chunk
\* that the module has dealt with and the lists not yet; at start none, then those sent.
Filed == {a \in Addrs : global_data[a] # None}
Answered == step = "wait" /\ operation_result = "ok"
Ahead == CASE Answered -> AddrsOf(nodes) [] step = "update" -> AddrsOf(todo) [] OTHER -> {}
ModuleInv ==
  /\ stage = "ready" => \A a \in Addrs \ doubt :
       a \in module <=> IF Deleting THEN a \in Filed \ Ahead ELSE a \in Filed \cup Ahead
  /\ stage = "clearing" /\ operation_result # None => Filed = {}
  /\ stage = "clearing" /\ operation_result = "ok" => module = {}
  /\ stage = "load" => module = {} /\ Filed = AddrsOf(nodes)
  /\ stage = "loading" => /\ module \ doubt \subseteq Filed
                          /\ AddrsOf(rest) \cup AddrsOf(nodes) \subseteq Filed
                          /\ Filed \ doubt \subseteq module \cup AddrsOf(rest)
                                             \cup (IF Answered THEN {} ELSE AddrsOf(nodes))

IInv == TypeOK /\ ControlInv /\ UartInv /\ GlobalIsUnion /\ WorkInv /\ SavedInv /\ ModuleInv
----------------------------------------------------------------------------
(* Sequences of nodes. *)

\* What a list without nodes has.
LEMMA EmptyNodes ==
  ASSUME NEW S
  PROVE  << >> \in Seq(S) /\ ToSet(<< >>) = {} /\ AddrsOf(<< >>) = {} /\ Distinct(<< >>)
  BY DEF ToSet, AddrsOf, Distinct

\* The nodes of a list by their places.
LEMMA NodesAt ==
  ASSUME NEW S, NEW q \in Seq(S)
  PROVE  /\ ToSet(q) \subseteq S
         /\ \A x : x \in ToSet(q) <=> \E i \in 1 .. Len(q) : q[i] = x
         /\ \A a : a \in AddrsOf(q) <=> \E i \in 1 .. Len(q) : q[i].acq_addr = a
         /\ Len(q) \in Nat
<1>1. DOMAIN q = 1 .. Len(q) /\ Len(q) \in Nat /\ \A i \in 1 .. Len(q) : q[i] \in S
  BY LenProperties, ElementOfSeq
<1>2. \A x : x \in ToSet(q) <=> \E i \in 1 .. Len(q) : q[i] = x
  BY <1>1 DEF ToSet
<1>3. \A a : a \in AddrsOf(q) <=> \E i \in 1 .. Len(q) : q[i].acq_addr = a
  <2>1. ASSUME NEW a, a \in AddrsOf(q)
        PROVE  \E i \in 1 .. Len(q) : q[i].acq_addr = a
    BY <1>2, <2>1 DEF AddrsOf
  <2>2. ASSUME NEW a, NEW i \in 1 .. Len(q), q[i].acq_addr = a
        PROVE  a \in AddrsOf(q)
    BY <1>2, <2>2 DEF AddrsOf
  <2> QED
    BY <2>1, <2>2
<1> QED
  BY <1>1, <1>2, <1>3

\* The addresses of a list of nodes.
LEMMA AddrsOfTargets ==
  ASSUME NEW q \in Seq(Target)
  PROVE  AddrsOf(q) \subseteq Addrs
<1>1. ToSet(q) \subseteq Target
  BY NodesAt
<1> QED
  BY <1>1 DEF AddrsOf, Target

\* A loop takes the first node.
LEMMA HeadNode ==
  ASSUME NEW S, NEW q \in Seq(S), q # << >>
  PROVE  /\ Head(q) \in S /\ Tail(q) \in Seq(S)
         /\ ToSet(q) = {Head(q)} \cup ToSet(Tail(q))
         /\ AddrsOf(q) = {Head(q).acq_addr} \cup AddrsOf(Tail(q))
         /\ Distinct(q) => Distinct(Tail(q)) /\ Head(q).acq_addr \notin AddrsOf(Tail(q))
<1>1. /\ Head(q) \in S /\ Tail(q) \in Seq(S) /\ Head(q) = q[1]
      /\ Len(Tail(q)) = Len(q) - 1 /\ Len(q) \in Nat /\ Len(q) # 0
      /\ \A i \in 1 .. Len(Tail(q)) : Tail(q)[i] = q[i + 1]
  BY HeadTailProperties, EmptySeq, LenProperties
<1>2. ASSUME NEW i \in 1 .. Len(q), i # 1
      PROVE  i - 1 \in 1 .. Len(Tail(q)) /\ Tail(q)[i - 1] = q[i]
  BY <1>1, <1>2
<1>3. \A i \in 1 .. Len(Tail(q)) : i + 1 \in 1 .. Len(q) /\ 1 \in 1 .. Len(q)
  BY <1>1
<1>4. Tail(q) \in Seq(S)
  BY <1>1
<1>5. /\ \A x : x \in ToSet(Tail(q)) <=> \E i \in 1 .. Len(Tail(q)) : Tail(q)[i] = x
      /\ \A x : x \in ToSet(q) <=> \E i \in 1 .. Len(q) : q[i] = x
  BY <1>4, NodesAt
<1>6. ToSet(q) = {Head(q)} \cup ToSet(Tail(q))
  <2>1. ASSUME NEW x \in ToSet(q)
        PROVE  x \in {Head(q)} \cup ToSet(Tail(q))
    <3>1. PICK i \in 1 .. Len(q) : q[i] = x
      BY NodesAt
    <3>2. CASE i = 1
      BY <1>1, <3>1, <3>2
    <3>3. CASE i # 1
      <4>1. i - 1 \in 1 .. Len(Tail(q)) /\ Tail(q)[i - 1] = x
        BY <1>2, <3>1, <3>3
      <4> QED
        BY <1>5, <4>1
    <3> QED
      BY <3>2, <3>3
  <2>2. ASSUME NEW x \in {Head(q)} \cup ToSet(Tail(q))
        PROVE  x \in ToSet(q)
    <3>1. CASE x = Head(q)
      <4>1. 1 \in 1 .. Len(q) /\ q[1] = x
        BY <1>1, <3>1
      <4> QED
        BY <1>5, <4>1
    <3>2. CASE x \in ToSet(Tail(q))
      <4>1. PICK i \in 1 .. Len(Tail(q)) : Tail(q)[i] = x
        BY <1>5, <3>2
      <4>2. i + 1 \in 1 .. Len(q) /\ q[i + 1] = x
        BY <1>1, <1>3, <4>1
      <4> QED
        BY <1>5, <4>2
    <3> QED
      BY <2>2, <3>1, <3>2
  <2> QED
    BY <2>1, <2>2
<1>7. AddrsOf(q) = {Head(q).acq_addr} \cup AddrsOf(Tail(q))
  BY <1>6 DEF AddrsOf
<1>8. ASSUME Distinct(q)
      PROVE  Distinct(Tail(q)) /\ Head(q).acq_addr \notin AddrsOf(Tail(q))
  <2>1. ASSUME NEW i \in 1 .. Len(Tail(q)), NEW j \in 1 .. Len(Tail(q)),
               Tail(q)[i].acq_addr = Tail(q)[j].acq_addr
        PROVE  i = j
    <3>1. i + 1 = j + 1
      BY <1>1, <1>3, <1>8, <2>1 DEF Distinct
    <3> QED
      BY <1>1, <3>1
  <2>2. ASSUME NEW i \in 1 .. Len(Tail(q)), Tail(q)[i].acq_addr = Head(q).acq_addr
        PROVE  FALSE
    <3>1. i + 1 = 1
      BY <1>1, <1>3, <1>8, <2>2 DEF Distinct
    <3> QED
      BY <1>1, <3>1
  <2> QED
    BY <1>1, <2>1, <2>2, NodesAt DEF Distinct
<1> QED
  BY <1>1, <1>6, <1>7, <1>8

\* A node goes behind the others.
LEMMA AppendNode ==
  ASSUME NEW S, NEW q \in Seq(S), NEW x \in S
  PROVE  /\ Append(q, x) \in Seq(S) /\ Append(q, x) # << >>
         /\ ToSet(Append(q, x)) = ToSet(q) \cup {x}
         /\ AddrsOf(Append(q, x)) = AddrsOf(q) \cup {x.acq_addr}
         /\ Distinct(q) /\ x.acq_addr \notin AddrsOf(q) => Distinct(Append(q, x))
<1>1. /\ Append(q, x) \in Seq(S) /\ Append(q, x) # << >>
      /\ Len(Append(q, x)) = Len(q) + 1 /\ Len(q) \in Nat
      /\ \A i \in 1 .. Len(q) : Append(q, x)[i] = q[i]
      /\ Append(q, x)[Len(q) + 1] = x
  BY AppendProperties, LenProperties
<1>2. \A i \in 1 .. Len(Append(q, x)) : i \in 1 .. Len(q) \/ i = Len(q) + 1
  BY <1>1
<1>3. Len(q) + 1 \in 1 .. Len(Append(q, x)) /\ 1 .. Len(q) \subseteq 1 .. Len(Append(q, x))
  BY <1>1
<1>4. ToSet(Append(q, x)) = ToSet(q) \cup {x}
  <2>1. ASSUME NEW y \in ToSet(Append(q, x))
        PROVE  y \in ToSet(q) \cup {x}
    <3>1. PICK i \in 1 .. Len(Append(q, x)) : Append(q, x)[i] = y
      BY <1>1, NodesAt
    <3> QED
      BY <1>1, <1>2, <3>1, NodesAt
  <2>2. ASSUME NEW y \in ToSet(q) \cup {x}
        PROVE  y \in ToSet(Append(q, x))
    <3>1. CASE y = x
      BY <1>1, <1>3, <3>1, NodesAt
    <3>2. CASE y \in ToSet(q)
      <4>1. PICK i \in 1 .. Len(q) : q[i] = y
        BY <3>2, NodesAt
      <4>2. i \in 1 .. Len(Append(q, x)) /\ Append(q, x)[i] = y
        BY <1>1, <1>3, <4>1
      <4> QED
        BY <1>1, <4>2, NodesAt
    <3> QED
      BY <2>2, <3>1, <3>2
  <2> QED
    BY <2>1, <2>2
<1>5. AddrsOf(Append(q, x)) = AddrsOf(q) \cup {x.acq_addr}
  BY <1>4 DEF AddrsOf
<1>6. ASSUME Distinct(q), x.acq_addr \notin AddrsOf(q)
      PROVE  Distinct(Append(q, x))
  <2>1. \A i \in 1 .. Len(q) : q[i].acq_addr # x.acq_addr
    BY <1>6, NodesAt
  <2> QED
    BY <1>1, <1>2, <1>6, <2>1 DEF Distinct
<1> QED
  BY <1>1, <1>4, <1>5, <1>6

\* A chunk is taken off the front.
LEMMA SplitNodes ==
  ASSUME NEW S, NEW q \in Seq(S), NEW k \in 0 .. Len(q)
  PROVE  /\ SubSeq(q, 1, k) \in Seq(S) /\ SubSeq(q, k + 1, Len(q)) \in Seq(S)
         /\ ToSet(q) = ToSet(SubSeq(q, 1, k)) \cup ToSet(SubSeq(q, k + 1, Len(q)))
         /\ AddrsOf(q) = AddrsOf(SubSeq(q, 1, k)) \cup AddrsOf(SubSeq(q, k + 1, Len(q)))
         /\ Distinct(q) => Distinct(SubSeq(q, 1, k)) /\ Distinct(SubSeq(q, k + 1, Len(q)))
<1> DEFINE c == SubSeq(q, 1, k)
           r == SubSeq(q, k + 1, Len(q))
<1>1. Len(q) \in Nat /\ k \in Nat /\ k <= Len(q) /\ \A i \in 1 .. Len(q) : q[i] \in S
  BY LenProperties, ElementOfSeq
<1>2. c \in Seq(S) /\ Len(c) = k /\ \A i \in 1 .. k : c[i] = q[i]
  BY <1>1, SubSeqProperties
<1>3. r \in Seq(S) /\ Len(r) = Len(q) - k /\ \A i \in 1 .. Len(q) - k : r[i] = q[k + i]
  <2>1. \A i \in k + 1 .. Len(q) : q[i] \in S
    BY <1>1
  <2>2. /\ r \in Seq(S)
        /\ Len(r) = IF k + 1 <= Len(q) THEN Len(q) - (k + 1) + 1 ELSE 0
        /\ \A i \in 1 .. Len(q) - (k + 1) + 1 : r[i] = q[(k + 1) + i - 1]
    BY <1>1, <2>1, SubSeqProperties
  <2> QED
    BY <1>1, <2>2
<1> HIDE DEF c, r
<1>4. c \in Seq(S) /\ r \in Seq(S)
  BY <1>2, <1>3
<1>5. /\ \A x : x \in ToSet(c) <=> \E i \in 1 .. Len(c) : c[i] = x
      /\ \A x : x \in ToSet(r) <=> \E i \in 1 .. Len(r) : r[i] = x
      /\ \A x : x \in ToSet(q) <=> \E i \in 1 .. Len(q) : q[i] = x
  <2>1. \A x : x \in ToSet(c) <=> \E i \in 1 .. Len(c) : c[i] = x
    BY <1>4, NodesAt
  <2>2. \A x : x \in ToSet(r) <=> \E i \in 1 .. Len(r) : r[i] = x
    BY <1>4, NodesAt
  <2>3. \A x : x \in ToSet(q) <=> \E i \in 1 .. Len(q) : q[i] = x
    BY NodesAt
  <2> QED
    BY <2>1, <2>2, <2>3
<1>6. ToSet(q) = ToSet(c) \cup ToSet(r)
  <2>1. ASSUME NEW y \in ToSet(q)
        PROVE  y \in ToSet(c) \cup ToSet(r)
    <3>1. PICK i \in 1 .. Len(q) : q[i] = y
      BY <1>5
    <3>2. CASE i <= k
      <4>1. i \in 1 .. Len(c) /\ c[i] = y
        BY <1>1, <1>2, <3>1, <3>2
      <4> QED
        BY <1>5, <4>1
    <3>3. CASE i > k
      <4>1. i - k \in 1 .. Len(r) /\ r[i - k] = y
        BY <1>1, <1>3, <3>1, <3>3
      <4> QED
        BY <1>3, <4>1, <1>5
    <3> QED
      BY <1>1, <3>2, <3>3
  <2>2. ASSUME NEW y \in ToSet(c)
        PROVE  y \in ToSet(q)
    <3>1. PICK i \in 1 .. Len(c) : c[i] = y
      BY <1>5, <2>2
    <3>2. i \in 1 .. Len(q) /\ q[i] = y
      BY <1>1, <1>2, <3>1
    <3> QED
      BY <1>5, <3>2
  <2>3. ASSUME NEW y \in ToSet(r)
        PROVE  y \in ToSet(q)
    <3>1. PICK i \in 1 .. Len(r) : r[i] = y
      BY <1>3, <2>3, <1>5
    <3>2. k + i \in 1 .. Len(q) /\ q[k + i] = y
      BY <1>1, <1>3, <3>1
    <3> QED
      BY <3>2, <1>5
  <2> QED
    BY <2>1, <2>2, <2>3
<1>7. AddrsOf(q) = AddrsOf(c) \cup AddrsOf(r)
  BY <1>6 DEF AddrsOf
<1>8. ASSUME Distinct(q)
      PROVE  Distinct(c) /\ Distinct(r)
  <2>1. Distinct(c)
    BY <1>1, <1>2, <1>8 DEF Distinct
  <2>2. ASSUME NEW i \in 1 .. Len(r), NEW j \in 1 .. Len(r), r[i].acq_addr = r[j].acq_addr
        PROVE  i = j
    <3>1. k + i \in 1 .. Len(q) /\ k + j \in 1 .. Len(q) /\ q[k + i] = r[i] /\ q[k + j] = r[j]
      BY <1>1, <1>3
    <3>2. k + i = k + j
      BY <1>8, <2>2, <3>1 DEF Distinct
    <3> QED
      BY <1>1, <3>2
  <2> QED
    BY <2>1, <2>2 DEF Distinct
<1> QED
  BY <1>4, <1>6, <1>7, <1>8 DEF c, r

\* Vec::remove: the node of an address leaves a list that has it once.
LEMMA RemovedNode ==
  ASSUME NEW S, NEW q \in Seq(S), Distinct(q), NEW p \in 1 .. Len(q)
  PROVE  /\ Removed(q, p) \in Seq(S) /\ Distinct(Removed(q, p))
         /\ ToSet(Removed(q, p)) = ToSet(q) \ {q[p]}
         /\ AddrsOf(Removed(q, p)) = AddrsOf(q) \ {q[p].acq_addr}
<1> DEFINE r == Removed(q, p)
<1>1. Len(q) \in Nat /\ p \in Nat /\ 1 <= p /\ p <= Len(q) /\ \A i \in 1 .. Len(q) : q[i] \in S
  BY LenProperties, ElementOfSeq
<1>2. /\ r \in Seq(S) /\ Len(r) = Len(q) - 1
      /\ \A i \in 1 .. Len(r) : r[i] = IF i < p THEN q[i] ELSE q[i + 1]
  <2>1. \A i \in 1 .. Len(q) - 1 : i \in 1 .. Len(q) /\ i + 1 \in 1 .. Len(q)
    BY <1>1
  <2>2. r \in [1 .. Len(q) - 1 -> S] /\ Len(q) - 1 \in Nat
    BY <1>1, <2>1 DEF Removed
  <2>3. r \in Seq(S) /\ Len(r) = Len(q) - 1
    BY <2>2, IsASeq
  <2> QED
    BY <2>3 DEF Removed
<1> HIDE DEF r
<1>3. ASSUME NEW i \in 1 .. Len(r)
      PROVE  \E j \in 1 .. Len(q) : j # p /\ r[i] = q[j] /\ j = IF i < p THEN i ELSE i + 1
  BY <1>1, <1>2
<1>4. ASSUME NEW j \in 1 .. Len(q), j # p
      PROVE  \E i \in 1 .. Len(r) : r[i] = q[j]
  <2>1. CASE j < p
    BY <1>1, <1>2, <2>1
  <2>2. CASE j > p
    <3>1. j - 1 \in 1 .. Len(r) /\ r[j - 1] = q[j]
      BY <1>1, <1>2, <2>2
    <3> QED
      BY <3>1
  <2> QED
    BY <1>1, <1>4, <2>1, <2>2
<1>5. \A j \in 1 .. Len(q) : q[j].acq_addr = q[p].acq_addr => j = p
  BY DEF Distinct
<1>6. ToSet(r) = ToSet(q) \ {q[p]}
  <2>1. ASSUME NEW y \in ToSet(r)
        PROVE  y \in ToSet(q) \ {q[p]}
    <3>1. PICK i \in 1 .. Len(r) : r[i] = y
      BY <1>2, <2>1, NodesAt
    <3>2. PICK j \in 1 .. Len(q) : j # p /\ y = q[j]
      BY <1>3, <3>1
    <3>3. q[j] # q[p]
      BY <1>5, <3>2
    <3> QED
      BY <3>2, <3>3, NodesAt
  <2>2. ASSUME NEW y \in ToSet(q), y # q[p]
        PROVE  y \in ToSet(r)
    <3>1. PICK j \in 1 .. Len(q) : q[j] = y
      BY <2>2, NodesAt
    <3> QED
      BY <1>2, <1>4, <2>2, <3>1, NodesAt
  <2> QED
    BY <2>1, <2>2
<1>7. AddrsOf(r) = AddrsOf(q) \ {q[p].acq_addr}
  <2>1. ASSUME NEW a \in AddrsOf(r)
        PROVE  a \in AddrsOf(q) /\ a # q[p].acq_addr
    <3>1. PICK i \in 1 .. Len(r) : r[i].acq_addr = a
      BY <1>2, <2>1, NodesAt
    <3>2. PICK j \in 1 .. Len(q) : j # p /\ q[j].acq_addr = a
      BY <1>3, <3>1
    <3> QED
      BY <1>5, <3>2, NodesAt
  <2>2. ASSUME NEW a \in AddrsOf(q), a # q[p].acq_addr
        PROVE  a \in AddrsOf(r)
    <3>1. PICK j \in 1 .. Len(q) : q[j].acq_addr = a
      BY <2>2, NodesAt
    <3>2. j # p
      BY <2>2, <3>1
    <3> QED
      BY <1>2, <1>4, <3>1, <3>2, NodesAt
  <2> QED
    BY <2>1, <2>2
<1>8. Distinct(r)
  <2>1. ASSUME NEW i \in 1 .. Len(r), NEW j \in 1 .. Len(r), r[i].acq_addr = r[j].acq_addr
        PROVE  i = j
    <3>1. (IF i < p THEN i ELSE i + 1) = (IF j < p THEN j ELSE j + 1)
      BY <1>3, <2>1 DEF Distinct
    <3> QED
      BY <1>1, <1>2, <3>1
  <2> QED
    BY <2>1 DEF Distinct
<1> QED
  BY <1>2, <1>6, <1>7, <1>8 DEF r

----------------------------------------------------------------------------
(* The lists and the global map, for lists nd and a map g. *)

UnionOf(nd, g) ==
  /\ nd \in [Apps -> Seq(NodeInfo)] /\ g \in [Addrs -> Types \cup {None}]
  /\ \A a \in Addrs : (\E app \in Apps : a \in AddrsOf(nd[app])) <=> g[a] # None
  /\ \A app \in Apps : /\ Distinct(nd[app])
                       /\ \A n \in ToSet(nd[app]) : n.pro_type = g[n.acq_addr]

\* The lists with one node more or less; the map with a changed entry.
Grown(nd, app, n) == [nd EXCEPT ![app] = Append(@, n)]
Shrunk(nd, app, i) == [nd EXCEPT ![app] = Removed(@, i)]
Entered(g, a, t) == [g EXCEPT ![a] = t]

\* It is GlobalIsUnion of the lists and the map of a state.
LEMMA UnionIs ==
  ASSUME node_data \in [Apps -> Seq(NodeInfo)], global_data \in [Addrs -> Types \cup {None}]
  PROVE  GlobalIsUnion <=> UnionOf(node_data, global_data)
<1>1. \A a : Holders(a) # {} <=> \E app \in Apps : a \in AddrsOf(node_data[app])
  BY DEF Holders, Has
<1> QED
  BY <1>1 DEF GlobalIsUnion, UnionOf

\* The same of the lists and the map after a step.
LEMMA UnionNext ==
  ASSUME UnionOf(node_data', global_data')
  PROVE  /\ node_data' \in [Apps -> Seq(NodeInfo)] /\ global_data' \in [Addrs -> Types \cup {None}]
         /\ GlobalIsUnion'
<1>1. \A a \in Addrs : Holders(a)' # {} <=> \E app \in Apps : a \in AddrsOf(node_data'[app])
  BY DEF Holders, Has
<1> QED
  BY <1>1 DEF UnionOf, GlobalIsUnion

\* A step that leaves the lists alone.
LEMMA SameLists ==
  ASSUME GlobalIsUnion, UNCHANGED config
  PROVE  /\ GlobalIsUnion' /\ Filed' = Filed
         /\ \A a : Holders(a)' = Holders(a)
         /\ \A app, a : Has(app, a)' <=> Has(app, a)
<1>1. node_data' = node_data /\ global_data' = global_data
  BY DEF config
<1>2. \A a : Holders(a)' = Holders(a)
  BY <1>1 DEF Holders, Has
<1>3. \A app, a : Has(app, a)' <=> Has(app, a)
  BY <1>1 DEF Has
<1> QED
  BY <1>1, <1>2, <1>3 DEF GlobalIsUnion, Filed

\* What is known of a node that is listed.
LEMMA ListedFacts ==
  ASSUME NEW nd, NEW g, UnionOf(nd, g), NEW app \in Apps
  PROVE  /\ nd[app] \in Seq(NodeInfo) /\ Distinct(nd[app])
         /\ ToSet(nd[app]) \subseteq NodeInfo /\ AddrsOf(nd[app]) \subseteq Addrs
         /\ \A n \in ToSet(nd[app]) : /\ n.pro_type = g[n.acq_addr] /\ n.acq_addr \in Addrs
                                       /\ n.acq_addr \in AddrsOf(nd[app])
         /\ \A a \in AddrsOf(nd[app]) :
              /\ g[a] \in Types /\ g[a] # None
              /\ [acq_addr |-> a, pro_type |-> g[a]] \in ToSet(nd[app])
<1>1. nd[app] \in Seq(NodeInfo) /\ Distinct(nd[app])
  BY DEF UnionOf
<1>2. ToSet(nd[app]) \subseteq NodeInfo
  BY <1>1, NodesAt
<1>3. AddrsOf(nd[app]) \subseteq Addrs
  BY <1>2 DEF AddrsOf, NodeInfo
<1>4. ASSUME NEW n \in ToSet(nd[app])
      PROVE  /\ n.pro_type = g[n.acq_addr] /\ n.acq_addr \in Addrs
             /\ n.acq_addr \in AddrsOf(nd[app])
  BY <1>2 DEF UnionOf, AddrsOf, NodeInfo
<1>5. ASSUME NEW a \in AddrsOf(nd[app])
      PROVE  /\ g[a] \in Types /\ g[a] # None
             /\ [acq_addr |-> a, pro_type |-> g[a]] \in ToSet(nd[app])
  <2>1. PICK n \in ToSet(nd[app]) : n.acq_addr = a
    BY <1>5 DEF AddrsOf
  <2>2. n \in NodeInfo /\ n.pro_type = g[a]
    BY <1>2, <1>4, <2>1
  <2>3. n = [acq_addr |-> a, pro_type |-> g[a]] /\ g[a] \in Types
    BY <2>1, <2>2 DEF NodeInfo
  <2> QED
    BY <2>1, <2>3, TypesAssumption
<1> QED
  BY <1>1, <1>2, <1>3, <1>4, <1>5

\* A node joins a list.
LEMMA ListGrows ==
  ASSUME NEW nd \in [Apps -> Seq(NodeInfo)], NEW app \in Apps, NEW n \in NodeInfo
  PROVE  /\ Grown(nd, app, n) \in [Apps -> Seq(NodeInfo)]
         /\ ToSet(Grown(nd, app, n)[app]) = ToSet(nd[app]) \cup {n}
         /\ AddrsOf(Grown(nd, app, n)[app]) = AddrsOf(nd[app]) \cup {n.acq_addr}
         /\ Distinct(nd[app]) /\ n.acq_addr \notin AddrsOf(nd[app]) => Distinct(Grown(nd, app, n)[app])
         /\ \A x \in Apps : x # app => Grown(nd, app, n)[x] = nd[x]
<1>1. nd[app] \in Seq(NodeInfo)
  OBVIOUS
<1>2. Grown(nd, app, n)[app] = Append(nd[app], n)
  BY DEF Grown
<1>3. /\ Append(nd[app], n) \in Seq(NodeInfo)
      /\ ToSet(Grown(nd, app, n)[app]) = ToSet(nd[app]) \cup {n}
      /\ AddrsOf(Grown(nd, app, n)[app]) = AddrsOf(nd[app]) \cup {n.acq_addr}
      /\ Distinct(nd[app]) /\ n.acq_addr \notin AddrsOf(nd[app]) => Distinct(Grown(nd, app, n)[app])
  BY <1>1, <1>2, AppendNode
<1> QED
  BY <1>3 DEF Grown

\* A node leaves a list.
LEMMA ListShrinks ==
  ASSUME NEW nd \in [Apps -> Seq(NodeInfo)], NEW app \in Apps, Distinct(nd[app]),
         NEW i \in 1 .. Len(nd[app])
  PROVE  /\ Shrunk(nd, app, i) \in [Apps -> Seq(NodeInfo)]
         /\ ToSet(Shrunk(nd, app, i)[app]) = ToSet(nd[app]) \ {nd[app][i]}
         /\ AddrsOf(Shrunk(nd, app, i)[app]) = AddrsOf(nd[app]) \ {nd[app][i].acq_addr}
         /\ Distinct(Shrunk(nd, app, i)[app])
         /\ \A x \in Apps : x # app => Shrunk(nd, app, i)[x] = nd[x]
<1>1. nd[app] \in Seq(NodeInfo)
  OBVIOUS
<1>2. Shrunk(nd, app, i)[app] = Removed(nd[app], i)
  BY DEF Shrunk
<1>3. /\ Removed(nd[app], i) \in Seq(NodeInfo)
      /\ ToSet(Shrunk(nd, app, i)[app]) = ToSet(nd[app]) \ {nd[app][i]}
      /\ AddrsOf(Shrunk(nd, app, i)[app]) = AddrsOf(nd[app]) \ {nd[app][i].acq_addr}
      /\ Distinct(Shrunk(nd, app, i)[app])
  BY <1>1, <1>2, RemovedNode
<1> QED
  BY <1>3 DEF Shrunk

\* add_node_info_checked of an address nobody has keeps the map the union of the lists.
LEMMA UnionAdds ==
  ASSUME NEW nd, NEW g, UnionOf(nd, g), NEW app \in Apps, NEW n \in NodeInfo,
         g[n.acq_addr] = None
  PROVE  UnionOf(Grown(nd, app, n), Entered(g, n.acq_addr, n.pro_type))
<1> DEFINE a == n.acq_addr
           nd1 == Grown(nd, app, n)
           g1 == Entered(g, a, n.pro_type)
<1>1. a \in Addrs /\ n.pro_type \in Types /\ n.pro_type # None
  BY TypesAssumption DEF NodeInfo
<1>2. nd \in [Apps -> Seq(NodeInfo)] /\ g \in [Addrs -> Types \cup {None}]
  BY DEF UnionOf
<1>3. \A x \in Apps : a \notin AddrsOf(nd[x])
  BY <1>1 DEF UnionOf
<1>4. /\ nd1 \in [Apps -> Seq(NodeInfo)]
      /\ ToSet(nd1[app]) = ToSet(nd[app]) \cup {n}
      /\ AddrsOf(nd1[app]) = AddrsOf(nd[app]) \cup {n.acq_addr}
      /\ Distinct(nd[app]) /\ n.acq_addr \notin AddrsOf(nd[app]) => Distinct(nd1[app])
      /\ \A x \in Apps : x # app => nd1[x] = nd[x]
  BY <1>2, ListGrows, Zenon
<1>5. Distinct(nd1[app]) /\ AddrsOf(nd1[app]) = AddrsOf(nd[app]) \cup {a}
  BY <1>3, <1>4 DEF UnionOf
<1>6. g1 \in [Addrs -> Types \cup {None}] /\ g1[a] = n.pro_type /\ \A b \in Addrs : b # a => g1[b] = g[b]
  BY <1>1, <1>2 DEF Entered
<1> HIDE DEF a, nd1, g1
<1>7. ASSUME NEW b \in Addrs
      PROVE  (\E x \in Apps : b \in AddrsOf(nd1[x])) <=> g1[b] # None
  <2>1. CASE b = a
    BY <1>1, <1>4, <1>5, <1>6, <2>1
  <2>2. CASE b # a
    <3>1. \A x \in Apps : b \in AddrsOf(nd1[x]) <=> b \in AddrsOf(nd[x])
      BY <1>4, <1>5, <2>2
    <3> QED
      BY <1>6, <2>2, <3>1 DEF UnionOf
  <2> QED
    BY <2>1, <2>2
<1>8. ASSUME NEW x \in Apps
      PROVE  Distinct(nd1[x]) /\ \A m \in ToSet(nd1[x]) : m.pro_type = g1[m.acq_addr]
  <2>1. Distinct(nd1[x])
    BY <1>4, <1>5 DEF UnionOf
  <2>2. ASSUME NEW m \in ToSet(nd1[x])
        PROVE  m.pro_type = g1[m.acq_addr]
    <3>1. CASE m = n /\ x = app
      BY <1>6, <3>1 DEF a
    <3>2. CASE ~(m = n /\ x = app)
      <4>1. m \in ToSet(nd[x])
        BY <1>4, <1>5, <3>2
      <4>2. m.pro_type = g[m.acq_addr] /\ m.acq_addr \in Addrs /\ m.acq_addr \in AddrsOf(nd[x])
        BY <4>1, ListedFacts
      <4> QED
        BY <1>3, <1>6, <4>2
    <3> QED
      BY <3>1, <3>2
  <2> QED
    BY <2>1, <2>2
<1>9. UnionOf(nd1, g1)
  BY <1>4, <1>5, <1>6, <1>7, <1>8 DEF UnionOf
<1> QED
  BY <1>9 DEF a, nd1, g1

\* A list gets a reference to a node that is known.
LEMMA UnionShares ==
  ASSUME NEW nd, NEW g, UnionOf(nd, g), NEW app \in Apps, NEW n \in NodeInfo,
         g[n.acq_addr] = n.pro_type, n.acq_addr \notin AddrsOf(nd[app])
  PROVE  UnionOf(Grown(nd, app, n), g)
<1> DEFINE nd1 == Grown(nd, app, n)
<1>1. n.acq_addr \in Addrs /\ n.pro_type \in Types /\ n.pro_type # None
  BY TypesAssumption DEF NodeInfo
<1>2. nd \in [Apps -> Seq(NodeInfo)] /\ g \in [Addrs -> Types \cup {None}]
  BY DEF UnionOf
<1>3. /\ nd1 \in [Apps -> Seq(NodeInfo)]
      /\ ToSet(nd1[app]) = ToSet(nd[app]) \cup {n}
      /\ AddrsOf(nd1[app]) = AddrsOf(nd[app]) \cup {n.acq_addr}
      /\ Distinct(nd[app]) /\ n.acq_addr \notin AddrsOf(nd[app]) => Distinct(nd1[app])
      /\ \A x \in Apps : x # app => nd1[x] = nd[x]
  BY <1>2, ListGrows, Zenon
<1>4. Distinct(nd1[app])
  BY <1>3 DEF UnionOf
<1> HIDE DEF nd1
<1>5. ASSUME NEW b \in Addrs
      PROVE  (\E x \in Apps : b \in AddrsOf(nd1[x])) <=> g[b] # None
  <2>1. CASE b = n.acq_addr
    BY <1>1, <1>3, <1>4, <2>1
  <2>2. CASE b # n.acq_addr
    <3>1. \A x \in Apps : b \in AddrsOf(nd1[x]) <=> b \in AddrsOf(nd[x])
      BY <1>3, <1>4, <2>2
    <3> QED
      BY <2>2, <3>1 DEF UnionOf
  <2> QED
    BY <2>1, <2>2
<1>6. ASSUME NEW x \in Apps
      PROVE  Distinct(nd1[x]) /\ \A m \in ToSet(nd1[x]) : m.pro_type = g[m.acq_addr]
  BY <1>3, <1>4 DEF UnionOf
<1>7. UnionOf(nd1, g)
  BY <1>2, <1>3, <1>4, <1>5, <1>6 DEF UnionOf
<1> QED
  BY <1>7 DEF nd1

\* The last reference to a node goes, with its entry in the map, or another stays.
LEMMA UnionRemoves ==
  ASSUME NEW nd, NEW g, UnionOf(nd, g), NEW app \in Apps,
         NEW i \in 1 .. Len(nd[app]), NEW a \in Addrs, nd[app][i].acq_addr = a
  PROVE  /\ (\A x \in Apps \ {app} : a \notin AddrsOf(nd[x])) =>
              UnionOf(Shrunk(nd, app, i), Entered(g, a, None))
         /\ (\E x \in Apps \ {app} : a \in AddrsOf(nd[x])) => UnionOf(Shrunk(nd, app, i), g)
<1> DEFINE nd1 == Shrunk(nd, app, i)
<1>1. nd \in [Apps -> Seq(NodeInfo)] /\ g \in [Addrs -> Types \cup {None}] /\ Distinct(nd[app])
  BY DEF UnionOf
<1>2. /\ nd1 \in [Apps -> Seq(NodeInfo)]
      /\ ToSet(nd1[app]) = ToSet(nd[app]) \ {nd[app][i]}
      /\ AddrsOf(nd1[app]) = AddrsOf(nd[app]) \ {a}
      /\ Distinct(nd1[app])
      /\ \A x \in Apps : x # app => nd1[x] = nd[x]
  <2>1. /\ nd1 \in [Apps -> Seq(NodeInfo)]
        /\ ToSet(nd1[app]) = ToSet(nd[app]) \ {nd[app][i]}
        /\ AddrsOf(nd1[app]) = AddrsOf(nd[app]) \ {nd[app][i].acq_addr}
        /\ Distinct(nd1[app])
        /\ \A x \in Apps : x # app => nd1[x] = nd[x]
    BY <1>1, ListShrinks, Zenon
  <2> HIDE DEF nd1
  <2> QED
    BY <2>1
<1> HIDE DEF nd1
<1>3. \A x \in Apps : Distinct(nd1[x]) /\ \A m \in ToSet(nd1[x]) : m \in ToSet(nd[x])
  BY <1>2 DEF UnionOf
<1>4. \A b \in Addrs : b # a => \A x \in Apps : b \in AddrsOf(nd1[x]) <=> b \in AddrsOf(nd[x])
  BY <1>2
<1>5. ASSUME \E x \in Apps \ {app} : a \in AddrsOf(nd[x])
      PROVE  UnionOf(nd1, g)
  <2>1. \E x \in Apps : a \in AddrsOf(nd1[x])
    BY <1>2, <1>5
  <2>2. ASSUME NEW b \in Addrs
        PROVE  (\E x \in Apps : b \in AddrsOf(nd1[x])) <=> g[b] # None
    BY <1>4, <1>5, <2>1 DEF UnionOf
  <2>3. \A x \in Apps : \A m \in ToSet(nd1[x]) : m.pro_type = g[m.acq_addr]
    BY <1>3 DEF UnionOf
  <2> QED
    BY <1>1, <1>2, <1>3, <2>2, <2>3 DEF UnionOf
<1>6. ASSUME \A x \in Apps \ {app} : a \notin AddrsOf(nd[x])
      PROVE  UnionOf(nd1, Entered(g, a, None))
  <2> DEFINE g1 == Entered(g, a, None)
  <2>1. g1 \in [Addrs -> Types \cup {None}] /\ g1[a] = None /\ \A b \in Addrs : b # a => g1[b] = g[b]
    BY <1>1 DEF Entered
  <2> HIDE DEF g1
  <2>2. \A x \in Apps : a \notin AddrsOf(nd1[x])
    BY <1>2, <1>6
  <2>3. ASSUME NEW b \in Addrs
        PROVE  (\E x \in Apps : b \in AddrsOf(nd1[x])) <=> g1[b] # None
    BY <1>4, <2>1, <2>2 DEF UnionOf
  <2>4. ASSUME NEW x \in Apps, NEW m \in ToSet(nd1[x])
        PROVE  m.pro_type = g1[m.acq_addr]
    <3>1. m \in ToSet(nd[x])
      BY <1>3, <2>4
    <3>2. m.pro_type = g[m.acq_addr] /\ m.acq_addr \in Addrs
      BY <3>1, ListedFacts
    <3>3. m.acq_addr \in AddrsOf(nd1[x])
      BY <2>4 DEF AddrsOf
    <3> QED
      BY <2>1, <2>2, <3>2, <3>3
  <2>5. UnionOf(nd1, g1)
    BY <1>2, <1>3, <2>1, <2>3, <2>4 DEF UnionOf
  <2> QED
    BY <2>5 DEF g1
<1> QED
  BY <1>5, <1>6 DEF nd1

----------------------------------------------------------------------------
(* What the operations of NodeConfig do to lists that the map is the union of. *)

\* The only member of a set is its least.
LEMMA LeastOfOne ==
  ASSUME NEW i \in Nat
  PROVE  Min({i}) = i
  BY DEF Min

\* iter().position and iter().find: the node of an address in a list.
LEMMA FoundFacts ==
  ASSUME UnionOf(node_data, global_data), NEW app \in Apps, NEW a, Has(app, a)
  PROVE  /\ Min(Positions(app, a)) \in 1 .. Len(node_data[app])
         /\ node_data[app][Min(Positions(app, a))].acq_addr = a
         /\ a \in Addrs /\ global_data[a] \in Types /\ global_data[a] # None
         /\ Found(app, a) = [acq_addr |-> a, pro_type |-> global_data[a]]
         /\ Found(app, a) \in ToSet(node_data[app])
<1> DEFINE q == node_data[app]
<1>1. /\ q \in Seq(NodeInfo) /\ Distinct(q) /\ ToSet(q) \subseteq NodeInfo /\ AddrsOf(q) \subseteq Addrs
      /\ \A n \in ToSet(q) : n.pro_type = global_data[n.acq_addr] /\ n.acq_addr \in Addrs
      /\ \A b \in AddrsOf(q) : global_data[b] \in Types /\ global_data[b] # None
  <2>1. /\ q \in Seq(NodeInfo) /\ Distinct(q)
        /\ ToSet(q) \subseteq NodeInfo /\ AddrsOf(q) \subseteq Addrs
        /\ \A n \in ToSet(q) : /\ n.pro_type = global_data[n.acq_addr] /\ n.acq_addr \in Addrs
                                /\ n.acq_addr \in AddrsOf(q)
        /\ \A b \in AddrsOf(q) :
             /\ global_data[b] \in Types /\ global_data[b] # None
             /\ [acq_addr |-> b, pro_type |-> global_data[b]] \in ToSet(q)
    BY ListedFacts, Zenon
  <2> HIDE DEF q
  <2> QED
    BY <2>1
<1>2. a \in AddrsOf(q)
  BY DEF Has
<1> HIDE DEF q
<1>3. PICK i \in 1 .. Len(q) : q[i].acq_addr = a
  BY <1>1, <1>2, NodesAt
<1>4. Len(q) \in Nat /\ q[i] \in ToSet(q)
  BY <1>1, NodesAt
<1>5. \A j \in 1 .. Len(q) : q[j].acq_addr = a => j = i
  BY <1>1, <1>3 DEF Distinct
<1>6. Positions(app, a) = {i}
  BY <1>3, <1>5 DEF Positions, q
<1>7. i \in Nat
  BY <1>4
<1>8. Min(Positions(app, a)) = i
  BY <1>6, <1>7, LeastOfOne
<1>9. Found(app, a) = q[i]
  BY <1>8 DEF Found, q
<1>10. q[i] = [acq_addr |-> a, pro_type |-> global_data[a]]
  BY <1>1, <1>3, <1>4 DEF NodeInfo
<1> QED
  BY <1>1, <1>2, <1>3, <1>4, <1>8, <1>9, <1>10 DEF q

\* add_node_info_exist finds the type of the map.
LEMMA ExistingFacts ==
  ASSUME UnionOf(node_data, global_data), NEW app \in Apps, NEW a
  PROVE  /\ Existing(app, a) = global_data[a]
         /\ Existing(app, a) = None => ~Has(app, a)
<1>1. CASE Has(app, a)
  <2>1. Found(app, a) = [acq_addr |-> a, pro_type |-> global_data[a]] /\ global_data[a] # None
    BY <1>1, FoundFacts
  <2> QED
    BY <1>1, <2>1 DEF Existing
<1>2. CASE ~Has(app, a)
  BY <1>2 DEF Existing
<1> QED
  BY <1>1, <1>2

\* Arc::strong_count for an application that has the node.
LEMMA OnlyHolderIs ==
  ASSUME NEW app \in Apps, NEW a, Has(app, a)
  PROVE  /\ OnlyHolder(a) => Holders(a) = {app}
         /\ ~OnlyHolder(a) => \E x \in Apps \ {app} : Has(x, a)
<1>1. app \in Holders(a) /\ Holders(a) \subseteq Apps
  BY DEF Holders
<1>2. IsFiniteSet(Holders(a))
  BY <1>1, AppsAssumption, FS_Subset
<1>3. Cardinality(Holders(a)) = 1 <=> \E x : Holders(a) = {x}
  BY <1>2, FS_Singleton
<1>4. OnlyHolder(a) => Holders(a) = {app}
  BY <1>1, <1>3 DEF OnlyHolder
<1>5. ASSUME ~OnlyHolder(a)
      PROVE  \E x \in Apps \ {app} : Has(x, a)
  <2>1. Holders(a) # {app}
    BY <1>3, <1>5 DEF OnlyHolder
  <2> QED
    BY <1>1, <2>1 DEF Holders
<1> QED
  BY <1>4, <1>5

\* Vec::remove, of the last reference or of another.
LEMMA ForgetFacts ==
  ASSUME UnionOf(node_data, global_data), NEW app \in Apps, NEW a, Has(app, a), Forget(app, a)
  PROVE  /\ node_data' \in [Apps -> Seq(NodeInfo)]
         /\ ToSet(node_data'[app]) = ToSet(node_data[app]) \ {Found(app, a)}
         /\ AddrsOf(node_data'[app]) = AddrsOf(node_data[app]) \ {a}
         /\ \A x \in Apps : x # app => node_data'[x] = node_data[x]
         /\ (\A x \in Apps \ {app} : ~Has(x, a)) =>
              UnionOf(node_data', [global_data EXCEPT ![a] = None])
         /\ (\E x \in Apps \ {app} : Has(x, a)) => UnionOf(node_data', global_data)
<1> DEFINE i == Min(Positions(app, a))
<1>1. i \in 1 .. Len(node_data[app]) /\ node_data[app][i].acq_addr = a /\ a \in Addrs
  BY FoundFacts
<1>2. node_data \in [Apps -> Seq(NodeInfo)] /\ Distinct(node_data[app])
  BY DEF UnionOf
<1>3. node_data' = Shrunk(node_data, app, i) /\ Found(app, a) = node_data[app][i]
  BY DEF Forget, Shrunk, Found
<1> HIDE DEF i
<1>4. /\ Shrunk(node_data, app, i) \in [Apps -> Seq(NodeInfo)]
      /\ ToSet(Shrunk(node_data, app, i)[app]) = ToSet(node_data[app]) \ {node_data[app][i]}
      /\ AddrsOf(Shrunk(node_data, app, i)[app]) = AddrsOf(node_data[app]) \ {node_data[app][i].acq_addr}
      /\ Distinct(Shrunk(node_data, app, i)[app])
      /\ \A x \in Apps : x # app => Shrunk(node_data, app, i)[x] = node_data[x]
  BY <1>1, <1>2, ListShrinks, Zenon
<1>5. /\ (\A x \in Apps \ {app} : a \notin AddrsOf(node_data[x])) =>
           UnionOf(Shrunk(node_data, app, i), Entered(global_data, a, None))
      /\ (\E x \in Apps \ {app} : a \in AddrsOf(node_data[x])) =>
           UnionOf(Shrunk(node_data, app, i), global_data)
  BY <1>1, UnionRemoves, Zenon
<1>6. /\ (\A x \in Apps \ {app} : a \notin AddrsOf(node_data[x])) =>
           UnionOf(node_data', [global_data EXCEPT ![a] = None])
      /\ (\E x \in Apps \ {app} : a \in AddrsOf(node_data[x])) =>
           UnionOf(node_data', global_data)
  BY <1>3, <1>5 DEF Entered
<1> QED
  BY <1>1, <1>3, <1>4, <1>6 DEF Has

\* A node joins a list, known to others or not.
LEMMA JoinFacts ==
  ASSUME UnionOf(node_data, global_data), NEW app \in Apps, NEW n \in NodeInfo,
         node_data' = [node_data EXCEPT ![app] = Append(@, n)]
  PROVE  /\ ToSet(node_data'[app]) = ToSet(node_data[app]) \cup {n}
         /\ AddrsOf(node_data'[app]) = AddrsOf(node_data[app]) \cup {n.acq_addr}
         /\ \A x \in Apps : x # app => node_data'[x] = node_data[x]
         /\ global_data[n.acq_addr] = None =>
              UnionOf(node_data', [global_data EXCEPT ![n.acq_addr] = n.pro_type])
         /\ global_data[n.acq_addr] = n.pro_type /\ ~Has(app, n.acq_addr) =>
              UnionOf(node_data', global_data)
<1>1. node_data \in [Apps -> Seq(NodeInfo)]
  BY DEF UnionOf
<1>2. node_data' = Grown(node_data, app, n)
  BY DEF Grown
<1>3. /\ Grown(node_data, app, n) \in [Apps -> Seq(NodeInfo)]
      /\ ToSet(Grown(node_data, app, n)[app]) = ToSet(node_data[app]) \cup {n}
      /\ AddrsOf(Grown(node_data, app, n)[app]) = AddrsOf(node_data[app]) \cup {n.acq_addr}
      /\ Distinct(node_data[app]) /\ n.acq_addr \notin AddrsOf(node_data[app])
           => Distinct(Grown(node_data, app, n)[app])
      /\ \A x \in Apps : x # app => Grown(node_data, app, n)[x] = node_data[x]
  BY <1>1, ListGrows, Zenon
<1>4. ASSUME global_data[n.acq_addr] = None
      PROVE  UnionOf(node_data', [global_data EXCEPT ![n.acq_addr] = n.pro_type])
  <2>1. UnionOf(Grown(node_data, app, n), Entered(global_data, n.acq_addr, n.pro_type))
    BY <1>4, UnionAdds, Zenon
  <2> QED
    BY <1>2, <2>1 DEF Entered
<1>5. ASSUME global_data[n.acq_addr] = n.pro_type, ~Has(app, n.acq_addr)
      PROVE  UnionOf(node_data', global_data)
  <2>1. n.acq_addr \notin AddrsOf(node_data[app])
    BY <1>5 DEF Has
  <2>2. UnionOf(Grown(node_data, app, n), global_data)
    BY <1>5, <2>1, UnionShares, Zenon
  <2> QED
    BY <1>2, <2>2
<1> QED
  BY <1>2, <1>3, <1>4, <1>5

\* add_node_info_exist of a node that is known: afterwards it is listed, and but for the
\* time the tables are read its row is there if it was for every listed node.
LEMMA AddExistFacts ==
  ASSUME UnionOf(node_data, global_data), table \in [Apps -> SUBSET NodeInfo],
         NEW app \in Apps, NEW n \in NodeInfo, NEW is_init \in BOOLEAN, AddExist(app, n, is_init)
  PROVE  /\ UnionOf(node_data', global_data') /\ global_data' = global_data
         /\ global_data[n.acq_addr] = n.pro_type
         /\ ToSet(node_data'[app]) = ToSet(node_data[app]) \cup {n}
         /\ AddrsOf(node_data'[app]) = AddrsOf(node_data[app]) \cup {n.acq_addr}
         /\ \A x \in Apps : x # app => node_data'[x] = node_data[x]
         /\ table' \in [Apps -> SUBSET NodeInfo] /\ \A x \in Apps : table[x] \subseteq table'[x]
         /\ is_init => table' = table
         /\ n \in ToSet(node_data[app]) \/ is_init \/ n \in table'[app]
<1>1. Existing(app, n.acq_addr) = n.pro_type /\ global_data' = global_data
  BY DEF AddExist
<1>2. global_data[n.acq_addr] = n.pro_type
  BY <1>1, ExistingFacts
<1>3. CASE Has(app, n.acq_addr)
  <2>1. node_data' = node_data /\ table' = table
    BY <1>3 DEF AddExist
  <2>2. /\ Found(app, n.acq_addr) = [acq_addr |-> n.acq_addr, pro_type |-> global_data[n.acq_addr]]
        /\ Found(app, n.acq_addr) \in ToSet(node_data[app])
    BY <1>3, FoundFacts
  <2>3. n \in ToSet(node_data[app])
    BY <1>2, <2>2 DEF NodeInfo
  <2>4. n.acq_addr \in AddrsOf(node_data[app])
    BY <1>3 DEF Has
  <2> QED
    BY <1>1, <1>2, <2>1, <2>3, <2>4
<1>4. CASE ~Has(app, n.acq_addr)
  <2>1. /\ node_data' = [node_data EXCEPT ![app] = Append(@, n)]
        /\ table' = IF is_init THEN table ELSE [table EXCEPT ![app] = @ \cup {n}]
    BY <1>4 DEF AddExist, Shared, InsertRow
  <2>2. /\ ToSet(node_data'[app]) = ToSet(node_data[app]) \cup {n}
        /\ AddrsOf(node_data'[app]) = AddrsOf(node_data[app]) \cup {n.acq_addr}
        /\ \A x \in Apps : x # app => node_data'[x] = node_data[x]
        /\ UnionOf(node_data', global_data)
    BY <1>2, <1>4, <2>1, JoinFacts
  <2>3. /\ table' \in [Apps -> SUBSET NodeInfo] /\ \A x \in Apps : table[x] \subseteq table'[x]
        /\ is_init => table' = table
        /\ is_init \/ n \in table'[app]
    BY <2>1
  <2> QED
    BY <1>1, <1>2, <2>2, <2>3
<1> QED
  BY <1>3, <1>4

----------------------------------------------------------------------------
(* The invariant holds at the start, and every step keeps it. *)

\* Nothing is listed at the start.
LEMMA NothingListed ==
  /\ UnionOf(NoLists, NoTypes)
  /\ \A app \in Apps : ToSet(NoLists[app]) = {} /\ AddrsOf(NoLists[app]) = {}
<1>1. NoLists \in [Apps -> Seq(NodeInfo)] /\ NoTypes \in [Addrs -> Types \cup {None}]
  BY EmptyNodes DEF NoLists, NoTypes
<1>2. \A app \in Apps : /\ NoLists[app] = << >> /\ ToSet(NoLists[app]) = {}
                        /\ AddrsOf(NoLists[app]) = {} /\ Distinct(NoLists[app])
  BY EmptyNodes DEF NoLists
<1>3. \A a \in Addrs : NoTypes[a] = None
  BY DEF NoTypes
<1> QED
  BY <1>1, <1>2, <1>3 DEF UnionOf

\* A state in which nobody is at work and the device thread is about to clear the module.
AtStart ==
  /\ node_data \in [Apps -> Seq(NodeInfo)] /\ global_data \in [Addrs -> Types \cup {None}]
  /\ GlobalIsUnion /\ ListedAreSaved /\ AckedAreSaved
  /\ operation_result = None /\ stage = "clear" /\ uart = None
  /\ step = "none" /\ rest = << >> /\ todo = << >> /\ nodes = << >>
  /\ table \in [Apps -> SUBSET NodeInfo] /\ unread \in [Apps -> SUBSET NodeInfo]
  /\ module \subseteq Addrs /\ doubt \subseteq Addrs
  /\ acked \in [Apps -> SUBSET NodeInfo]
  /\ ops \in 0 .. MaxOps /\ faults \in 0 .. MaxFaults /\ crashes \in 0 .. MaxCrashes

\* It satisfies the invariant.
LEMMA AtStartIsFine ==
  ASSUME AtStart
  PROVE  IInv
<1> USE DEF AtStart, Busy, Adding, Deleting
<1>1. TypeOK
  BY EmptyNodes DEF TypeOK
<1>2. ControlInv /\ UartInv
  BY DEF ControlInv, UartInv
<1>3. WorkInv
  BY EmptyNodes DEF WorkInv
<1>4. SavedInv
  BY DEF SavedInv
<1>5. ModuleInv
  BY DEF ModuleInv
<1> QED
  BY <1>1, <1>2, <1>3, <1>4, <1>5 DEF IInv

\* Init: no rows, nothing confirmed.
LEMMA InitIsFine == Init => IInv
<1> SUFFICES ASSUME Init PROVE IInv
  OBVIOUS
<1>1. node_data = NoLists /\ global_data = NoTypes /\ table = NoRows /\ acked = NoRows /\ unread = NoRows
  BY DEF Init, Empty
<1>2. UnionOf(node_data, global_data) /\ \A app \in Apps : ToSet(node_data[app]) = {}
  BY <1>1, NothingListed
<1>3. /\ node_data \in [Apps -> Seq(NodeInfo)] /\ global_data \in [Addrs -> Types \cup {None}]
      /\ GlobalIsUnion
  BY <1>2, UnionIs DEF UnionOf
<1>4. ListedAreSaved
  BY <1>2 DEF ListedAreSaved
<1>5. AckedAreSaved /\ table \in [Apps -> SUBSET NodeInfo]
  BY <1>1 DEF AckedAreSaved, NoRows
<1>6. ops \in 0 .. MaxOps /\ faults \in 0 .. MaxFaults /\ crashes \in 0 .. MaxCrashes
  BY BoundsAssumption DEF Init
<1>7. AtStart
  BY <1>1, <1>3, <1>4, <1>5, <1>6 DEF AtStart, Init, Empty
<1> QED
  BY <1>7, AtStartIsFine

\* A restart: the lists go, the tables stay.
LEMMA CrashKeeps ==
  ASSUME IInv, Crash
  PROVE  IInv'
<1>1. node_data' = NoLists /\ global_data' = NoTypes /\ unread' = NoRows
  BY DEF Crash
<1>2. UnionOf(node_data', global_data') /\ \A app \in Apps : ToSet(node_data'[app]) = {}
  BY <1>1, NothingListed
<1>3. /\ node_data' \in [Apps -> Seq(NodeInfo)] /\ global_data' \in [Addrs -> Types \cup {None}]
      /\ GlobalIsUnion'
  BY <1>2, UnionNext
<1>4. ListedAreSaved'
  BY <1>2 DEF ListedAreSaved
<1>5. AckedAreSaved' /\ table' = table /\ acked' = acked
  BY DEF AckedAreSaved, Crash, IInv, SavedInv
<1>6. module' \subseteq Addrs
  <2>1. CASE uart = None
    BY <2>1 DEF Crash, IInv, TypeOK
  <2>2. CASE uart # None
    BY <2>2 DEF Crash, IInv, TypeOK, Obeyed
  <2> QED
    BY <2>1, <2>2
<1>7. ops' \in 0 .. MaxOps /\ faults' \in 0 .. MaxFaults /\ crashes' \in 0 .. MaxCrashes
  BY BoundsAssumption DEF Crash, IInv, TypeOK
<1>8. unread' \in [Apps -> SUBSET NodeInfo]
  BY <1>1 DEF NoRows
<1>9. AtStart'
  BY <1>3, <1>4, <1>5, <1>6, <1>7, <1>8 DEF AtStart, Crash, Ends, IInv, TypeOK
<1> QED
  BY <1>9, AtStartIsFine, PTL

\* The device thread asks the module to forget everything.
LEMMA InitClearKeeps ==
  ASSUME IInv, InitClear
  PROVE  IInv'
<1> USE DEF Busy, Adding, Deleting, config, worker, bounds
<1>1. TypeOK'
  BY DEF IInv, TypeOK, InitClear
<1>2. ControlInv' /\ UartInv'
  BY DEF IInv, ControlInv, UartInv, InitClear
<1>3. /\ GlobalIsUnion' /\ Filed' = Filed /\ \A a : Holders(a)' = Holders(a)
      /\ \A app, a : Has(app, a)' <=> Has(app, a)
  BY SameLists DEF IInv, InitClear
<1>4. step = "none" /\ step' = "none"
  BY DEF IInv, ControlInv, InitClear
<1>5. WorkInv'
  BY <1>4 DEF IInv, WorkInv, InitClear
<1>6. SavedInv'
  BY <1>4 DEF IInv, SavedInv, ListedAreSaved, AckedAreSaved, Unsaved, InitClear
<1>7. ModuleInv'
  BY <1>3, <1>4, TypesAssumption DEF IInv, ModuleInv, InitClear
<1> QED
  BY <1>1, <1>2, <1>3, <1>5, <1>6, <1>7 DEF IInv

\* The module has forgotten everything, or denied it.
LEMMA InitClearReturnsKeeps ==
  ASSUME IInv, InitClearReturns
  PROVE  IInv'
<1> USE DEF Busy, Adding, Deleting, config, worker, bounds
<1>1. TypeOK'
  BY DEF IInv, TypeOK, InitClearReturns
<1>2. ControlInv' /\ UartInv'
  BY DEF IInv, ControlInv, UartInv, InitClearReturns
<1>3. /\ GlobalIsUnion' /\ Filed' = Filed /\ \A a : Holders(a)' = Holders(a)
      /\ \A app, a : Has(app, a)' <=> Has(app, a)
  BY SameLists DEF IInv, InitClearReturns
<1>4. step = "none" /\ step' = "none" /\ nodes = << >> /\ nodes' = << >>
  BY DEF IInv, ControlInv, InitClearReturns
<1>5. WorkInv'
  BY <1>4 DEF IInv, WorkInv, InitClearReturns
<1>6. SavedInv'
  BY <1>4 DEF IInv, SavedInv, ListedAreSaved, AckedAreSaved, Unsaved, InitClearReturns
<1>7. ModuleInv'
  BY <1>3, <1>4, EmptyNodes DEF IInv, ModuleInv, InitClearReturns, Confirmed
<1> QED
  BY <1>1, <1>2, <1>3, <1>5, <1>6, <1>7 DEF IInv

\* The tables are read.
LEMMA LoadConfigKeeps ==
  ASSUME IInv, LoadConfig
  PROVE  IInv'
<1> USE DEF Busy, Adding, Deleting, config, worker, bounds
<1>1. TypeOK'
  BY EmptyNodes DEF IInv, TypeOK, LoadConfig
<1>2. ControlInv' /\ UartInv'
  BY DEF IInv, ControlInv, UartInv, LoadConfig
<1>3. /\ GlobalIsUnion' /\ Filed' = Filed /\ \A a : Holders(a)' = Holders(a)
      /\ \A app, a : Has(app, a)' <=> Has(app, a)
  BY SameLists DEF IInv, LoadConfig
<1>4. /\ step = "none" /\ step' = "chunk" /\ nodes' = << >> /\ rest' = nodes
      /\ job'.op = "Init"
  BY DEF IInv, ControlInv, LoadConfig
<1>5. WorkInv'
  BY <1>4 DEF IInv, WorkInv, LoadConfig
<1>6. SavedInv'
  BY <1>4 DEF IInv, SavedInv, ListedAreSaved, AckedAreSaved, Unsaved, LoadConfig
<1>7. ModuleInv'
  BY <1>3, <1>4, EmptyNodes DEF IInv, ModuleInv, LoadConfig, Answered
<1> QED
  BY <1>1, <1>2, <1>3, <1>5, <1>6, <1>7 DEF IInv

\* A chunk is taken from the front of the request.
LEMMA TakeChunkKeeps ==
  ASSUME IInv, TakeChunk
  PROVE  IInv'
<1> USE DEF Busy, Adding, Deleting, config, worker, bounds
<1> DEFINE size == IF Len(rest) < ChunkSize THEN Len(rest) ELSE ChunkSize
           c == SubSeq(rest, 1, size)
           r == SubSeq(rest, size + 1, Len(rest))
<1>1. /\ rest' = r
      /\ IF job.op = "Init" THEN nodes' = c /\ todo' = todo ELSE todo' = c /\ nodes' = nodes
  BY DEF TakeChunk
<1>2. /\ c \in Seq(Target) /\ r \in Seq(Target)
      /\ ToSet(rest) = ToSet(c) \cup ToSet(r)
      /\ AddrsOf(rest) = AddrsOf(c) \cup AddrsOf(r)
      /\ Distinct(rest) => Distinct(c) /\ Distinct(r)
  <2>1. rest \in Seq(Target) /\ Len(rest) \in Nat
    BY LenProperties DEF IInv, TypeOK
  <2>2. size \in 0 .. Len(rest)
    BY <2>1, BoundsAssumption
  <2> HIDE DEF size
  <2> QED
    BY <2>1, <2>2, SplitNodes, Zenon
<1> HIDE DEF c, r
<1>3. TypeOK'
  BY <1>1, <1>2 DEF IInv, TypeOK, TakeChunk
<1>4. /\ step = "chunk" /\ step' = "node" /\ job' = job /\ stage' = stage
      /\ todo = << >> /\ nodes = << >>
      /\ job.op \in {"Init", "Add", "Del", "Clear"} /\ (job.op = "Init" <=> stage = "loading")
  BY DEF IInv, TypeOK, ControlInv, TakeChunk
<1>5. ControlInv' /\ UartInv'
  BY <1>1, <1>4 DEF IInv, ControlInv, UartInv, TakeChunk
<1>6. /\ GlobalIsUnion' /\ Filed' = Filed /\ \A a : Holders(a)' = Holders(a)
      /\ \A app, a : Has(app, a)' <=> Has(app, a)
  BY SameLists DEF IInv, TakeChunk
<1>7. ToSet(<< >>) = {} /\ AddrsOf(<< >>) = {} /\ Distinct(<< >>)
  BY EmptyNodes
<1>8. WorkInv'
  BY <1>1, <1>2, <1>4, <1>6, <1>7 DEF IInv, WorkInv
<1>9. SavedInv'
  BY <1>1, <1>2, <1>4, <1>7 DEF IInv, SavedInv, ListedAreSaved, AckedAreSaved, Unsaved, TakeChunk
<1>10. ModuleInv'
  BY <1>1, <1>2, <1>4, <1>6, <1>7 DEF IInv, ModuleInv, TakeChunk, Answered, Ahead
<1> QED
  BY <1>3, <1>5, <1>6, <1>8, <1>9, <1>10 DEF IInv

\* The chunk goes to the module, or has nothing for it.
LEMMA SendChunkKeeps ==
  ASSUME IInv, SendChunk
  PROVE  IInv'
<1> USE DEF Busy, Adding, Deleting, config, worker, bounds
<1>1. TypeOK'
  <2>1. nodes \in Seq(Target)
    BY DEF IInv, TypeOK
  <2>2. AddrsOf(nodes) \subseteq Addrs
    BY <2>1, AddrsOfTargets
  <2> QED
    BY <2>2 DEF IInv, TypeOK, SendChunk
<1>2. /\ step = "node" /\ job' = job /\ stage' = stage /\ todo = << >> /\ todo' = << >>
      /\ nodes' = nodes /\ rest' = rest
      /\ \/ step' = "chunk" /\ nodes = << >>
         \/ step' = "wait" /\ operation_result' = None
  BY DEF SendChunk
<1>3. ControlInv' /\ UartInv'
  BY <1>2 DEF IInv, TypeOK, ControlInv, UartInv, SendChunk
<1>4. /\ GlobalIsUnion' /\ Filed' = Filed /\ \A a : Holders(a)' = Holders(a)
      /\ \A app, a : Has(app, a)' <=> Has(app, a)
  BY SameLists DEF IInv, SendChunk
<1>5. ToSet(<< >>) = {} /\ AddrsOf(<< >>) = {} /\ Distinct(<< >>)
  BY EmptyNodes
<1>6. WorkInv'
  BY <1>2, <1>4, <1>5 DEF IInv, WorkInv, SendChunk
<1>7. SavedInv'
  BY <1>2, <1>5 DEF IInv, SavedInv, ListedAreSaved, AckedAreSaved, Unsaved, SendChunk
<1>8. ModuleInv'
  BY <1>2, <1>4, <1>5, TypesAssumption DEF IInv, ModuleInv, SendChunk, Answered, Ahead
<1> QED
  BY <1>1, <1>3, <1>4, <1>6, <1>7, <1>8 DEF IInv

\* A request comes in: all of it is left to do.
LEMMA BeginKeeps ==
  ASSUME IInv, NEW op \in {"Add", "Del", "Clear"}, NEW app \in Apps, NEW body \in Seq(Target),
         Distinct(body), Begin(op, app, body),
         op = "Add" => body \in Seq(NodeInfo),
         op = "Del" => \A n \in ToSet(body) : n.pro_type = NoType,
         acked' \in [Apps -> SUBSET NodeInfo], \A x \in Apps : acked'[x] \subseteq acked[x],
         op \in {"Del", "Clear"} => \A n \in acked'[app] : n.acq_addr \notin AddrsOf(body),
         op = "Clear" => acked'[app] = {}
  PROVE  IInv'
<1> USE DEF Busy, Adding, Deleting, config, worker, bounds
<1>1. /\ step' = "chunk" /\ job' = [op |-> op, app |-> app, body |-> body] /\ rest' = body
      /\ stage = "ready" /\ stage' = "ready" /\ step = "none"
      /\ todo = << >> /\ todo' = << >> /\ nodes = << >> /\ nodes' = << >>
      /\ job'.op = op /\ job'.app = app /\ job'.body = body
  BY DEF IInv, ControlInv, Begin
<1>2. TypeOK'
  BY <1>1, EmptyNodes, BoundsAssumption DEF IInv, TypeOK, Begin
<1>3. ControlInv' /\ UartInv'
  BY <1>1 DEF IInv, ControlInv, UartInv, Begin
<1>4. /\ GlobalIsUnion' /\ Filed' = Filed /\ \A a : Holders(a)' = Holders(a)
      /\ \A x, a : Has(x, a)' <=> Has(x, a)
  BY SameLists DEF IInv, Begin
<1>5. ToSet(<< >>) = {} /\ AddrsOf(<< >>) = {} /\ Distinct(<< >>)
  BY EmptyNodes
<1>6. op = "Add" => ToSet(body) \subseteq NodeInfo
  BY NodesAt
<1>7. WorkInv'
  BY <1>1, <1>5, <1>6 DEF WorkInv
<1>8. SavedInv'
  <2>1. table' = table /\ node_data' = node_data /\ unread' = unread
    BY DEF Begin
  <2>2. ListedAreSaved' /\ AckedAreSaved'
    BY <1>1, <2>1 DEF IInv, SavedInv, ListedAreSaved, AckedAreSaved, Unsaved
  <2> QED
    BY <1>1, <1>5, <2>1, <2>2 DEF SavedInv
<1>9. ModuleInv'
  BY <1>1, <1>4, <1>5 DEF IInv, ModuleInv, Begin, Answered, Ahead
<1> QED
  BY <1>2, <1>3, <1>4, <1>7, <1>8, <1>9 DEF IInv

\* The nodes of a request and the targets of a deletion.
LEMMA BodyFacts ==
  ASSUME NEW b \in Bodies
  PROVE  /\ b \in Seq(NodeInfo) /\ b \in Seq(Target) /\ Distinct(b)
         /\ Targets(b) \in Seq(Target) /\ Distinct(Targets(b)) /\ AddrsOf(Targets(b)) = AddrsOf(b)
         /\ \A n \in ToSet(Targets(b)) : n.pro_type = NoType
<1>1. b \in Seq(NodeInfo) /\ Distinct(b)
  <2>1. PICK m \in 0 .. MaxBody : b \in [1 .. m -> NodeInfo]
    BY BoundsAssumption DEF Bodies, SeqOf
  <2> QED
    BY <2>1, BoundsAssumption, IsASeq DEF Bodies
<1>2. Len(b) \in Nat /\ \A i \in 1 .. Len(b) : b[i] \in NodeInfo /\ b[i].acq_addr \in Addrs
  <2>1. Len(b) \in Nat
    BY <1>1, LenProperties
  <2>2. \A i \in 1 .. Len(b) : b[i] \in NodeInfo
    BY <1>1, ElementOfSeq
  <2>3. \A n \in NodeInfo : n.acq_addr \in Addrs
    BY DEF NodeInfo
  <2> QED
    BY <2>1, <2>2, <2>3
<1>3. NodeInfo \subseteq Target
  BY DEF NodeInfo, Target
<1>4. b \in Seq(Target)
  BY <1>1, <1>3, SeqMonotonic
<1> DEFINE t == Targets(b)
<1>5. t \in [1 .. Len(b) -> Target] /\ \A i \in 1 .. Len(b) : t[i].acq_addr = b[i].acq_addr /\ t[i].pro_type = NoType
  BY <1>2 DEF Targets, Target
<1> HIDE DEF t
<1>6. t \in Seq(Target) /\ Len(t) = Len(b)
  BY <1>2, <1>5, IsASeq
<1>7. Distinct(t)
  BY <1>1, <1>2, <1>5, <1>6 DEF Distinct
<1>8. /\ \A a : a \in AddrsOf(b) <=> \E i \in 1 .. Len(b) : b[i].acq_addr = a
      /\ \A a : a \in AddrsOf(t) <=> \E i \in 1 .. Len(t) : t[i].acq_addr = a
      /\ \A n : n \in ToSet(t) <=> \E i \in 1 .. Len(t) : t[i] = n
  <2>1. \A a : a \in AddrsOf(b) <=> \E i \in 1 .. Len(b) : b[i].acq_addr = a
    BY <1>1, NodesAt
  <2>2. t \in Seq(Target)
    BY <1>6
  <2>3. \A a : a \in AddrsOf(t) <=> \E i \in 1 .. Len(t) : t[i].acq_addr = a
    BY <2>2, NodesAt
  <2>4. \A n : n \in ToSet(t) <=> \E i \in 1 .. Len(t) : t[i] = n
    BY <2>2, NodesAt
  <2> QED
    BY <2>1, <2>3, <2>4
<1>9. AddrsOf(t) = AddrsOf(b) /\ \A n \in ToSet(t) : n.pro_type = NoType
  <2>1. \A a : a \in AddrsOf(t) <=> a \in AddrsOf(b)
    BY <1>5, <1>6, <1>8
  <2>2. ASSUME NEW n \in ToSet(t)
        PROVE  n.pro_type = NoType
    <3>1. PICK i \in 1 .. Len(t) : t[i] = n
      BY <1>8
    <3> QED
      BY <1>5, <1>6, <3>1
  <2> QED
    BY <2>1, <2>2
<1> QED
  BY <1>1, <1>4, <1>6, <1>7, <1>9 DEF t

\* The three requests.
LEMMA ClientKeeps ==
  ASSUME IInv, Client
  PROVE  IInv'
<1>1. PICK app \in Apps : \/ \E b \in Bodies : MqttAdd(app, b)
                          \/ \E b \in Bodies : MqttDel(app, b)
                          \/ MqttClear(app)
  BY DEF Client
<1>2. acked \in [Apps -> SUBSET NodeInfo]
  BY DEF IInv, TypeOK
<1>3. ASSUME NEW b \in Bodies, MqttAdd(app, b)
      PROVE  IInv'
  <2>1. b \in Seq(Target) /\ b \in Seq(NodeInfo) /\ Distinct(b)
    BY BodyFacts
  <2>2. Begin("Add", app, b) /\ acked' = acked
    BY <1>3 DEF MqttAdd
  <2> QED
    BY <1>2, <2>1, <2>2, BeginKeeps
<1>4. ASSUME NEW b \in Bodies, MqttDel(app, b)
      PROVE  IInv'
  <2> DEFINE t == Targets(b)
  <2>1. t \in Seq(Target) /\ Distinct(t) /\ AddrsOf(t) = AddrsOf(b) /\ \A n \in ToSet(t) : n.pro_type = NoType
    BY BodyFacts
  <2>2. Begin("Del", app, t) /\ acked' = Revoked(app, b)
    BY <1>4 DEF MqttDel
  <2> HIDE DEF t
  <2>3. /\ acked' \in [Apps -> SUBSET NodeInfo] /\ \A x \in Apps : acked'[x] \subseteq acked[x]
        /\ \A n \in acked'[app] : n.acq_addr \notin AddrsOf(t)
    BY <1>2, <2>1, <2>2 DEF Revoked
  <2> QED
    BY <2>1, <2>2, <2>3, BeginKeeps
<1>5. ASSUME MqttClear(app)
      PROVE  IInv'
  <2> DEFINE t == node_data[app]
  <2>1. t \in Seq(NodeInfo) /\ Distinct(t)
    BY DEF IInv, TypeOK, GlobalIsUnion
  <2>2. Begin("Clear", app, t) /\ acked' = [acked EXCEPT ![app] = {}]
    BY <1>5 DEF MqttClear
  <2>3. t \in Seq(Target)
    BY <2>1, SeqMonotonic DEF NodeInfo, Target
  <2>4. /\ acked' \in [Apps -> SUBSET NodeInfo] /\ \A x \in Apps : acked'[x] \subseteq acked[x]
        /\ acked'[app] = {}
    BY <1>2, <2>2
  <2> HIDE DEF t
  <2> QED
    BY <2>1, <2>2, <2>3, <2>4, BeginKeeps
<1> QED
  BY <1>1, <1>3, <1>4, <1>5

\* All is done: every node of an addition has its row, and the module has what is filed.
LEMMA CompleteKeeps ==
  ASSUME IInv, Complete
  PROVE  IInv'
<1> USE DEF Busy, Adding, Deleting, config, worker, bounds
<1>1. /\ step = "chunk" /\ rest = << >> /\ todo = << >> /\ nodes = << >>
      /\ job.op \in {"Init", "Add", "Del", "Clear"} /\ stage \in {"ready", "loading"}
      /\ (job.op = "Init" <=> stage = "loading") /\ (job.op # "Init" => job.app \in Apps)
  BY DEF IInv, TypeOK, ControlInv, Complete
<1>2. /\ step' = "none" /\ rest' = << >> /\ todo' = << >> /\ nodes' = << >> /\ stage' = "ready"
      /\ table' = table /\ node_data' = node_data
  BY DEF Complete, Ends
<1>3. ToSet(<< >>) = {} /\ AddrsOf(<< >>) = {} /\ Distinct(<< >>)
  BY EmptyNodes
<1>4. /\ job.op = "Add" => ToSet(job.body) \subseteq table[job.app] /\ ToSet(job.body) \subseteq NodeInfo
      /\ acked \in [Apps -> SUBSET NodeInfo] /\ \A x \in Apps : acked[x] \subseteq table[x]
  <2>1. job.op = "Add" => job.body \in Seq(NodeInfo)
    BY <1>1 DEF IInv, SavedInv
  <2>2. job.op = "Add" => ToSet(job.body) \subseteq NodeInfo
    BY <2>1, NodesAt
  <2> QED
    BY <1>1, <1>3, <2>2 DEF IInv, SavedInv, AckedAreSaved, TypeOK
<1>5. acked' \in [Apps -> SUBSET NodeInfo] /\ \A x \in Apps : acked'[x] \subseteq table[x]
  <2>1. CASE job.op = "Add"
    <3>1. acked' = [acked EXCEPT ![job.app] = @ \cup ToSet(job.body)]
      BY <2>1 DEF Complete
    <3> QED
      BY <1>1, <1>4, <2>1, <3>1
  <2>2. CASE job.op # "Add"
    BY <1>4, <2>2 DEF Complete
  <2> QED
    BY <2>1, <2>2
<1>6. TypeOK'
  BY <1>2, <1>5, EmptyNodes DEF IInv, TypeOK, Complete
<1>7. ControlInv' /\ UartInv'
  BY <1>1, <1>2 DEF IInv, ControlInv, UartInv, Complete
<1>8. GlobalIsUnion' /\ Filed' = Filed
  BY SameLists DEF IInv, Complete
<1>9. WorkInv'
  BY <1>2 DEF WorkInv
<1>10. SavedInv'
  BY <1>1, <1>2, <1>5 DEF IInv, SavedInv, ListedAreSaved, AckedAreSaved, Unsaved
<1>11. ModuleInv'
  BY <1>1, <1>2, <1>3, <1>8 DEF IInv, ModuleInv, Complete, Answered, Ahead
<1> QED
  BY <1>6, <1>7, <1>8, <1>9, <1>10, <1>11 DEF IInv

\* What holds while a client's request is at work.
LEMMA RequestFacts ==
  ASSUME IInv, step # "none", job.op # "Init"
  PROVE  /\ UnionOf(node_data, global_data) /\ job.app \in Apps /\ stage = "ready"
         /\ job.op \in {"Add", "Del", "Clear"}
<1>1. UnionOf(node_data, global_data)
  BY UnionIs DEF IInv, TypeOK
<1> QED
  BY <1>1 DEF IInv, TypeOK, ControlInv, Busy

\* AddAcqFiles::operate_node_infos for a node: it cannot be added, it is for the module, or
\* it is known and listed with its row.
LEMMA AddNodeKeeps ==
  ASSUME IInv, AddNode
  PROVE  IInv'
<1> USE DEF Busy, Adding, Deleting, config, worker, bounds
<1> DEFINE n == Head(todo)
           t == Tail(todo)
<1>1. /\ step = "node" /\ todo # << >> /\ job.op = "Add" /\ unread' = unread
      /\ operation_result' = operation_result /\ stage' = stage /\ uart' = uart /\ module' = module
      /\ doubt' = doubt /\ acked' = acked /\ ops' = ops /\ faults' = faults /\ crashes' = crashes
  BY DEF AddNode
<1>2. UnionOf(node_data, global_data) /\ job.app \in Apps /\ stage = "ready"
  BY <1>1, RequestFacts
<1>3. /\ n \in Target /\ t \in Seq(Target)
      /\ ToSet(todo) = {n} \cup ToSet(t) /\ AddrsOf(todo) = {n.acq_addr} \cup AddrsOf(t)
      /\ Distinct(todo) => Distinct(t) /\ n.acq_addr \notin AddrsOf(t)
  <2>1. todo \in Seq(Target) /\ todo # << >>
    BY <1>1 DEF IInv, TypeOK
  <2> QED
    BY <2>1, HeadNode, Zenon
<1>4. n \in NodeInfo /\ n.acq_addr \in Addrs /\ n.pro_type # None /\ nodes \in Seq(Target)
  <2>1. n \in NodeInfo
    BY <1>1, <1>3 DEF IInv, WorkInv
  <2> HIDE DEF n
  <2> QED
    BY <2>1, TypesAssumption DEF NodeInfo, IInv, TypeOK
<1>5. ToSet(<< >>) = {} /\ AddrsOf(<< >>) = {} /\ Distinct(<< >>)
  BY EmptyNodes
<1>6. CASE Mismatch(job.app, n) /\ Ends /\ UNCHANGED <<config, table>>
  <2>1. step' = "none" /\ rest' = << >> /\ todo' = << >> /\ nodes' = << >>
        /\ table' = table /\ node_data' = node_data
    BY <1>6 DEF Ends
  <2>2. TypeOK'
    BY <1>1, <1>6, <2>1, EmptyNodes DEF IInv, TypeOK
  <2>3. ControlInv' /\ UartInv'
    BY <1>1, <1>2, <2>1 DEF IInv, ControlInv, UartInv
  <2>4. GlobalIsUnion' /\ Filed' = Filed
    BY <1>6, SameLists DEF IInv
  <2>5. WorkInv'
    BY <2>1 DEF WorkInv
  <2>6. SavedInv'
    BY <1>1, <1>2, <2>1 DEF IInv, SavedInv, ListedAreSaved, AckedAreSaved, Unsaved
  <2>7. ModuleInv'
    BY <1>1, <1>2, <2>1, <2>4 DEF IInv, ModuleInv, Answered, Ahead
  <2> QED
    BY <2>2, <2>3, <2>4, <2>5, <2>6, <2>7 DEF IInv
<1>7. CASE /\ Existing(job.app, n.acq_addr) = None
           /\ nodes' = Append(nodes, n) /\ todo' = t
           /\ UNCHANGED <<config, table, step, job, rest>>
  <2>1. global_data[n.acq_addr] = None
    BY <1>2, <1>7, ExistingFacts
  <2>2. /\ nodes' \in Seq(Target) /\ nodes' # << >>
        /\ ToSet(nodes') = ToSet(nodes) \cup {n}
        /\ AddrsOf(nodes') = AddrsOf(nodes) \cup {n.acq_addr}
        /\ Distinct(nodes) /\ n.acq_addr \notin AddrsOf(nodes) => Distinct(nodes')
    <3>1. /\ Append(nodes, n) \in Seq(Target) /\ Append(nodes, n) # << >>
          /\ ToSet(Append(nodes, n)) = ToSet(nodes) \cup {n}
          /\ AddrsOf(Append(nodes, n)) = AddrsOf(nodes) \cup {n.acq_addr}
          /\ Distinct(nodes) /\ n.acq_addr \notin AddrsOf(nodes) => Distinct(Append(nodes, n))
      BY <1>3, <1>4, AppendNode, Zenon
    <3> QED
      BY <1>7, <3>1, Zenon
  <2>3. /\ step' = step /\ job' = job /\ rest' = rest /\ todo' = t /\ table' = table
        /\ node_data' = node_data
    BY <1>7
  <2>4. /\ GlobalIsUnion' /\ Filed' = Filed /\ global_data' = global_data
    BY <1>7, SameLists DEF IInv
  <2> HIDE DEF n, t
  <2>5. TypeOK'
    BY <1>1, <1>3, <1>7, <2>2 DEF IInv, TypeOK
  <2>6. ControlInv' /\ UartInv'
    BY <1>1, <1>2, <2>2, <2>3 DEF IInv, ControlInv, UartInv
  <2>7. WorkInv'
    BY <1>1, <1>3, <1>4, <2>1, <2>2, <2>3, <2>4 DEF IInv, WorkInv
  <2>8. SavedInv'
    BY <1>1, <1>2, <1>3, <2>2, <2>3 DEF IInv, SavedInv, ListedAreSaved, AckedAreSaved, Unsaved
  <2>9. ModuleInv'
    BY <1>1, <1>2, <2>3, <2>4 DEF IInv, ModuleInv, Answered, Ahead
  <2> QED
    BY <2>4, <2>5, <2>6, <2>7, <2>8, <2>9 DEF IInv
<1>8. CASE AddExist(job.app, n, FALSE) /\ todo' = t /\ UNCHANGED <<step, job, rest, nodes>>
  <2>1. table \in [Apps -> SUBSET NodeInfo]
    BY DEF IInv, TypeOK
  <2>2. /\ UnionOf(node_data', global_data') /\ global_data' = global_data
        /\ ToSet(node_data'[job.app]) = ToSet(node_data[job.app]) \cup {n}
        /\ \A x \in Apps : x # job.app => node_data'[x] = node_data[x]
        /\ table' \in [Apps -> SUBSET NodeInfo] /\ \A x \in Apps : table[x] \subseteq table'[x]
        /\ n \in ToSet(node_data[job.app]) \/ n \in table'[job.app]
    BY <1>2, <1>4, <1>8, <2>1, AddExistFacts
  <2>3. /\ node_data' \in [Apps -> Seq(NodeInfo)] /\ global_data' \in [Addrs -> Types \cup {None}]
        /\ GlobalIsUnion'
    BY <2>2, UnionNext
  <2>4. Filed' = Filed
    BY <2>2 DEF Filed
  <2>5. /\ step' = step /\ job' = job /\ rest' = rest /\ todo' = t /\ nodes' = nodes
    BY <1>8
  <2>6. n \in table'[job.app]
    <3>1. ToSet(node_data[job.app]) \subseteq table[job.app]
      BY <1>1, <1>2 DEF IInv, SavedInv, ListedAreSaved, Unsaved
    <3> QED
      BY <1>2, <2>2, <3>1
  <2> HIDE DEF n, t
  <2>7. TypeOK'
    BY <1>1, <1>3, <2>2, <2>3, <2>5 DEF IInv, TypeOK
  <2>8. ControlInv' /\ UartInv'
    BY <1>1, <1>2, <2>5 DEF IInv, ControlInv, UartInv
  <2>9. WorkInv'
    BY <1>1, <1>3, <1>4, <2>2, <2>5 DEF IInv, WorkInv
  <2>10. SavedInv'
    <3>1. ListedAreSaved'
      <4>1. ASSUME NEW x \in Apps
            PROVE  ToSet(node_data'[x]) \subseteq table'[x]
        <5>1. ToSet(node_data[x]) \subseteq table[x]
          BY <1>1 DEF IInv, SavedInv, ListedAreSaved, Unsaved
        <5> QED
          BY <2>2, <2>6, <5>1
      <4> QED
        BY <4>1 DEF ListedAreSaved
    <3>2. AckedAreSaved'
      BY <1>1, <2>2 DEF IInv, SavedInv, AckedAreSaved
    <3> QED
      BY <1>1, <1>2, <1>3, <2>2, <2>5, <2>6, <3>1, <3>2 DEF IInv, SavedInv
  <2>11. ModuleInv'
    BY <1>1, <1>2, <2>4, <2>5 DEF IInv, ModuleInv, Answered, Ahead
  <2> QED
    BY <2>3, <2>7, <2>8, <2>9, <2>10, <2>11 DEF IInv
<1> QED
  BY <1>6, <1>7, <1>8 DEF AddNode

\* DelAcqFiles::operate_node_infos for a node: it is not listed, it is for the module, or it
\* leaves this list and its table only.
LEMMA DelNodeKeeps ==
  ASSUME IInv, DelNode
  PROVE  IInv'
<1> USE DEF Busy, Adding, Deleting, config, worker, bounds
<1> DEFINE n == Head(todo)
           t == Tail(todo)
           a == n.acq_addr
<1>1. /\ step = "node" /\ todo # << >> /\ job.op \in {"Del", "Clear"} /\ todo' = t
      /\ global_data' = global_data /\ unread' = unread /\ operation_result' = operation_result
      /\ stage' = stage /\ step' = step /\ job' = job /\ rest' = rest /\ uart' = uart
      /\ module' = module /\ doubt' = doubt /\ acked' = acked
      /\ ops' = ops /\ faults' = faults /\ crashes' = crashes
  BY DEF DelNode
<1>2. UnionOf(node_data, global_data) /\ job.app \in Apps /\ stage = "ready"
  BY <1>1, RequestFacts
<1>3. /\ n \in Target /\ t \in Seq(Target)
      /\ ToSet(todo) = {n} \cup ToSet(t) /\ AddrsOf(todo) = {a} \cup AddrsOf(t)
      /\ Distinct(todo) => Distinct(t) /\ a \notin AddrsOf(t)
  <2>1. todo \in Seq(Target) /\ todo # << >>
    BY <1>1 DEF IInv, TypeOK
  <2> QED
    BY <2>1, HeadNode, Zenon
<1>4. nodes \in Seq(Target)
  BY DEF IInv, TypeOK
<1>5. CASE ~Has(job.app, a) /\ UNCHANGED <<node_data, table, nodes>>
  <2>1. /\ GlobalIsUnion' /\ Filed' = Filed /\ \A b : Holders(b)' = Holders(b)
        /\ \A app, b : Has(app, b)' <=> Has(app, b)
    BY <1>1, <1>5, SameLists DEF IInv
  <2> HIDE DEF n, t, a
  <2>2. TypeOK'
    BY <1>1, <1>3, <1>5 DEF IInv, TypeOK
  <2>3. ControlInv' /\ UartInv'
    BY <1>1, <1>2, <1>5 DEF IInv, ControlInv, UartInv
  <2>4. WorkInv'
    BY <1>1, <1>3, <1>5, <2>1 DEF IInv, WorkInv
  <2>5. SavedInv'
    BY <1>1, <1>2, <1>3, <1>5 DEF IInv, SavedInv, ListedAreSaved, AckedAreSaved, Unsaved
  <2>6. ModuleInv'
    BY <1>1, <1>2, <1>5, <2>1 DEF IInv, ModuleInv, Answered, Ahead
  <2> QED
    BY <2>1, <2>2, <2>3, <2>4, <2>5, <2>6 DEF IInv
<1>6. CASE /\ Has(job.app, a) /\ OnlyHolder(a)
           /\ nodes' = Append(nodes, n)
           /\ UNCHANGED <<node_data, table>>
  <2>1. /\ GlobalIsUnion' /\ Filed' = Filed /\ \A b : Holders(b)' = Holders(b)
        /\ \A app, b : Has(app, b)' <=> Has(app, b)
    BY <1>1, <1>6, SameLists DEF IInv
  <2>2. Holders(a) = {job.app}
    BY <1>2, <1>6, OnlyHolderIs
  <2>3. /\ nodes' \in Seq(Target) /\ nodes' # << >>
        /\ ToSet(nodes') = ToSet(nodes) \cup {n}
        /\ AddrsOf(nodes') = AddrsOf(nodes) \cup {a}
        /\ Distinct(nodes) /\ a \notin AddrsOf(nodes) => Distinct(nodes')
    <3>1. /\ Append(nodes, n) \in Seq(Target) /\ Append(nodes, n) # << >>
          /\ ToSet(Append(nodes, n)) = ToSet(nodes) \cup {n}
          /\ AddrsOf(Append(nodes, n)) = AddrsOf(nodes) \cup {a}
          /\ Distinct(nodes) /\ a \notin AddrsOf(nodes) => Distinct(Append(nodes, n))
      BY <1>3, <1>4, AppendNode, Zenon
    <3> QED
      BY <1>6, <3>1, Zenon
  <2> HIDE DEF n, t, a
  <2>4. TypeOK'
    BY <1>1, <1>3, <1>6, <2>3 DEF IInv, TypeOK
  <2>5. ControlInv' /\ UartInv'
    BY <1>1, <1>2, <2>3 DEF IInv, ControlInv, UartInv
  <2>6. WorkInv'
    BY <1>1, <1>3, <2>1, <2>2, <2>3 DEF IInv, WorkInv
  <2>7. SavedInv'
    BY <1>1, <1>2, <1>3, <1>6, <2>3 DEF IInv, SavedInv, ListedAreSaved, AckedAreSaved, Unsaved
  <2>8. ModuleInv'
    BY <1>1, <1>2, <2>1 DEF IInv, ModuleInv, Answered, Ahead
  <2> QED
    BY <2>1, <2>4, <2>5, <2>6, <2>7, <2>8 DEF IInv
<1>7. CASE /\ Has(job.app, a) /\ ~OnlyHolder(a)
           /\ Forget(job.app, a)
           /\ DeleteRow(job.app, Found(job.app, a))
           /\ UNCHANGED nodes
  <2> DEFINE f == Found(job.app, a)
  <2>1. \E x \in Apps \ {job.app} : Has(x, a)
    BY <1>2, <1>7, OnlyHolderIs
  <2>2. /\ node_data' \in [Apps -> Seq(NodeInfo)]
        /\ ToSet(node_data'[job.app]) = ToSet(node_data[job.app]) \ {f}
        /\ AddrsOf(node_data'[job.app]) = AddrsOf(node_data[job.app]) \ {a}
        /\ \A x \in Apps : x # job.app => node_data'[x] = node_data[x]
        /\ UnionOf(node_data', global_data)
    BY <1>2, <1>7, <2>1, ForgetFacts
  <2>3. f.acq_addr = a
    BY <1>2, <1>7, FoundFacts
  <2>4. table' = [table EXCEPT ![job.app] = @ \ {f}] /\ table \in [Apps -> SUBSET NodeInfo]
    BY <1>7 DEF DeleteRow, IInv, TypeOK
  <2> HIDE DEF f
  <2>5. UnionOf(node_data', global_data')
    BY <1>1, <2>2
  <2>6. GlobalIsUnion'
    BY <2>5, UnionNext
  <2>7. Filed' = Filed
    BY <1>1 DEF Filed
  <2> HIDE DEF n, t, a
  <2>8. \A b : b # a => Holders(b)' = Holders(b)
    BY <2>2 DEF Holders, Has
  <2>9. /\ table' \in [Apps -> SUBSET NodeInfo] /\ \A x \in Apps : x # job.app => table'[x] = table[x]
        /\ table'[job.app] = table[job.app] \ {f}
    BY <1>2, <2>4
  <2>10. TypeOK'
    BY <1>1, <1>3, <1>7, <2>2, <2>9 DEF IInv, TypeOK
  <2>11. ControlInv' /\ UartInv'
    BY <1>1, <1>2, <1>7 DEF IInv, ControlInv, UartInv
  <2>12. WorkInv'
    BY <1>1, <1>3, <1>7, <2>8 DEF IInv, WorkInv
  <2>13. SavedInv'
    <3>1. ListedAreSaved'
      <4>1. ASSUME NEW x \in Apps
            PROVE  ToSet(node_data'[x]) \subseteq table'[x]
        <5>1. ToSet(node_data[x]) \subseteq table[x]
          BY <1>1 DEF IInv, SavedInv, ListedAreSaved, Unsaved
        <5> QED
          BY <2>2, <2>9, <5>1
      <4> QED
        BY <4>1 DEF ListedAreSaved
    <3>2. f \notin acked[job.app]
      BY <1>1, <1>3, <2>3 DEF IInv, SavedInv
    <3>3. AckedAreSaved'
      BY <1>1, <1>2, <2>9, <3>2 DEF IInv, SavedInv, AckedAreSaved
    <3> QED
      BY <1>1, <1>2, <1>3, <1>7, <3>1, <3>3 DEF IInv, SavedInv
  <2>14. ModuleInv'
    BY <1>1, <1>2, <1>7, <2>7 DEF IInv, ModuleInv, Answered, Ahead
  <2> QED
    BY <2>6, <2>10, <2>11, <2>12, <2>13, <2>14 DEF IInv
<1> QED
  BY <1>5, <1>6, <1>7 DEF DelNode

\* wait_operation_result returns: the request has failed, or the lists may be updated.
LEMMA OperationReturnsKeeps ==
  ASSUME IInv, OperationReturns
  PROVE  IInv'
<1> USE DEF Busy, Adding, Deleting, config, worker, bounds
<1>1. /\ step = "wait" /\ operation_result # None /\ operation_result' = None
      /\ uart = None /\ uart' = None /\ todo = << >> /\ nodes # << >>
      /\ table' = table /\ node_data' = node_data /\ unread' = unread /\ module' = module
      /\ doubt' = doubt /\ acked' = acked /\ ops' = ops /\ faults' = faults /\ crashes' = crashes
      /\ job.op \in {"Init", "Add", "Del", "Clear"} /\ (job.op = "Init" <=> stage = "loading")
      /\ stage \in {"loading", "ready"}
  BY DEF OperationReturns, IInv, TypeOK, UartInv, ControlInv
<1>2. /\ GlobalIsUnion' /\ Filed' = Filed /\ \A b : Holders(b)' = Holders(b)
      /\ \A app, b : Has(app, b)' <=> Has(app, b)
  BY SameLists DEF OperationReturns, IInv
<1>3. global_data' = global_data
  BY DEF OperationReturns
<1>4. ToSet(<< >>) = {} /\ AddrsOf(<< >>) = {} /\ Distinct(<< >>)
  BY EmptyNodes
<1>5. CASE ~Confirmed(operation_result) /\ Ends /\ stage' = IF job.op = "Init" THEN "clear" ELSE stage
  <2>1. /\ step' = "none" /\ rest' = << >> /\ todo' = << >> /\ nodes' = << >>
        /\ operation_result # "ok"
    BY <1>5 DEF Ends, Confirmed
  <2>2. TypeOK'
    BY <1>1, <1>3, <1>5, <2>1, EmptyNodes DEF IInv, TypeOK
  <2>3. ControlInv' /\ UartInv'
    BY <1>1, <1>5, <2>1 DEF IInv, ControlInv, UartInv
  <2>4. WorkInv'
    BY <2>1 DEF WorkInv
  <2>5. SavedInv'
    BY <1>1, <1>5, <2>1 DEF IInv, SavedInv, ListedAreSaved, AckedAreSaved, Unsaved
  <2>6. ModuleInv'
    BY <1>1, <1>2, <1>5, <2>1 DEF IInv, ModuleInv, Answered, Ahead
  <2> QED
    BY <1>2, <2>2, <2>3, <2>4, <2>5, <2>6 DEF IInv
<1>6. CASE /\ Confirmed(operation_result) /\ job.op = "Init"
           /\ step' = "chunk" /\ nodes' = << >>
           /\ UNCHANGED <<job, rest, todo, stage>>
  <2>1. operation_result = "ok" /\ job' = job /\ rest' = rest /\ todo' = todo /\ stage' = stage
    BY <1>6 DEF Confirmed
  <2>2. TypeOK'
    BY <1>1, <1>3, <1>6, EmptyNodes DEF IInv, TypeOK
  <2>3. ControlInv' /\ UartInv'
    BY <1>1, <1>6 DEF IInv, ControlInv, UartInv
  <2>4. WorkInv'
    BY <1>6, <2>1 DEF WorkInv
  <2>5. SavedInv'
    BY <1>1, <1>6, <2>1 DEF IInv, SavedInv, ListedAreSaved, AckedAreSaved, Unsaved
  <2>6. ModuleInv'
    BY <1>1, <1>2, <1>4, <1>6, <2>1 DEF IInv, ModuleInv, Answered, Ahead
  <2> QED
    BY <1>2, <2>2, <2>3, <2>4, <2>5, <2>6 DEF IInv
<1>7. CASE /\ Confirmed(operation_result) /\ job.op # "Init"
           /\ step' = "update" /\ todo' = nodes
           /\ UNCHANGED <<job, rest, nodes, stage>>
  <2>1. operation_result = "ok" /\ job' = job /\ rest' = rest /\ nodes' = nodes /\ stage' = stage
    BY <1>7 DEF Confirmed
  <2>2. TypeOK'
    BY <1>1, <1>3, <1>7 DEF IInv, TypeOK
  <2>3. ControlInv' /\ UartInv'
    BY <1>1, <1>7 DEF IInv, ControlInv, UartInv
  <2>4. WorkInv'
    BY <1>1, <1>2, <1>3, <1>4, <1>7, <2>1 DEF IInv, WorkInv
  <2>5. SavedInv'
    <3>1. ListedAreSaved'
      BY <1>1, <1>7, <2>1 DEF IInv, SavedInv, ListedAreSaved, Unsaved
    <3>2. AckedAreSaved'
      BY <1>1 DEF IInv, SavedInv, AckedAreSaved
    <3> QED
      BY <1>1, <1>4, <1>7, <2>1, <3>1, <3>2 DEF IInv, SavedInv
  <2>6. ModuleInv'
    BY <1>1, <1>2, <1>7, <2>1 DEF IInv, ModuleInv, Answered, Ahead
  <2> QED
    BY <1>2, <2>2, <2>3, <2>4, <2>5, <2>6 DEF IInv
<1> QED
  BY <1>5, <1>6, <1>7 DEF OperationReturns

\* The module has confirmed a chunk: its nodes join the list and the map, or leave them.
LEMMA UpdateNodeKeeps ==
  ASSUME IInv, UpdateNode
  PROVE  IInv'
<1> USE DEF Busy, Adding, Deleting, config, worker, bounds
<1> DEFINE n == Head(todo)
           t == Tail(todo)
           a == n.acq_addr
<1>1. /\ step = "update" /\ table' = table /\ unread' = unread /\ job' = job
      /\ operation_result' = operation_result /\ stage' = stage /\ rest' = rest /\ nodes' = nodes
      /\ uart' = uart /\ module' = module /\ doubt' = doubt /\ acked' = acked
      /\ ops' = ops /\ faults' = faults /\ crashes' = crashes
  BY DEF UpdateNode
<1>2. /\ \/ t # << >> /\ todo' = t /\ step' = "update"
         \/ t = << >> /\ todo' = nodes /\ step' = "save"
      /\ \/ job.op = "Add" /\ AddChecked(job.app, n)
         \/ job.op # "Add" /\ RemoveChecked(job.app, n)
  BY <1>1 DEF UpdateNode
<1>3. job.op # "Init" /\ todo # << >> /\ nodes # << >>
  BY <1>1 DEF IInv, ControlInv
<1>4. /\ UnionOf(node_data, global_data) /\ job.app \in Apps /\ stage = "ready"
      /\ job.op \in {"Add", "Del", "Clear"}
  BY <1>1, <1>3, RequestFacts
<1>5. /\ n \in Target /\ t \in Seq(Target)
      /\ ToSet(todo) = {n} \cup ToSet(t) /\ AddrsOf(todo) = {a} \cup AddrsOf(t)
      /\ Distinct(todo) => Distinct(t) /\ a \notin AddrsOf(t)
  <2>1. todo \in Seq(Target) /\ todo # << >>
    BY <1>3 DEF IInv, TypeOK
  <2> QED
    BY <2>1, HeadNode, Zenon
<1>6. a \in Addrs /\ Distinct(todo) /\ a \notin AddrsOf(t)
  <2>1. Distinct(todo)
    BY <1>1, <1>4 DEF IInv, WorkInv
  <2>2. a \in Addrs
    BY <1>5 DEF Target
  <2> QED
    BY <1>5, <2>1, <2>2
<1>7. ToSet(<< >>) = {} /\ AddrsOf(<< >>) = {} /\ Distinct(<< >>)
  BY EmptyNodes
<1>8. ControlInv' /\ UartInv'
  BY <1>1, <1>2, <1>3, <1>4 DEF IInv, ControlInv, UartInv
<1>9. CASE job.op = "Add"
  <2>1. n \in NodeInfo /\ global_data[a] = None
    BY <1>1, <1>5, <1>9 DEF IInv, WorkInv
  <2>2. /\ node_data' = [node_data EXCEPT ![job.app] = Append(@, n)]
        /\ global_data' = [global_data EXCEPT ![a] = n.pro_type]
    BY <1>2, <1>9 DEF AddChecked
  <2>3. /\ ToSet(node_data'[job.app]) = ToSet(node_data[job.app]) \cup {n}
        /\ \A x \in Apps : x # job.app => node_data'[x] = node_data[x]
        /\ UnionOf(node_data', [global_data EXCEPT ![a] = n.pro_type])
    BY <1>4, <2>1, <2>2, JoinFacts
  <2>4. UnionOf(node_data', global_data')
    BY <2>2, <2>3
  <2>5. /\ node_data' \in [Apps -> Seq(NodeInfo)] /\ global_data' \in [Addrs -> Types \cup {None}]
        /\ GlobalIsUnion'
    BY <2>4, UnionNext
  <2> HIDE DEF n, t, a
  <2>6. n.pro_type # None
    BY <2>1, TypesAssumption DEF NodeInfo
  <2>7. /\ global_data'[a] # None /\ \A b \in Addrs : b # a => global_data'[b] = global_data[b]
        /\ Filed' = Filed \cup {a}
    <3>1. global_data \in [Addrs -> Types \cup {None}]
      BY DEF IInv, TypeOK
    <3> QED
      BY <1>6, <2>2, <2>6, <3>1 DEF Filed
  <2>8. TypeOK'
    BY <1>1, <1>2, <1>5, <2>5 DEF IInv, TypeOK
  <2>9. WorkInv'
    <3>1. AddrsOf(todo) \subseteq Addrs
      BY AddrsOfTargets DEF IInv, TypeOK
    <3>2. CASE t # << >> /\ todo' = t /\ step' = "update"
      BY <1>1, <1>4, <1>5, <1>6, <1>9, <2>7, <3>1, <3>2 DEF IInv, WorkInv
    <3>3. CASE t = << >> /\ todo' = nodes /\ step' = "save"
      BY <1>1, <1>4, <1>9, <3>3 DEF IInv, WorkInv
    <3> QED
      BY <1>2, <3>2, <3>3
  <2>10. SavedInv'
    <3>1. ToSet(todo) \subseteq ToSet(nodes) /\ n \in ToSet(nodes)
      BY <1>1, <1>5 DEF IInv, WorkInv
    <3>2. \A x \in Apps : Unsaved(x) = IF x = job.app THEN ToSet(nodes) ELSE {}
      BY <1>1, <1>9 DEF Unsaved
    <3>3. \A x \in Apps : Unsaved(x)' = IF x = job.app THEN ToSet(nodes) ELSE {}
      BY <1>1, <1>2, <1>9 DEF Unsaved
    <3>4. ListedAreSaved'
      <4>1. ASSUME NEW x \in Apps
            PROVE  ToSet(node_data'[x]) \subseteq table'[x] \cup Unsaved(x)'
        <5>1. ToSet(node_data[x]) \subseteq table[x] \cup Unsaved(x)
          BY DEF IInv, SavedInv, ListedAreSaved
        <5> QED
          BY <1>1, <2>3, <3>1, <3>2, <3>3, <5>1
      <4> QED
        BY <4>1 DEF ListedAreSaved
    <3>5. AckedAreSaved'
      BY <1>1 DEF IInv, SavedInv, AckedAreSaved
    <3>6. CASE t # << >> /\ todo' = t /\ step' = "update"
      BY <1>1, <1>4, <1>5, <1>9, <3>1, <3>4, <3>5, <3>6 DEF IInv, SavedInv
    <3>7. CASE t = << >> /\ todo' = nodes /\ step' = "save"
      BY <1>1, <1>4, <1>5, <1>9, <3>1, <3>4, <3>5, <3>7 DEF IInv, SavedInv
    <3> QED
      BY <1>2, <3>6, <3>7
  <2>11. ModuleInv'
    BY <1>1, <1>2, <1>4, <1>5, <1>7, <1>9, <2>7 DEF IInv, ModuleInv, Answered, Ahead
  <2> QED
    BY <1>8, <2>5, <2>8, <2>9, <2>10, <2>11 DEF IInv
<1>10. CASE job.op # "Add"
  <2>1. Has(job.app, a) /\ Forget(job.app, a) /\ global_data' = [global_data EXCEPT ![a] = None]
    BY <1>2, <1>10 DEF RemoveChecked
  <2>2. Holders(a) = {job.app}
    BY <1>1, <1>4, <1>5, <1>10 DEF IInv, WorkInv
  <2>3. \A x \in Apps \ {job.app} : ~Has(x, a)
    BY <2>2 DEF Holders
  <2>4. /\ ToSet(node_data'[job.app]) = ToSet(node_data[job.app]) \ {Found(job.app, a)}
        /\ AddrsOf(node_data'[job.app]) = AddrsOf(node_data[job.app]) \ {a}
        /\ \A x \in Apps : x # job.app => node_data'[x] = node_data[x]
        /\ UnionOf(node_data', [global_data EXCEPT ![a] = None])
    BY <1>4, <2>1, <2>3, ForgetFacts
  <2>5. UnionOf(node_data', global_data')
    BY <2>1, <2>4
  <2>6. /\ node_data' \in [Apps -> Seq(NodeInfo)] /\ global_data' \in [Addrs -> Types \cup {None}]
        /\ GlobalIsUnion'
    BY <2>5, UnionNext
  <2> HIDE DEF n, t, a
  <2>7. Filed' = Filed \ {a}
    <3>1. global_data \in [Addrs -> Types \cup {None}]
      BY DEF IInv, TypeOK
    <3> QED
      BY <1>6, <2>1, <3>1 DEF Filed
  <2>8. /\ \A b : b # a => Holders(b)' = Holders(b)
        /\ \A b : Has(job.app, b)' <=> Has(job.app, b) /\ b # a
    BY <1>1, <1>4, <2>4 DEF Holders, Has
  <2>9. TypeOK'
    BY <1>1, <1>2, <1>5, <2>6 DEF IInv, TypeOK
  <2>10. WorkInv'
    <3>1. CASE t # << >> /\ todo' = t /\ step' = "update"
      BY <1>1, <1>4, <1>5, <1>6, <1>10, <2>8, <3>1 DEF IInv, WorkInv
    <3>2. CASE t = << >> /\ todo' = nodes /\ step' = "save"
      BY <1>1, <1>4, <1>5, <1>7, <1>10, <2>8, <3>2 DEF IInv, WorkInv
    <3> QED
      BY <1>2, <3>1, <3>2
  <2>11. SavedInv'
    <3>1. ListedAreSaved'
      <4>1. ASSUME NEW x \in Apps
            PROVE  ToSet(node_data'[x]) \subseteq table'[x]
        <5>1. ToSet(node_data[x]) \subseteq table[x]
          BY <1>10 DEF IInv, SavedInv, ListedAreSaved, Unsaved
        <5> QED
          BY <1>1, <2>4, <5>1
      <4> QED
        BY <4>1 DEF ListedAreSaved
    <3>2. AckedAreSaved'
      BY <1>1 DEF IInv, SavedInv, AckedAreSaved
    <3> QED
      BY <1>1, <1>2, <1>4, <1>5, <1>10, <3>1, <3>2 DEF IInv, SavedInv
  <2>12. ModuleInv'
    BY <1>1, <1>2, <1>4, <1>5, <1>7, <1>10, <2>7 DEF IInv, ModuleInv, Answered, Ahead
  <2> QED
    BY <1>8, <2>6, <2>9, <2>10, <2>11, <2>12 DEF IInv
<1> QED
  BY <1>9, <1>10

\* add_sqlite and del_sqlite for a node of the chunk.
LEMMA SaveRowKeeps ==
  ASSUME IInv, SaveRow
  PROVE  IInv'
<1> USE DEF Busy, Adding, Deleting, config, worker, bounds
<1> DEFINE n == Head(todo)
           t == Tail(todo)
<1>1. /\ step = "save" /\ unread' = unread /\ job' = job /\ todo' = t
      /\ operation_result' = operation_result /\ stage' = stage /\ rest' = rest
      /\ node_data' = node_data /\ global_data' = global_data
      /\ uart' = uart /\ module' = module /\ doubt' = doubt /\ acked' = acked
      /\ ops' = ops /\ faults' = faults /\ crashes' = crashes
  BY DEF SaveRow
<1>2. \/ t # << >> /\ step' = "save" /\ nodes' = nodes
      \/ t = << >> /\ step' = "chunk" /\ nodes' = << >>
  BY <1>1 DEF SaveRow
<1>3. job.op # "Init" /\ todo # << >> /\ nodes # << >>
  BY <1>1 DEF IInv, ControlInv
<1>4. /\ job.app \in Apps /\ stage = "ready" /\ job.op \in {"Add", "Del", "Clear"}
  BY <1>1, <1>3, RequestFacts
<1>5. /\ n \in Target /\ t \in Seq(Target)
      /\ ToSet(todo) = {n} \cup ToSet(t) /\ AddrsOf(todo) = {n.acq_addr} \cup AddrsOf(t)
      /\ Distinct(todo) => Distinct(t) /\ n.acq_addr \notin AddrsOf(t)
  <2>1. todo \in Seq(Target) /\ todo # << >>
    BY <1>3 DEF IInv, TypeOK
  <2> QED
    BY <2>1, HeadNode, Zenon
<1>6. /\ table \in [Apps -> SUBSET NodeInfo]
      /\ table' = [table EXCEPT ![job.app] = IF job.op = "Add" THEN @ \cup {n} ELSE @ \ {n}]
      /\ job.op = "Add" => n \in NodeInfo
  BY <1>1, <1>5 DEF SaveRow, InsertRow, DeleteRow, IInv, TypeOK, WorkInv
<1> HIDE DEF n, t
<1>7. /\ table' \in [Apps -> SUBSET NodeInfo]
      /\ table'[job.app] = IF job.op = "Add" THEN table[job.app] \cup {n} ELSE table[job.app] \ {n}
      /\ \A x \in Apps : x # job.app => table'[x] = table[x]
  BY <1>4, <1>6
<1>8. ToSet(<< >>) = {} /\ AddrsOf(<< >>) = {} /\ Distinct(<< >>)
  BY EmptyNodes
<1>9. /\ GlobalIsUnion' /\ Filed' = Filed /\ \A b : Holders(b)' = Holders(b)
      /\ \A app, b : Has(app, b)' <=> Has(app, b)
  BY <1>1, SameLists DEF IInv
<1>10. TypeOK'
  BY <1>1, <1>2, <1>5, <1>7, EmptyNodes DEF IInv, TypeOK
<1>11. ControlInv' /\ UartInv'
  BY <1>1, <1>2, <1>3, <1>4 DEF IInv, ControlInv, UartInv
<1>12. WorkInv'
  <2>1. CASE t # << >> /\ step' = "save" /\ nodes' = nodes
    BY <1>1, <1>4, <1>5, <1>9, <2>1 DEF IInv, WorkInv
  <2>2. CASE t = << >> /\ step' = "chunk" /\ nodes' = << >>
    BY <1>1, <1>4, <1>8, <2>2 DEF IInv, WorkInv
  <2> QED
    BY <1>2, <2>1, <2>2
<1>13. SavedInv'
  <2>1. \A x \in Apps : Unsaved(x) = IF job.op = "Add" /\ x = job.app THEN ToSet(todo) ELSE {}
    BY <1>1 DEF Unsaved
  <2>2. \A x \in Apps : Unsaved(x)' = IF job.op = "Add" /\ x = job.app THEN ToSet(t) ELSE {}
    BY <1>1, <1>2, <1>8 DEF Unsaved
  <2>3. job.op # "Add" => n \notin ToSet(node_data[job.app]) /\ n \notin acked[job.app]
    <3>1. job.op # "Add" => n \notin ToSet(node_data[job.app])
      BY <1>1, <1>4, <1>5 DEF IInv, WorkInv, Has, AddrsOf
    <3>2. job.op # "Add" => n \notin acked[job.app]
      BY <1>1, <1>4, <1>5 DEF IInv, SavedInv
    <3> QED
      BY <3>1, <3>2
  <2>4. ListedAreSaved'
    <3>1. ASSUME NEW x \in Apps
          PROVE  ToSet(node_data'[x]) \subseteq table'[x] \cup Unsaved(x)'
      <4>1. ToSet(node_data[x]) \subseteq table[x] \cup Unsaved(x)
        BY DEF IInv, SavedInv, ListedAreSaved
      <4> QED
        BY <1>1, <1>5, <1>7, <2>1, <2>2, <2>3, <4>1
    <3> QED
      BY <3>1 DEF ListedAreSaved
  <2>5. AckedAreSaved'
    BY <1>1, <1>7, <2>3 DEF IInv, SavedInv, AckedAreSaved
  <2>6. CASE t # << >> /\ step' = "save" /\ nodes' = nodes
    BY <1>1, <1>4, <1>5, <1>7, <2>4, <2>5, <2>6 DEF IInv, SavedInv
  <2>7. CASE t = << >> /\ step' = "chunk" /\ nodes' = << >>
    BY <1>1, <1>4, <1>5, <1>7, <1>8, <2>4, <2>5, <2>7 DEF IInv, SavedInv
  <2> QED
    BY <1>2, <2>6, <2>7
<1>14. ModuleInv'
  BY <1>1, <1>2, <1>4, <1>9 DEF IInv, ModuleInv, Answered, Ahead
<1> QED
  BY <1>9, <1>10, <1>11, <1>12, <1>13, <1>14 DEF IInv

\* A row is read: it cannot be listed and the start begins again, or it is listed and its
\* address will be sent to the module.
LEMMA LoadRowKeeps ==
  ASSUME IInv, NEW app \in Apps, NEW n \in unread[app], LoadRow(app, n)
  PROVE  IInv'
<1> USE DEF Busy, Adding, Deleting, config, worker, bounds
<1> DEFINE a == n.acq_addr
<1>1. /\ stage = "load" /\ table' = table /\ operation_result' = operation_result /\ step' = step
      /\ job' = job /\ rest' = rest /\ todo' = todo /\ uart' = uart /\ module' = module
      /\ doubt' = doubt /\ acked' = acked /\ ops' = ops /\ faults' = faults /\ crashes' = crashes
  BY DEF LoadRow
<1>2. /\ step = "none" /\ rest = << >> /\ todo = << >> /\ uart = None /\ operation_result = None
      /\ UnionOf(node_data, global_data) /\ nodes \in Seq(Target)
  <2>1. step = "none"
    BY <1>1 DEF IInv, ControlInv
  <2>2. UnionOf(node_data, global_data)
    BY UnionIs DEF IInv, TypeOK
  <2> QED
    BY <1>1, <2>1, <2>2 DEF IInv, TypeOK, ControlInv, UartInv
<1>3. /\ table \in [Apps -> SUBSET NodeInfo] /\ unread \in [Apps -> SUBSET NodeInfo]
      /\ n \in NodeInfo /\ n \in table[app] /\ n \in Target
      /\ \A x \in Apps : unread[x] \subseteq table[x] /\ ToSet(node_data[x]) \subseteq table[x]
  <2>1. n \in NodeInfo /\ n \in table[app]
    BY <1>1 DEF IInv, TypeOK, SavedInv
  <2>2. n \in Target
    BY <2>1 DEF NodeInfo, Target
  <2> QED
    BY <1>1, <1>2, <2>1, <2>2 DEF IInv, TypeOK, SavedInv, ListedAreSaved, Unsaved
<1>4. a \in Addrs /\ n.pro_type # None
  BY <1>3, TypesAssumption DEF NodeInfo
<1>5. CASE /\ Mismatch(app, n) /\ stage' = "clear" /\ unread' = NoRows /\ nodes' = << >>
           /\ UNCHANGED config
  <2>1. GlobalIsUnion'
    BY <1>5, SameLists DEF IInv
  <2>2. ListedAreSaved' /\ AckedAreSaved'
    BY <1>1, <1>2, <1>5 DEF IInv, SavedInv, ListedAreSaved, AckedAreSaved, Unsaved
  <2>3. unread' \in [Apps -> SUBSET NodeInfo]
    BY <1>5 DEF NoRows
  <2>4. AtStart'
    BY <1>1, <1>2, <1>5, <2>1, <2>2, <2>3 DEF AtStart, IInv, TypeOK
  <2> QED
    BY <2>4, AtStartIsFine, PTL
<1>6. CASE /\ \/ Existing(app, a) = None /\ AddChecked(app, n)
              \/ AddExist(app, n, TRUE)
           /\ unread' = [unread EXCEPT ![app] = @ \ {n}]
           /\ nodes' = IF n \in ToSet(nodes) THEN nodes ELSE Append(nodes, n)
           /\ UNCHANGED stage
  <2>1. /\ UnionOf(node_data', global_data') /\ Filed' = Filed \cup {a}
        /\ ToSet(node_data'[app]) = ToSet(node_data[app]) \cup {n}
        /\ \A x \in Apps : x # app => node_data'[x] = node_data[x]
    <3>1. global_data \in [Addrs -> Types \cup {None}]
      BY DEF IInv, TypeOK
    <3>2. CASE Existing(app, a) = None /\ AddChecked(app, n)
      <4>1. global_data[a] = None
        BY <1>2, <3>2, ExistingFacts
      <4>2. /\ node_data' = [node_data EXCEPT ![app] = Append(@, n)]
            /\ global_data' = [global_data EXCEPT ![a] = n.pro_type]
        BY <3>2 DEF AddChecked
      <4>3. /\ ToSet(node_data'[app]) = ToSet(node_data[app]) \cup {n}
            /\ \A x \in Apps : x # app => node_data'[x] = node_data[x]
            /\ UnionOf(node_data', [global_data EXCEPT ![a] = n.pro_type])
        BY <1>2, <1>3, <4>1, <4>2, JoinFacts
      <4>4. Filed' = Filed \cup {a}
        BY <1>4, <3>1, <4>2 DEF Filed
      <4> QED
        BY <4>2, <4>3, <4>4
    <3>3. CASE AddExist(app, n, TRUE)
      <4>1. /\ UnionOf(node_data', global_data') /\ global_data' = global_data
            /\ global_data[a] = n.pro_type
            /\ ToSet(node_data'[app]) = ToSet(node_data[app]) \cup {n}
            /\ \A x \in Apps : x # app => node_data'[x] = node_data[x]
        BY <1>2, <1>3, <3>3, AddExistFacts
      <4>2. Filed' = Filed \cup {a}
        BY <1>4, <4>1 DEF Filed
      <4> QED
        BY <4>1, <4>2
    <3> QED
      BY <1>6, <3>2, <3>3
  <2>2. /\ node_data' \in [Apps -> Seq(NodeInfo)] /\ global_data' \in [Addrs -> Types \cup {None}]
        /\ GlobalIsUnion'
    BY <2>1, UnionNext
  <2>3. nodes' \in Seq(Target) /\ AddrsOf(nodes') = AddrsOf(nodes) \cup {a}
    <3>1. CASE n \in ToSet(nodes)
      <4>1. nodes' = nodes /\ a \in AddrsOf(nodes)
        BY <1>6, <3>1 DEF AddrsOf
      <4> QED
        BY <1>2, <4>1
    <3>2. CASE n \notin ToSet(nodes)
      <4>1. nodes' = Append(nodes, n)
        BY <1>6, <3>2
      <4>2. /\ Append(nodes, n) \in Seq(Target)
            /\ AddrsOf(Append(nodes, n)) = AddrsOf(nodes) \cup {n.acq_addr}
        BY <1>2, <1>3, AppendNode
      <4> QED
        BY <4>1, <4>2
    <3> QED
      BY <3>1, <3>2
  <2>4. unread' \in [Apps -> SUBSET NodeInfo] /\ \A x \in Apps : unread'[x] \subseteq unread[x]
    BY <1>3, <1>6
  <2> HIDE DEF a
  <2>5. TypeOK'
    BY <1>1, <1>2, <1>6, <2>2, <2>3, <2>4 DEF IInv, TypeOK
  <2>6. ControlInv' /\ UartInv'
    BY <1>1, <1>2, <1>6 DEF IInv, ControlInv, UartInv
  <2>7. WorkInv'
    BY <1>1, <1>2 DEF WorkInv
  <2>8. SavedInv'
    <3>1. ListedAreSaved'
      BY <1>1, <1>3, <2>1 DEF ListedAreSaved
    <3>2. AckedAreSaved'
      BY <1>1 DEF IInv, SavedInv, AckedAreSaved
    <3> QED
      BY <1>1, <1>2, <1>3, <2>4, <3>1, <3>2 DEF SavedInv
  <2>9. ModuleInv'
    BY <1>1, <1>2, <1>6, <2>1, <2>3 DEF IInv, ModuleInv
  <2> QED
    BY <2>2, <2>5, <2>6, <2>7, <2>8, <2>9 DEF IInv
<1> QED
  BY <1>5, <1>6 DEF LoadRow

\* Whose request the UART agent has.
LEMMA UartRequest ==
  ASSUME IInv, uart # None
  PROVE  /\ operation_result = None /\ operation_result # "ok"
         /\ \/ /\ stage = "clearing" /\ step = "none" /\ uart.what = "Params"
               /\ Obeyed = {}
            \/ /\ step = "wait" /\ stage \in {"ready", "loading"}
               /\ job.op \in {"Init", "Add", "Del", "Clear"}
               /\ (job.op = "Init" <=> stage = "loading")
               /\ uart.what = IF job.op \in {"Add", "Init"} THEN "AddNode" ELSE "DelNode"
               /\ uart.addrs = AddrsOf(nodes)
               /\ Obeyed = IF job.op \in {"Add", "Init"} THEN module \cup AddrsOf(nodes)
                                                         ELSE module \ AddrsOf(nodes)
         /\ Obeyed \subseteq Addrs /\ uart.addrs \subseteq Addrs
<1>1. operation_result = None /\ operation_result # "ok"
  BY TypesAssumption DEF IInv, UartInv
<1>2. uart.addrs \subseteq Addrs /\ module \subseteq Addrs
  BY DEF IInv, TypeOK
<1>3. CASE stage = "clearing" /\ uart.what = "Params"
  <2>1. step = "none"
    BY <1>3 DEF IInv, ControlInv, Busy
  <2>2. Obeyed = {}
    BY <1>3 DEF Obeyed
  <2> QED
    BY <1>1, <1>2, <1>3, <2>1, <2>2
<1>4. CASE /\ step = "wait"
           /\ uart.what = IF job.op \in {"Add", "Init"} THEN "AddNode" ELSE "DelNode"
           /\ uart.addrs = AddrsOf(nodes)
  <2>1. /\ stage \in {"ready", "loading"} /\ job.op \in {"Init", "Add", "Del", "Clear"}
        /\ (job.op = "Init" <=> stage = "loading")
    BY <1>4 DEF IInv, TypeOK, ControlInv, Busy
  <2>2. Obeyed = IF job.op \in {"Add", "Init"} THEN module \cup AddrsOf(nodes)
                                               ELSE module \ AddrsOf(nodes)
    BY <1>4 DEF Obeyed
  <2> QED
    BY <1>1, <1>2, <1>4, <2>1, <2>2
<1> QED
  BY <1>3, <1>4 DEF IInv, UartInv

\* What the lists are once the answer is handled.
LEMMA HandledFacts ==
  ASSUME IInv, uart # None, Handled \/ UNCHANGED config
  PROVE  /\ UnionOf(node_data', global_data')
         /\ \A app \in Apps : ToSet(node_data'[app]) \subseteq ToSet(node_data[app])
         /\ uart.what = "Params" /\ Handled => Filed' = {}
         /\ uart.what # "Params" \/ UNCHANGED config =>
              /\ UNCHANGED config /\ Filed' = Filed
              /\ \A a : Holders(a)' = Holders(a)
              /\ \A app, a : Has(app, a)' <=> Has(app, a)
<1>1. CASE uart.what = "Params" /\ Handled /\ ~UNCHANGED config
  <2>1. node_data' = NoLists /\ global_data' = NoTypes
    BY <1>1 DEF Handled
  <2>2. Filed' = {}
    BY <2>1 DEF Filed, NoTypes
  <2> QED
    BY <1>1, <2>1, <2>2, NothingListed
<1>2. CASE UNCHANGED config
  <2>1. node_data' = node_data /\ global_data' = global_data
    BY <1>2 DEF config
  <2>2. UnionOf(node_data, global_data)
    BY UnionIs DEF IInv, TypeOK
  <2>3. /\ Filed' = Filed /\ \A a : Holders(a)' = Holders(a)
        /\ \A app, a : Has(app, a)' <=> Has(app, a)
    BY <1>2, SameLists DEF IInv
  <2>4. uart.what = "Params" /\ Handled => Filed' = {}
    BY DEF Handled, Filed, NoTypes
  <2> QED
    BY <1>2, <2>1, <2>2, <2>3, <2>4
<1> QED
  BY <1>1, <1>2 DEF Handled

\* However a request ends, only where the module stands is left to show.
LEMMA UartEnds ==
  ASSUME IInv, uart # None, uart' = None, Handled \/ UNCHANGED config,
         UNCHANGED <<table, unread, stage, worker, acked, ops, crashes>>,
         faults' \in 0 .. MaxFaults, operation_result' \in {"ok", "err", None},
         module' \in {module, Obeyed}, doubt' \subseteq Addrs, ModuleInv'
  PROVE  IInv'
<1> USE DEF Busy, Adding, Deleting, worker
<1>1. /\ UnionOf(node_data', global_data')
      /\ \A app \in Apps : ToSet(node_data'[app]) \subseteq ToSet(node_data[app])
      /\ uart.what # "Params" \/ UNCHANGED config =>
           /\ UNCHANGED config /\ Filed' = Filed
           /\ \A a : Holders(a)' = Holders(a)
           /\ \A app, a : Has(app, a)' <=> Has(app, a)
  BY HandledFacts
<1>2. /\ node_data' \in [Apps -> Seq(NodeInfo)] /\ global_data' \in [Addrs -> Types \cup {None}]
      /\ GlobalIsUnion'
  BY <1>1, UnionNext
<1>3. /\ \/ stage = "clearing" /\ step = "none"
         \/ step = "wait" /\ uart.what # "Params"
      /\ Obeyed \subseteq Addrs
  BY UartRequest
<1>4. TypeOK'
  BY <1>2, <1>3 DEF IInv, TypeOK
<1>5. ControlInv' /\ UartInv'
  BY <1>3 DEF IInv, ControlInv, UartInv
<1>6. WorkInv'
  <2>1. CASE step = "none"
    BY <2>1 DEF WorkInv
  <2>2. CASE step = "wait" /\ uart.what # "Params"
    <3>1. global_data' = global_data /\ \A a : Holders(a)' = Holders(a)
      BY <1>1, <2>2 DEF config
    <3> QED
      BY <2>2, <3>1 DEF IInv, WorkInv
  <2> QED
    BY <1>3, <2>1, <2>2
<1>7. SavedInv'
  <2>1. \A app \in Apps : Unsaved(app) = {} /\ Unsaved(app)' = {}
    BY <1>3 DEF Unsaved
  <2>2. ListedAreSaved'
    BY <1>1, <2>1 DEF IInv, SavedInv, ListedAreSaved
  <2>3. AckedAreSaved'
    BY DEF IInv, SavedInv, AckedAreSaved
  <2> QED
    BY <2>2, <2>3 DEF IInv, SavedInv
<1> QED
  BY <1>2, <1>4, <1>5, <1>6, <1>7 DEF IInv

\* The module confirms: it has done what it was asked.
LEMMA UartConfirmsKeeps ==
  ASSUME IInv, UartConfirms
  PROVE  IInv'
<1> USE DEF Busy, Adding, Deleting, config, worker, bounds
<1>1. /\ uart # None /\ uart' = None /\ Handled /\ module' = Obeyed /\ operation_result' = "ok"
      /\ doubt' = IF uart.what = "Params" THEN {} ELSE doubt
      /\ stage' = stage /\ step' = step /\ job' = job /\ rest' = rest /\ nodes' = nodes /\ todo' = todo
      /\ faults' = faults
  BY DEF UartConfirms
<1>2. ModuleInv'
  <2>1. /\ uart.what = "Params" => Filed' = {}
        /\ uart.what # "Params" => Filed' = Filed
    BY <1>1, HandledFacts
  <2>2. CASE stage = "clearing" /\ step = "none" /\ uart.what = "Params" /\ Obeyed = {}
    BY <1>1, <2>1, <2>2 DEF ModuleInv
  <2>3. CASE ~(stage = "clearing" /\ step = "none" /\ uart.what = "Params")
    <3>1. /\ step = "wait" /\ stage \in {"ready", "loading"} /\ operation_result # "ok"
          /\ job.op \in {"Init", "Add", "Del", "Clear"} /\ (job.op = "Init" <=> stage = "loading")
          /\ uart.what # "Params"
          /\ module' = IF job.op \in {"Add", "Init"} THEN module \cup AddrsOf(nodes)
                                                     ELSE module \ AddrsOf(nodes)
      BY <1>1, <2>3, UartRequest
    <3>2. doubt' = doubt /\ Filed' = Filed
      BY <1>1, <2>1, <3>1
    <3> QED
      BY <1>1, <3>1, <3>2 DEF IInv, ModuleInv, Answered, Ahead
  <2> QED
    BY <1>1, <2>2, <2>3, UartRequest
<1>3. doubt' \subseteq Addrs /\ faults' \in 0 .. MaxFaults
  BY <1>1 DEF IInv, TypeOK
<1> QED
  BY <1>1, <1>2, <1>3, UartEnds DEF UartConfirms

\* The module denies: it has not done it.
LEMMA UartDeniesKeeps ==
  ASSUME IInv, UartDenies
  PROVE  IInv'
<1> USE DEF Busy, Adding, Deleting, config, worker, bounds
<1>1. /\ uart # None /\ uart' = None /\ Handled /\ module' = module /\ operation_result' = "err"
      /\ doubt' = doubt /\ faults < MaxFaults /\ faults' = faults + 1
      /\ stage' = stage /\ step' = step /\ job' = job /\ rest' = rest /\ nodes' = nodes /\ todo' = todo
  BY DEF UartDenies, Fault
<1>2. ModuleInv'
  <2>1. /\ uart.what = "Params" => Filed' = {}
        /\ uart.what # "Params" => Filed' = Filed
    BY <1>1, HandledFacts
  <2>2. CASE stage = "clearing" /\ step = "none" /\ uart.what = "Params"
    BY <1>1, <2>1, <2>2 DEF ModuleInv
  <2>3. CASE ~(stage = "clearing" /\ step = "none" /\ uart.what = "Params")
    <3>1. /\ step = "wait" /\ stage \in {"ready", "loading"} /\ operation_result # "ok"
          /\ uart.what # "Params"
      BY <1>1, <2>3, UartRequest
    <3> QED
      BY <1>1, <2>1, <3>1 DEF IInv, ModuleInv, Answered, Ahead
  <2> QED
    BY <2>2, <2>3
<1>3. doubt' \subseteq Addrs /\ faults' \in 0 .. MaxFaults
  BY <1>1, BoundsAssumption DEF IInv, TypeOK
<1> QED
  BY <1>1, <1>2, <1>3, UartEnds DEF UartDenies

\* No answer or none that parses: where the module may differ is in doubt.
LEMMA DoubtKeeps ==
  ASSUME IInv, Fault, Handled \/ UNCHANGED config, module' \in {module, Obeyed},
         doubt' = doubt \cup uart.addrs,
         operation_result' = operation_result \/ (operation_result' = "err" /\ uart.what # "Params"),
         UNCHANGED <<table, unread, stage, worker, acked, ops, crashes>>
  PROVE  IInv'
<1> USE DEF Busy, Adding, Deleting, config, worker
<1>1. /\ uart # None /\ uart' = None /\ faults < MaxFaults /\ faults' = faults + 1
      /\ stage' = stage /\ step' = step /\ job' = job /\ rest' = rest /\ nodes' = nodes /\ todo' = todo
  BY DEF Fault
<1>2. /\ operation_result = None /\ operation_result # "ok" /\ operation_result' # "ok"
      /\ uart.addrs \subseteq Addrs
  BY <1>1, UartRequest
<1>3. ModuleInv'
  <2>1. uart.what # "Params" => Filed' = Filed
    BY <1>1, HandledFacts
  <2>2. CASE stage = "clearing" /\ step = "none" /\ uart.what = "Params"
    <3>1. operation_result' = None
      BY <1>2, <2>2
    <3> QED
      BY <1>1, <1>2, <2>2, <3>1 DEF ModuleInv
  <2>3. CASE ~(stage = "clearing" /\ step = "none" /\ uart.what = "Params")
    <3>1. /\ step = "wait" /\ stage \in {"ready", "loading"}
          /\ job.op \in {"Init", "Add", "Del", "Clear"} /\ (job.op = "Init" <=> stage = "loading")
          /\ uart.what # "Params" /\ uart.addrs = AddrsOf(nodes)
          /\ Obeyed = IF job.op \in {"Add", "Init"} THEN module \cup AddrsOf(nodes)
                                                    ELSE module \ AddrsOf(nodes)
      BY <1>1, <2>3, UartRequest
    <3>2. doubt' = doubt \cup AddrsOf(nodes) /\ Filed' = Filed
      BY <2>1, <3>1
    <3> QED
      BY <1>1, <1>2, <3>1, <3>2 DEF IInv, ModuleInv, Answered, Ahead
  <2> QED
    BY <2>2, <2>3
<1>4. doubt' \subseteq Addrs /\ faults' \in 0 .. MaxFaults
  BY <1>1, <1>2, BoundsAssumption DEF IInv, TypeOK
<1>5. operation_result' \in {"ok", "err", None}
  BY <1>2
<1> QED
  BY <1>1, <1>3, <1>4, <1>5, UartEnds

\* The request runs out of time.
LEMMA UartTimesOutKeeps ==
  ASSUME IInv, UartTimesOut
  PROVE  IInv'
<1>1. operation_result' = operation_result \/ (operation_result' = "err" /\ uart.what # "Params")
  BY DEF UartTimesOut
<1> QED
  BY <1>1, DoubtKeeps DEF UartTimesOut

\* The answer does not parse.
LEMMA UartBadlyAnswersKeeps ==
  ASSUME IInv, UartBadlyAnswers
  PROVE  IInv'
  BY DoubtKeeps DEF UartBadlyAnswers

\* Nothing happens.
LEMMA StutterKeeps ==
  ASSUME IInv, UNCHANGED vars
  PROVE  IInv'
<1> USE DEF Busy, Adding, Deleting, config, worker, bounds, vars
<1>1. TypeOK' /\ ControlInv' /\ UartInv'
  BY DEF IInv, TypeOK, ControlInv, UartInv
<1>2. /\ GlobalIsUnion' /\ Filed' = Filed /\ \A a : Holders(a)' = Holders(a)
      /\ \A app, a : Has(app, a)' <=> Has(app, a)
  BY SameLists DEF IInv
<1>3. WorkInv'
  BY <1>2 DEF IInv, WorkInv
<1>4. SavedInv'
  BY DEF IInv, SavedInv, ListedAreSaved, AckedAreSaved, Unsaved
<1>5. ModuleInv'
  BY <1>2 DEF IInv, ModuleInv, Answered, Ahead
<1> QED
  BY <1>1, <1>2, <1>3, <1>4, <1>5 DEF IInv

----------------------------------------------------------------------------
(* The theorems. *)

\* The invariant is inductive.
THEOREM Invariance == Spec => []IInv
<1>1. ASSUME IInv, [Next]_vars
      PROVE  IInv'
  <2>1. CASE Client
    BY <1>1, <2>1, ClientKeeps
  <2>2. CASE Operate
    BY <1>1, <2>2, TakeChunkKeeps, AddNodeKeeps, DelNodeKeeps, SendChunkKeeps, OperationReturnsKeeps,
       UpdateNodeKeeps, SaveRowKeeps, CompleteKeeps DEF Operate
  <2>3. CASE Device
    BY <1>1, <2>3, InitClearKeeps, InitClearReturnsKeeps, LoadConfigKeeps, LoadRowKeeps DEF Device
  <2>4. CASE Uart
    BY <1>1, <2>4, UartConfirmsKeeps, UartDeniesKeeps, UartTimesOutKeeps, UartBadlyAnswersKeeps DEF Uart
  <2>5. CASE Crash
    BY <1>1, <2>5, CrashKeeps
  <2>6. CASE UNCHANGED vars
    BY <1>1, <2>6, StutterKeeps
  <2> QED
    BY <1>1, <2>1, <2>2, <2>3, <2>4, <2>5, <2>6 DEF Next
<1> QED
  BY <1>1, InitIsFine, PTL DEF Spec

\* The variables have their types.
THEOREM TypeCorrect == Spec => []TypeOK
<1>1. IInv => TypeOK
  BY DEF IInv
<1> QED
  BY <1>1, Invariance, PTL

\* An address is in the global map as long as some application has it, with one type for
\* all: GlobalNodeConfig and the lists of NodeConfig agree after every step of every request,
\* so that Arc::strong_count tells should_remove_node_info the truth.
THEOREM GlobalMapIsUnion == Spec => []GlobalIsUnion
<1>1. IInv => GlobalIsUnion
  BY DEF IInv
<1> QED
  BY <1>1, Invariance, PTL

\* Between requests the module has the addresses of the global map, but for those a request
\* that ended without an answer named: after requests that operate_chunk_acq_files broke off,
\* denied ones and restarts too.
THEOREM ModuleIsInStep == Spec => []ModuleInStep
<1>1. IInv => ModuleInStep
  BY DEF IInv, ModuleInv, ModuleInStep, Deleting, Busy, Ahead, Answered, Filed
<1> QED
  BY <1>1, Invariance, PTL

\* A node whose addition AddAcqFiles confirmed is in its application's table until the
\* application asks to delete it, wherever a restart falls between two SQL statements.
THEOREM ConfirmedAreSaved == Spec => []AckedAreSaved
<1>1. IInv => AckedAreSaved
  BY DEF IInv, SavedInv
<1> QED
  BY <1>1, Invariance, PTL

\* The node that remove_node_info_checked looks for is listed: the removal after the module's
\* answer cannot panic, although the lock was free while the module was asked.
RemovalFindsNode == step = "update" /\ job.op # "Add" => Has(job.app, Head(todo).acq_addr)

\* It is listed in every state in which the removal is about to look for it.
THEOREM RemovalNeverPanics == Spec => []RemovalFindsNode
<1>1. ASSUME IInv, step = "update", job.op # "Add"
      PROVE  Has(job.app, Head(todo).acq_addr)
  <2>1. job.op # "Init" /\ todo # << >> /\ todo \in Seq(Target)
    BY <1>1 DEF IInv, TypeOK, ControlInv, Busy
  <2>2. job.op \in {"Del", "Clear"}
    BY <1>1, <2>1, RequestFacts
  <2>3. AddrsOf(todo) = {Head(todo).acq_addr} \cup AddrsOf(Tail(todo))
    BY <2>1, HeadNode
  <2>4. Holders(Head(todo).acq_addr) = {job.app}
    BY <1>1, <2>2, <2>3 DEF IInv, WorkInv, Deleting, Busy
  <2> QED
    BY <2>4 DEF Holders
<1>2. IInv => RemovalFindsNode
  BY <1>1 DEF RemovalFindsNode
<1> QED
  BY <1>2, Invariance, PTL

\* What should_remove_node_info found out before the request was sent still holds while the
\* module is asked and when it answers: it is told to forget only what no other application
\* has, and to add for a client only what nobody has.
AskedForOwn ==
  uart # None /\ step = "wait" =>
    /\ uart.what = "DelNode" => \A a \in uart.addrs : Holders(a) = {job.app}
    /\ job.op = "Add" => uart.what = "AddNode" /\ \A a \in uart.addrs : Holders(a) = {}

\* No request at the module is about a node of another application.
THEOREM OthersKeepTheirNodes == Spec => []AskedForOwn
<1>1. ASSUME IInv, uart # None, step = "wait"
      PROVE  /\ uart.what = "DelNode" => \A a \in uart.addrs : Holders(a) = {job.app}
             /\ job.op = "Add" => uart.what = "AddNode" /\ \A a \in uart.addrs : Holders(a) = {}
  <2>1. /\ uart.what = IF job.op \in {"Add", "Init"} THEN "AddNode" ELSE "DelNode"
        /\ uart.addrs = AddrsOf(nodes) /\ job.op \in {"Init", "Add", "Del", "Clear"}
        /\ uart.addrs \subseteq Addrs
    BY <1>1, UartRequest
  <2>2. uart.what = "DelNode" => \A a \in uart.addrs : Holders(a) = {job.app}
    BY <1>1, <2>1 DEF IInv, WorkInv, Deleting, Busy
  <2>3. job.op = "Add" => \A a \in uart.addrs : global_data[a] = None
    BY <1>1, <2>1 DEF IInv, WorkInv, Adding, Busy
  <2>4. \A a \in Addrs : Holders(a) # {} <=> global_data[a] # None
    BY <1>1 DEF IInv, GlobalIsUnion
  <2>5. job.op = "Add" => \A a \in uart.addrs : Holders(a) = {}
    BY <2>1, <2>3, <2>4
  <2> QED
    BY <2>1, <2>2, <2>5
<1>2. IInv => AskedForOwn
  BY <1>1 DEF AskedForOwn
<1> QED
  BY <1>2, Invariance, PTL

\* Between requests every listed node has its row, whoever added it first and however the
\* request that listed it ended: load_config_from_db brings back every list.
ListsAreInTables == step = "none" => \A app \in Apps : ToSet(node_data[app]) \subseteq table[app]

\* No request, failed or not, leaves a node listed without a row.
THEOREM ListsSurviveRestart == Spec => []ListsAreInTables
<1>1. IInv => ListsAreInTables
  BY DEF IInv, SavedInv, ListedAreSaved, Unsaved, Adding, Busy, ListsAreInTables
<1> QED
  BY <1>1, Invariance, PTL

=============================================================================
