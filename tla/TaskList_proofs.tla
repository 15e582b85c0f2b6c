-------------------------- MODULE TaskList_proofs --------------------------
(***************************************************************************)
(* Proofs about TaskList, for any set of tasks, any number of calls and of *)
(* changes in the panel.                                                   *)
(***************************************************************************)
EXTENDS TaskList, TLAPS

Place == Task \cup {NoTask}

(* What the operations on lists make of the parts of a list.                *)
LEMMA FlatFacts ==
  ASSUME NEW S \in SUBSET Task
  PROVE  /\ Flat(S) \in List
         /\ Flat(S).nodes = S /\ Flat(S).roots = S
         /\ \A t \in Task : /\ Flat(S).parent[t] = NoTask
                            /\ Flat(S).children[t] = {}
                            /\ Flat(S).dependencies[t] = {}
                            /\ Flat(S).blocks[t] = {}
  BY DEF Flat, List, Empty

LEMMA BelowType ==
  ASSUME NEW g, NEW t
  PROVE  Below(g, t) \in SUBSET Task
  BY DEF Below

RepairedParent(g) ==
  [t \in Task |-> IF g.parent[t] \in g.nodes THEN g.parent[t] ELSE NoTask]
RepairedChildren(g) ==
  [p \in Task |-> (g.children[p] \cap g.nodes)
                    \cup {t \in g.nodes : RepairedParent(g)[t] = p}]
RepairedRoots(g) ==
  {t \in g.nodes : /\ RepairedParent(g)[t] = NoTask
                   /\ t \notin UNION {RepairedChildren(g)[p] : p \in g.nodes}}
    \cup (g.roots \cap g.nodes)

LEMMA RepairFacts ==
  ASSUME NEW g \in List
  PROVE  LET m == Repair(g) IN
         /\ m \in List /\ m.nodes = g.nodes
         /\ m.parent = RepairedParent(g) /\ m.children = RepairedChildren(g)
         /\ m.dependencies = [t \in Task |-> g.dependencies[t] \cap g.nodes]
         /\ m.blocks = g.blocks /\ m.roots = RepairedRoots(g)
<1> DEFINE P == RepairedParent(g)
           C == RepairedChildren(g)
           D == [t \in Task |-> g.dependencies[t] \cap g.nodes]
           R == RepairedRoots(g)
<1>1. Repair(g) = [g EXCEPT !.parent = P, !.children = C, !.dependencies = D, !.roots = R]
  BY Zenon DEF Repair, RepairedRoots, RepairedParent, RepairedChildren
<1>2. P \in [Task -> Task \cup {NoTask}]
  BY DEF RepairedParent, List
<1>3. C \in [Task -> SUBSET Task] /\ R \in SUBSET Task
  BY DEF RepairedChildren, RepairedRoots, List
<1>4. D \in [Task -> SUBSET Task]
  BY DEF List
<1> HIDE DEF P, C, D, R
<1>5. QED
  <2>1. /\ Repair(g) \in List /\ Repair(g).nodes = g.nodes
        /\ Repair(g).parent = P /\ Repair(g).children = C /\ Repair(g).dependencies = D
        /\ Repair(g).blocks = g.blocks /\ Repair(g).roots = R
    BY <1>1, <1>2, <1>3, <1>4 DEF List
  <2>2. QED
    BY <2>1 DEF P, C, D, R

-----------------------------------------------------------------------------
(* Every list that anybody holds is a forest whose links are paired.  While *)
(* a tool puts it together, links may lead to tasks that are gone (Tied).   *)
Parents(g) ==
  /\ \A t \in Task : g.parent[t] \in g.nodes \cup {NoTask}
  /\ \A t \in Task \ g.nodes : g.parent[t] = NoTask
Shaped(g) == Forest(g) /\ Parents(g)
Tied(g) ==
  /\ \A t \in Task \ g.nodes : g.dependencies[t] = {}
  /\ \A t \in Task : \A d \in g.dependencies[t] \cap g.nodes : t \in g.blocks[d]
Within(g) == \A t \in Task : g.dependencies[t] \subseteq g.nodes
Good(g) == Shaped(g) /\ Tied(g) /\ Within(g)

LEMMA FlatGood ==
  ASSUME NEW S \in SUBSET Task
  PROVE  Good(Flat(S))
<1> DEFINE g == Flat(S)
<1>1. /\ g \in List /\ g.nodes = S /\ g.roots = S
      /\ \A t \in Task : /\ g.parent[t] = NoTask /\ g.children[t] = {}
                         /\ g.dependencies[t] = {} /\ g.blocks[t] = {}
  BY FlatFacts
<1> HIDE DEF g
<1>2. Forest(g) /\ Parents(g) /\ Tied(g) /\ Within(g)
  BY <1>1, NoTaskAssumption DEF Forest, Parents, Tied, Within
<1>3. QED
  BY <1>2 DEF g, Good, Shaped

(* What is below a task of a forest is in it, and so are its children.      *)
LEMMA BelowFacts ==
  ASSUME NEW g \in List, Shaped(g), NEW t \in g.nodes
  PROVE  /\ t \in Below(g, t) /\ Below(g, t) \subseteq g.nodes
         /\ \A x \in g.nodes : g.parent[x] \in Below(g, t) => x \in Below(g, t)
<1>1. g.nodes \in SUBSET Task /\ \A q \in Task : g.children[q] = {x \in g.nodes : g.parent[x] = q}
  BY DEF Shaped, Forest, List
<1>2. Closed(g, g.nodes)
  BY <1>1 DEF Closed
<1>3. t \in Below(g, t) /\ Below(g, t) \subseteq g.nodes
  BY <1>1, <1>2 DEF Below
<1>4. ASSUME NEW x \in g.nodes, g.parent[x] \in Below(g, t)
      PROVE  x \in Below(g, t)
  <2>1. SUFFICES ASSUME NEW S \in SUBSET Task, t \in S, Closed(g, S)
                 PROVE  x \in S
    BY <1>1 DEF Below
  <2>2. g.parent[x] \in S /\ g.parent[x] \in Task
    BY <1>4, <2>1 DEF Below
  <2>3. QED
    BY <1>1, <2>1, <2>2 DEF Closed
<1>5. QED
  BY <1>3, <1>4

LEMMA MoveGood ==
  ASSUME NEW g \in List, Good(g), NEW t \in g.nodes, NEW p \in Place, MayMove(g, t, p)
  PROVE  Good(MoveTask(g, t, p))
<1> DEFINE m == MoveTask(g, t, p)
<1>0. t \in Task /\ g.nodes \in SUBSET Task /\ p \in g.nodes \cup {NoTask}
  BY DEF List, MayMove, Place
<1>1. /\ m \in List /\ m.nodes = g.nodes
      /\ m.roots = IF p = NoTask THEN g.roots \cup {t} ELSE g.roots \ {t}
      /\ m.parent[t] = p /\ \A q \in Task \ {t} : m.parent[q] = g.parent[q]
      /\ \A q \in Task : m.children[q] = IF q = p THEN g.children[q] \cup {t}
                                                    ELSE g.children[q] \ {t}
      /\ m.dependencies = g.dependencies /\ m.blocks = g.blocks
  <2> DEFINE P == [g.parent EXCEPT ![t] = p]
             R == IF p = NoTask THEN g.roots \cup {t} ELSE g.roots \ {t}
             C == [q \in Task |-> IF q = p THEN g.children[q] \cup {t}
                                          ELSE g.children[q] \ {t}]
  <2>1. m = [g EXCEPT !.parent = P, !.roots = R, !.children = C]
    BY DEF m, MoveTask, List
  <2>2. /\ P \in [Task -> Place] /\ P[t] = p
        /\ \A q \in Task \ {t} : P[q] = g.parent[q]
    BY <1>0 DEF List, Place
  <2>3. R \in SUBSET Task
    BY <1>0 DEF List
  <2>4. C \in [Task -> SUBSET Task]
    BY <1>0 DEF List
  <2>5. \A q \in Task : C[q] = IF q = p THEN g.children[q] \cup {t} ELSE g.children[q] \ {t}
    OBVIOUS
  <2>6. R = IF p = NoTask THEN g.roots \cup {t} ELSE g.roots \ {t}
    OBVIOUS
  <2> HIDE DEF P, R, C
  <2>7. /\ m \in List /\ m.nodes = g.nodes /\ m.roots = R /\ m.parent = P /\ m.children = C
        /\ m.dependencies = g.dependencies /\ m.blocks = g.blocks
    BY <2>1, <2>2, <2>3, <2>4 DEF List, Place
  <2>8. QED
    BY <2>2, <2>5, <2>6, <2>7
<1> HIDE DEF m
<1>2. /\ m.parent[t] = p
      /\ \A x \in Task \ {t} : m.parent[x] = g.parent[x]
  BY <1>1
<1>3. m.roots = {x \in m.nodes : m.parent[x] = NoTask}
  BY <1>0, <1>1, <1>2, NoTaskAssumption DEF Good, Shaped, Forest
<1>4. \A q \in Task : m.children[q] = {x \in m.nodes : m.parent[x] = q}
  <2> TAKE q \in Task
  <2>1. g.children[q] = {x \in g.nodes : g.parent[x] = q}
    BY DEF Good, Shaped, Forest
  <2>2. CASE q = p
    <3>1. m.children[q] = g.children[q] \cup {t}
      BY <1>1, <2>2
    <3>2. QED
      BY <1>0, <1>1, <1>2, <2>1, <2>2, <3>1
  <2>3. CASE q # p
    <3>1. m.children[q] = g.children[q] \ {t}
      BY <1>1, <2>3
    <3>2. QED
      BY <1>0, <1>1, <1>2, <2>1, <2>3, <3>1
  <2>4. QED
    BY <2>2, <2>3
<1>5. ASSUME NEW S \in SUBSET m.nodes, S # {}
      PROVE  \E x \in S : m.parent[x] \notin S
  <2>1. CASE t \notin S
    <3>1. PICK x \in S : g.parent[x] \notin S
      BY <1>1, <1>5 DEF Good, Shaped, Forest
    <3>2. QED
      BY <1>0, <1>1, <1>2, <2>1, <3>1
  <2>2. CASE t \in S /\ p \notin S
    BY <1>2, <2>2
  <2>3. CASE t \in S /\ p \in S
    <3>1. p \in g.nodes /\ p \notin Below(g, t)
      BY <1>0, <1>1, <2>3, NoTaskAssumption DEF MayMove
    <3> DEFINE T == S \ Below(g, t)
    <3>2. T \in SUBSET g.nodes /\ T # {}
      BY <1>1, <2>3, <3>1
    <3>3. PICK x \in T : g.parent[x] \notin T
      BY <3>2 DEF Good, Shaped, Forest
    <3>4. x \in g.nodes /\ x # t /\ g.parent[x] \notin Below(g, t)
      BY <3>2, <3>3, BelowFacts DEF Good
    <3>5. QED
      BY <1>0, <1>2, <3>3, <3>4
  <2>4. QED
    BY <2>1, <2>2, <2>3
<1>6. Parents(m)
  BY <1>0, <1>1, <1>2 DEF Parents, Good, Shaped
<1>7. Forest(m)
  BY <1>3, <1>4, <1>5, <1>6, <1>0, <1>1 DEF Forest, Parents
<1>8. Tied(m) /\ Within(m)
  BY <1>1 DEF Good, Tied, Within
<1>9. QED
  BY <1>6, <1>7, <1>8 DEF Good, Shaped, m

LEMMA AddGood ==
  ASSUME NEW g \in List, Good(g), NEW t \in Task \ g.nodes, NEW p \in g.nodes \cup {NoTask}
  PROVE  /\ Good(AddTask(g, t, p)) /\ AddTask(g, t, p) \in List
         /\ AddTask(g, t, p).nodes = g.nodes \cup {t}
<1> DEFINE m == AddTask(g, t, p)
<1>0. t \in Task /\ g.nodes \in SUBSET Task /\ p \in Place /\ p # t
  BY NoTaskAssumption DEF List, Place
<1>1. /\ m \in List /\ m.nodes = g.nodes \cup {t}
      /\ m.roots = IF p = NoTask THEN g.roots \cup {t} ELSE g.roots \ {t}
      /\ m.parent[t] = p /\ \A q \in Task \ {t} : m.parent[q] = g.parent[q]
      /\ \A q \in Task : m.children[q] = IF q = p THEN g.children[q] \cup {t}
                                                    ELSE g.children[q] \ {t}
      /\ m.dependencies = g.dependencies /\ m.blocks = g.blocks
  <2>1. t \in Task /\ p \in Place
    BY <1>0
  <2> DEFINE n == [g EXCEPT !.nodes = @ \cup {t}]
  <2>2. /\ n \in List /\ n.nodes = g.nodes \cup {t} /\ n.roots = g.roots
        /\ n.parent = g.parent /\ n.children = g.children
        /\ n.dependencies = g.dependencies /\ n.blocks = g.blocks
    BY <2>1 DEF List
  <2> HIDE DEF n
  <2>3. m = MoveTask(n, t, p)
    BY DEF m, AddTask, n
  <2> HIDE DEF m
  <2>4. /\ m \in List /\ m.nodes = n.nodes
        /\ m.roots = IF p = NoTask THEN n.roots \cup {t} ELSE n.roots \ {t}
        /\ m.parent[t] = p /\ \A q \in Task \ {t} : m.parent[q] = n.parent[q]
        /\ \A q \in Task : m.children[q] = IF q = p THEN n.children[q] \cup {t}
                                                      ELSE n.children[q] \ {t}
        /\ m.dependencies = n.dependencies /\ m.blocks = n.blocks
    BY <2>1, <2>2, <2>3 DEF MoveTask, List, Place
  <2>5. QED
    BY <2>2, <2>4
<1> HIDE DEF m
<1>2. /\ m.parent[t] = p
      /\ \A x \in Task \ {t} : m.parent[x] = g.parent[x]
  BY <1>1
<1>3. m.roots = {x \in m.nodes : m.parent[x] = NoTask}
  BY <1>0, <1>1, <1>2, NoTaskAssumption DEF Good, Shaped, Forest
<1>4. \A q \in Task : m.children[q] = {x \in m.nodes : m.parent[x] = q}
  <2> TAKE q \in Task
  <2>1. g.children[q] = {x \in g.nodes : g.parent[x] = q}
    BY DEF Good, Shaped, Forest
  <2>2. CASE q = p
    <3>1. m.children[q] = g.children[q] \cup {t}
      BY <1>1, <2>2
    <3>2. QED
      BY <1>0, <1>1, <1>2, <2>1, <2>2, <3>1
  <2>3. CASE q # p
    <3>1. m.children[q] = g.children[q] \ {t}
      BY <1>1, <2>3
    <3>2. QED
      BY <1>0, <1>1, <1>2, <2>1, <2>3, <3>1
  <2>4. QED
    BY <2>2, <2>3
<1>5. ASSUME NEW S \in SUBSET m.nodes, S # {}
      PROVE  \E x \in S : m.parent[x] \notin S
  <2>1. CASE S = {t}
    BY <1>0, <1>2, <2>1
  <2>2. CASE S # {t}
    <3> DEFINE T == S \ {t}
    <3>1. T \in SUBSET g.nodes /\ T # {}
      BY <1>1, <1>5, <2>2
    <3>2. PICK x \in T : g.parent[x] \notin T
      BY <3>1 DEF Good, Shaped, Forest
    <3>3. x \in g.nodes /\ x # t /\ g.parent[x] # t
      BY <1>0, <3>1, <3>2, NoTaskAssumption DEF Good, Shaped, Forest
    <3>4. QED
      BY <1>0, <1>2, <3>2, <3>3
  <2>3. QED
    BY <2>1, <2>2
<1>6. Parents(m)
  BY <1>0, <1>1, <1>2 DEF Parents, Good, Shaped
<1>7. Forest(m)
  BY <1>3, <1>4, <1>5, <1>6, <1>0, <1>1 DEF Forest, Parents
<1>8. Tied(m) /\ Within(m)
  BY <1>0, <1>1 DEF Good, Tied, Within
<1>9. QED
  BY <1>1, <1>6, <1>7, <1>8 DEF Good, Shaped, m

LEMMA DeleteGood ==
  ASSUME NEW g \in List, Good(g), NEW t \in g.nodes
  PROVE  /\ DeleteTask(g, t) \in List /\ Good(DeleteTask(g, t))
         /\ DeleteTask(g, t).nodes = g.nodes \ Below(g, t)
<1> DEFINE m == DeleteTask(g, t)
           D == Below(g, t)
<1>0. D \in SUBSET Task /\ g.nodes \in SUBSET Task
  BY BelowType DEF List
<1>1. /\ m \in List /\ m.nodes = g.nodes \ D /\ m.roots = g.roots \ D
      /\ \A x \in D : /\ m.parent[x] = NoTask /\ m.children[x] = {}
                      /\ m.dependencies[x] = {} /\ m.blocks[x] = {}
      /\ \A x \in Task \ D :
           /\ m.parent[x] = g.parent[x] /\ m.children[x] = g.children[x] \ D
           /\ m.dependencies[x] = g.dependencies[x] \ D
           /\ m.blocks[x] = g.blocks[x]
  BY <1>0 DEF m, DeleteTask, Remove, List
<1>2. \A x \in g.nodes : g.parent[x] \in D => x \in D
  BY BelowFacts DEF Good
<1> HIDE DEF m, D
<1>3. m.roots = {x \in m.nodes : m.parent[x] = NoTask}
  <2>1. g.roots = {x \in g.nodes : g.parent[x] = NoTask}
    BY DEF Good, Shaped, Forest
  <2>2. QED
    BY <1>0, <1>1, <2>1
<1>4. \A q \in Task : m.children[q] = {x \in m.nodes : m.parent[x] = q}
  <2> TAKE q \in Task
  <2>1. g.children[q] = {x \in g.nodes : g.parent[x] = q}
    BY DEF Good, Shaped, Forest
  <2>2. \A x \in m.nodes : x \in g.nodes /\ x \notin D /\ m.parent[x] = g.parent[x]
    BY <1>0, <1>1
  <2>3. CASE q \in D
    BY <1>1, <1>2, <2>2, <2>3
  <2>4. CASE q \notin D
    <3>1. m.children[q] = g.children[q] \ D
      BY <1>1, <2>4
    <3>2. QED
      BY <1>1, <2>1, <2>2, <3>1
  <2>5. QED
    BY <2>3, <2>4
<1>5. ASSUME NEW S \in SUBSET m.nodes, S # {}
      PROVE  \E x \in S : m.parent[x] \notin S
  <2>1. PICK x \in S : g.parent[x] \notin S
    BY <1>1, <1>5 DEF Good, Shaped, Forest
  <2>2. QED
    BY <1>0, <1>1, <2>1
<1>6. Parents(m)
  <2>1. Parents(g)
    BY DEF Good, Shaped
  <2>2. ASSUME NEW x \in Task
        PROVE  m.parent[x] \in m.nodes \cup {NoTask} /\ (x \notin m.nodes => m.parent[x] = NoTask)
    <3>1. CASE x \in D
      BY <1>1, <3>1
    <3>2. CASE x \notin D
      BY <1>1, <1>2, <2>1, <3>2 DEF Parents
    <3>3. QED
      BY <3>1, <3>2
  <2>3. QED
    BY <2>2 DEF Parents
<1>7. Forest(m)
  BY <1>3, <1>4, <1>5, <1>6, <1>0, <1>1 DEF Forest, Parents
<1>8. Tied(m) /\ Within(m)
  <2>1. Tied(g) /\ Within(g)
    BY DEF Good
  <2>2. ASSUME NEW x \in Task
        PROVE  /\ m.dependencies[x] \subseteq m.nodes
               /\ x \notin m.nodes => m.dependencies[x] = {}
               /\ \A d \in m.dependencies[x] : x \in m.blocks[d]
    <3>1. CASE x \in D
      BY <1>1, <3>1
    <3>2. CASE x \notin D
      <4>1. m.dependencies[x] = g.dependencies[x] \ D
        BY <1>1, <3>2
      <4>2. g.dependencies[x] \subseteq g.nodes
        BY <2>1 DEF Within
      <4>3. \A d \in m.dependencies[x] : m.blocks[d] = g.blocks[d] /\ d \in g.nodes
        BY <1>0, <1>1, <4>1, <4>2
      <4>4. \A d \in m.dependencies[x] : x \in m.blocks[d]
        BY <2>1, <4>1, <4>3 DEF Tied
      <4>5. x \notin m.nodes => m.dependencies[x] = {}
        BY <1>1, <2>1, <3>2, <4>1 DEF Tied
      <4>6. QED
        BY <1>1, <4>1, <4>2, <4>4, <4>5
    <3>3. QED
      BY <3>1, <3>2
  <2>3. QED
    BY <2>2 DEF Tied, Within
<1>9. QED
  BY <1>1, <1>6, <1>7, <1>8 DEF Good, Shaped, m, D

LEMMA PlanGood ==
  ASSUME NEW g \in List, Good(g), NEW S \in SUBSET (Task \ g.nodes), NEW h \in S \cup {NoTask}
  PROVE  /\ WithPlan(g, h, S) \in List /\ Good(WithPlan(g, h, S))
         /\ WithPlan(g, h, S).nodes = g.nodes \cup S
<1> DEFINE m == WithPlan(g, h, S)
<1>0. S \in SUBSET Task /\ g.nodes \in SUBSET Task
  BY DEF List
<1>1. /\ m \in List /\ m.nodes = g.nodes \cup S
      /\ m.roots = g.roots \cup (IF h = NoTask THEN S ELSE {h})
      /\ \A t \in Task : m.parent[t] = IF t \in S \ {h} THEN h ELSE g.parent[t]
      /\ \A t \in Task : m.children[t] = IF t = h THEN S \ {h} ELSE g.children[t]
      /\ m.dependencies = g.dependencies /\ m.blocks = g.blocks
  BY <1>0 DEF m, WithPlan, List
<1> HIDE DEF m
<1>2. Parents(g) /\ Forest(g)
  BY DEF Good, Shaped
<1>3. /\ \A x \in g.nodes : x \notin S /\ m.parent[x] = g.parent[x] /\ g.parent[x] \notin S
      /\ \A x \in S \ {h} : m.parent[x] = h
      /\ h # NoTask => h \in S /\ m.parent[h] = NoTask
  BY <1>0, <1>1, <1>2, NoTaskAssumption DEF Parents
<1>4. m.roots = {x \in m.nodes : m.parent[x] = NoTask}
  <2>1. g.roots = {x \in g.nodes : g.parent[x] = NoTask}
    BY <1>2 DEF Forest
  <2>2. CASE h = NoTask
    BY <1>0, <1>1, <1>3, <2>1, <2>2, NoTaskAssumption
  <2>3. CASE h # NoTask
    BY <1>1, <1>3, <2>1, <2>3
  <2>4. QED
    BY <2>2, <2>3
<1>5. \A q \in Task : m.children[q] = {x \in m.nodes : m.parent[x] = q}
  <2> TAKE q \in Task
  <2>1. g.children[q] = {x \in g.nodes : g.parent[x] = q}
    BY <1>2 DEF Forest
  <2>2. CASE q = h
    <3>1. m.children[q] = S \ {h} /\ h \in S /\ h # NoTask
      BY <1>1, <2>2, NoTaskAssumption
    <3>2. QED
      BY <1>1, <1>3, <2>2, <3>1
  <2>3. CASE q # h
    <3>1. m.children[q] = g.children[q] /\ q # NoTask
      BY <1>1, <2>3, NoTaskAssumption
    <3>2. ASSUME NEW x \in S
          PROVE  m.parent[x] # q
      <4>1. m.parent[x] = h \/ m.parent[x] = NoTask
        BY <1>0, <1>3, NoTaskAssumption
      <4>2. QED
        BY <2>3, <3>1, <4>1
    <3>3. QED
      BY <1>1, <1>3, <2>1, <3>1, <3>2
  <2>4. QED
    BY <2>2, <2>3
<1>6. ASSUME NEW T \in SUBSET m.nodes, T # {}
      PROVE  \E x \in T : m.parent[x] \notin T
  <2>1. NoTask \notin T
    BY <1>0, <1>1, <1>6, NoTaskAssumption
  <2>2. CASE T \cap g.nodes # {}
    <3>1. PICK x \in T \cap g.nodes : g.parent[x] \notin T \cap g.nodes
      BY <1>2, <2>2 DEF Forest
    <3>2. g.parent[x] \notin T
      BY <1>0, <1>2, <2>1, <3>1 DEF Parents
    <3>3. QED
      BY <1>3, <3>1, <3>2
  <2>3. CASE T \cap g.nodes = {} /\ h \in T
    BY <1>3, <2>1, <2>3
  <2>4. CASE T \cap g.nodes = {} /\ h \notin T
    <3>1. T \subseteq S \ {h}
      BY <1>1, <1>6, <2>4
    <3>2. QED
      BY <1>3, <1>6, <2>4, <3>1
  <2>5. QED
    BY <2>2, <2>3, <2>4
<1>7. Parents(m)
  BY <1>0, <1>1, <1>2, <1>3 DEF Parents
<1>8. Forest(m)
  BY <1>4, <1>5, <1>6, <1>7, <1>0, <1>1 DEF Forest, Parents
<1>9. Tied(m) /\ Within(m)
  <2>1. Tied(g) /\ Within(g)
    BY DEF Good
  <2>2. QED
    BY <1>1, <2>1 DEF Tied, Within
<1>10. QED
  BY <1>1, <1>7, <1>8, <1>9 DEF Good, Shaped, m

(* Saving and loading clean the links and leave a good list as it is.       *)
LEMMA RepairShaped ==
  ASSUME NEW g \in List, Shaped(g)
  PROVE  LET m == Repair(g) IN
         /\ m \in List /\ m.nodes = g.nodes /\ m.roots = g.roots
         /\ m.parent = g.parent /\ m.children = g.children /\ m.blocks = g.blocks
         /\ m.dependencies = [t \in Task |-> g.dependencies[t] \cap g.nodes]
<1>1. Parents(g) /\ Forest(g)
  BY DEF Shaped
<1>2. RepairedParent(g) = g.parent
  BY <1>1 DEF RepairedParent, Parents, List
<1>3. RepairedChildren(g) = g.children
  <2>1. \A p \in Task : (g.children[p] \cap g.nodes) \cup {t \in g.nodes : g.parent[t] = p}
                          = g.children[p]
    BY <1>1 DEF Forest
  <2>2. QED
    BY <1>2, <2>1 DEF RepairedChildren, List
<1>4. RepairedRoots(g) = g.roots
  <2>1. g.roots = {t \in g.nodes : g.parent[t] = NoTask}
    BY <1>1 DEF Forest
  <2>2. ASSUME NEW t \in g.nodes, g.parent[t] = NoTask, NEW p \in g.nodes
        PROVE  t \notin g.children[p]
    BY <1>1, <2>2, NoTaskAssumption DEF Forest, List
  <2>3. QED
    BY <1>2, <1>3, <2>1, <2>2 DEF RepairedRoots
<1>5. QED
  BY <1>2, <1>3, <1>4, RepairFacts

LEMMA RepairMakesGood ==
  ASSUME NEW g \in List, Shaped(g), Tied(g)
  PROVE  Good(Repair(g)) /\ Repair(g) \in List /\ Repair(g).nodes = g.nodes
<1> DEFINE m == Repair(g)
<1>1. /\ m \in List /\ m.nodes = g.nodes /\ m.roots = g.roots
      /\ m.parent = g.parent /\ m.children = g.children /\ m.blocks = g.blocks
      /\ m.dependencies = [t \in Task |-> g.dependencies[t] \cap g.nodes]
  BY RepairShaped
<1> HIDE DEF m
<1>2. Shaped(m)
  BY <1>1 DEF Shaped, Forest, Parents
<1>3. \A t \in Task : m.dependencies[t] = g.dependencies[t] \cap g.nodes
  BY <1>1
<1>4. Tied(m) /\ Within(m)
  BY <1>1, <1>3 DEF Tied, Within
<1>5. QED
  BY <1>1, <1>2, <1>4 DEF m, Good

LEMMA RepairKeepsGood ==
  ASSUME NEW g \in List, Good(g)
  PROVE  Repair(g) = g
<1> DEFINE m == Repair(g)
<1>1. /\ m \in List /\ m.nodes = g.nodes /\ m.roots = g.roots
      /\ m.parent = g.parent /\ m.children = g.children /\ m.blocks = g.blocks
      /\ m.dependencies = [t \in Task |-> g.dependencies[t] \cap g.nodes]
  BY RepairShaped DEF Good
<1>2. [t \in Task |-> g.dependencies[t] \cap g.nodes] = g.dependencies
  BY DEF Good, Within, List
<1> HIDE DEF m
<1>3. m = g
  <2>1. g = [nodes |-> g.nodes, roots |-> g.roots, parent |-> g.parent,
             children |-> g.children, dependencies |-> g.dependencies, blocks |-> g.blocks]
    BY DEF List
  <2>2. m = [nodes |-> m.nodes, roots |-> m.roots, parent |-> m.parent,
             children |-> m.children, dependencies |-> m.dependencies, blocks |-> m.blocks]
    BY <1>1 DEF List
  <2>3. QED
    BY <1>1, <1>2, <2>1, <2>2
<1>4. QED
  BY <1>3 DEF m

(* The changes of TaskUpdate keep the forest and the pairs of links.        *)
LEMMA BlocksTied ==
  ASSUME NEW g \in List, Shaped(g), Tied(g), NEW t \in g.nodes, NEW S \in SUBSET Task
  PROVE  /\ Blocks(g, t, S) \in List /\ Blocks(g, t, S).nodes = g.nodes
         /\ Shaped(Blocks(g, t, S)) /\ Tied(Blocks(g, t, S))
<1> DEFINE m == Blocks(g, t, S)
<1>0. t \in Task
  BY DEF List
<1>1. /\ m \in List /\ m.nodes = g.nodes /\ m.roots = g.roots
      /\ m.parent = g.parent /\ m.children = g.children
      /\ \A d \in Task : m.blocks[d] = IF d = t THEN g.blocks[d] \cup S ELSE g.blocks[d]
      /\ \A d \in Task :
           m.dependencies[d] = IF d \in (S \ g.blocks[t]) \cap g.nodes
                               THEN g.dependencies[d] \cup {t} ELSE g.dependencies[d]
  BY <1>0 DEF m, Blocks, List
<1> HIDE DEF m
<1>2. Shaped(m)
  BY <1>1 DEF Shaped, Forest, Parents
<1>3. \A x \in Task \ m.nodes : m.dependencies[x] = {}
  BY <1>1 DEF Tied
<1>4. ASSUME NEW x \in Task, NEW d \in m.dependencies[x] \cap m.nodes
      PROVE  x \in m.blocks[d]
  <2>0. d \in Task /\ d \in g.nodes
    BY <1>1 DEF List
  <2>1. CASE d \in g.dependencies[x]
    <3>1. x \in g.blocks[d]
      BY <2>0, <2>1 DEF Tied
    <3>2. g.blocks[d] \subseteq m.blocks[d]
      BY <1>1, <2>0
    <3>3. QED
      BY <3>1, <3>2
  <2>2. CASE d \notin g.dependencies[x]
    <3>1. d = t /\ x \in S
      BY <1>1, <2>2
    <3>2. QED
      BY <1>0, <1>1, <3>1
  <2>3. QED
    BY <2>1, <2>2
<1>5. QED
  BY <1>1, <1>2, <1>3, <1>4 DEF Tied, m

LEMMA BlockedByTied ==
  ASSUME NEW g \in List, Shaped(g), Tied(g), NEW t \in g.nodes, NEW S \in SUBSET Task
  PROVE  /\ BlockedBy(g, t, S) \in List /\ BlockedBy(g, t, S).nodes = g.nodes
         /\ Shaped(BlockedBy(g, t, S)) /\ Tied(BlockedBy(g, t, S))
<1> DEFINE m == BlockedBy(g, t, S)
<1>0. t \in Task
  BY DEF List
<1>1. /\ m \in List /\ m.nodes = g.nodes /\ m.roots = g.roots
      /\ m.parent = g.parent /\ m.children = g.children
      /\ \A d \in Task : m.dependencies[d] = IF d = t THEN g.dependencies[d] \cup S
                                                      ELSE g.dependencies[d]
      /\ \A d \in Task : m.blocks[d] = IF d \in (S \ g.dependencies[t]) \cap g.nodes
                                       THEN g.blocks[d] \cup {t} ELSE g.blocks[d]
  BY <1>0 DEF m, BlockedBy, List
<1> HIDE DEF m
<1>2. Shaped(m)
  BY <1>1 DEF Shaped, Forest, Parents
<1>3. \A x \in Task \ m.nodes : m.dependencies[x] = {}
  BY <1>1 DEF Tied
<1>4. ASSUME NEW x \in Task, NEW d \in m.dependencies[x] \cap m.nodes
      PROVE  x \in m.blocks[d]
  <2>0. d \in Task /\ d \in g.nodes
    BY <1>1 DEF List
  <2>1. CASE d \in g.dependencies[x]
    <3>1. x \in g.blocks[d]
      BY <2>0, <2>1 DEF Tied
    <3>2. g.blocks[d] \subseteq m.blocks[d]
      BY <1>1, <2>0
    <3>3. QED
      BY <3>1, <3>2
  <2>2. CASE d \notin g.dependencies[x]
    <3>1. x = t /\ d \in S
      BY <1>1, <2>2
    <3>2. QED
      BY <1>1, <2>0, <2>2, <3>1
  <2>3. QED
    BY <2>1, <2>2
<1>5. QED
  BY <1>1, <1>2, <1>3, <1>4 DEF Tied, m

LEMMA CompleteTied ==
  ASSUME NEW g \in List, Shaped(g), Tied(g), NEW t \in g.nodes
  PROVE  /\ Complete(g, t) \in List /\ Complete(g, t).nodes = g.nodes
         /\ Shaped(Complete(g, t)) /\ Tied(Complete(g, t))
<1> DEFINE m == Complete(g, t)
<1>0. t \in Task
  BY DEF List
<1>1. /\ m \in List /\ m.nodes = g.nodes /\ m.roots = g.roots
      /\ m.parent = g.parent /\ m.children = g.children /\ m.blocks = g.blocks
      /\ \A d \in Task : m.dependencies[d] \subseteq g.dependencies[d]
  BY <1>0 DEF m, Complete, List
<1> HIDE DEF m
<1>2. Shaped(m)
  BY <1>1 DEF Shaped, Forest, Parents
<1>3. Tied(m)
  BY <1>1 DEF Tied
<1>4. QED
  BY <1>1, <1>2, <1>3 DEF m

Updated(g, t, S, R, completed) ==
  LET u == BlockedBy(Blocks(g, t, S), t, R) IN IF completed THEN Complete(u, t) ELSE u

LEMMA UpdateTied ==
  ASSUME NEW g \in List, Good(g), NEW t \in g.nodes,
         NEW S \in SUBSET Task, NEW R \in SUBSET Task, NEW completed \in BOOLEAN
  PROVE  /\ Updated(g, t, S, R, completed) \in List
         /\ Updated(g, t, S, R, completed).nodes = g.nodes
         /\ Shaped(Updated(g, t, S, R, completed)) /\ Tied(Updated(g, t, S, R, completed))
<1> DEFINE b == Blocks(g, t, S)
           u == BlockedBy(b, t, R)
<1>1. b \in List /\ b.nodes = g.nodes /\ Shaped(b) /\ Tied(b)
  BY BlocksTied DEF Good
<1> HIDE DEF b
<1>2. u \in List /\ u.nodes = g.nodes /\ Shaped(u) /\ Tied(u)
  BY <1>1, BlockedByTied
<1> HIDE DEF u
<1>3. /\ Complete(u, t) \in List /\ Complete(u, t).nodes = g.nodes
      /\ Shaped(Complete(u, t)) /\ Tied(Complete(u, t))
  BY <1>2, CompleteTied
<1>4. Updated(g, t, S, R, completed) = IF completed THEN Complete(u, t) ELSE u
  BY DEF Updated, u, b
<1>5. QED
  <2>1. CASE completed
    BY <1>3, <1>4, <2>1
  <2>2. CASE ~completed
    BY <1>2, <1>4, <2>2
  <2>3. QED
    BY <2>1, <2>2
-----------------------------------------------------------------------------
(* The lists held by the panel, the file and the calls are good, and their  *)
(* tasks have drawn their ids.                                               *)
Fits(g, ids) == Good(g) /\ g.nodes \subseteq ids
Sound ==
  /\ Fits(panel, used) /\ Fits(text, used)
  /\ \A c \in Call : Fits(list[c], used)

LEMMA FitsMore ==
  ASSUME NEW g, NEW ids, NEW more, Fits(g, ids), ids \subseteq more
  PROVE  Fits(g, more)
  BY DEF Fits

LEMMA EmptyFits ==
  ASSUME NEW ids
  PROVE  Flat({}) \in List /\ Fits(Flat({}), ids)
<1>1. Flat({}) \in List /\ Flat({}).nodes = {} /\ Good(Flat({}))
  BY FlatFacts, FlatGood
<1>2. QED
  BY <1>1 DEF Fits

LEMMA InitSound == Init => TypeOK /\ Sound
<1> SUFFICES ASSUME Init PROVE TypeOK /\ Sound
  OBVIOUS
<1>1. PICK h \in Start \cup {NoTask} : panel = WithPlan(Flat({}), h, Start)
  BY DEF Init
<1>2. Flat({}) \in List /\ Flat({}).nodes = {} /\ Good(Flat({}))
  BY FlatFacts, FlatGood
<1>3. Start \in SUBSET (Task \ Flat({}).nodes)
  BY <1>2, StartAssumption
<1>4. panel \in List /\ Good(panel) /\ panel.nodes = Start
  <2> DEFINE g == Flat({})
             p == WithPlan(g, h, Start)
  <2>1. g \in List /\ g.nodes = {} /\ Good(g) /\ Start \in SUBSET (Task \ g.nodes)
    BY <1>2, <1>3
  <2> HIDE DEF g
  <2>2. p \in List /\ Good(p) /\ p.nodes = g.nodes \cup Start
    BY <2>1, PlanGood
  <2> HIDE DEF p
  <2>3. panel = p
    BY <1>1 DEF p, g
  <2>4. QED
    BY <2>1, <2>2, <2>3
<1>5. text = panel /\ used = Start /\ list = [c \in Call |-> Flat({})]
  BY DEF Init
<1>6. Sound
  BY <1>4, <1>5, EmptyFits DEF Sound, Fits
<1>7. panel \in List /\ text \in List /\ list \in [Call -> List]
  BY <1>2, <1>4, <1>5
<1>8. TypeOK
  <2>1. ui = "idle" /\ editing = FALSE /\ state = "whole" /\ missed = FALSE /\ overtaken = FALSE
    BY DEF Init
  <2>2. time \in Nat /\ seen \in Nat /\ saved \in Nat /\ results \in Nat /\ keys \in 0..MaxKeys
    BY BoundsAssumption DEF Init
  <2>3. pc \in [Call -> {"idle", "loaded", "todo", "change", "done"}]
    BY DEF Init
  <2>4. used \in SUBSET Task /\ surprised \in SUBSET Task
    BY StartAssumption DEF Init
  <2>5. read \in [Writer -> Nat] /\ own \in [Writer -> SUBSET Task]
    BY DEF Init
  <2>6. QED
    BY <1>7, <2>1, <2>2, <2>3, <2>4, <2>5 DEF TypeOK
<1>9. QED
  BY <1>6, <1>8

(* The steps of a call, of the panel and of a reload, as far as types and   *)
(* lists go.                                                                 *)
LEMMA ChangeStep ==
  ASSUME TypeOK, Sound, NEW c \in Call, NEW kind \in {"todo", "change"},
         NEW g \in List, Shaped(g), Tied(g), NEW change \in SUBSET Task,
         Change(c, kind, g, change),
         used \subseteq used', used' \in SUBSET Task, g.nodes \subseteq used',
         read' \in [Writer -> Nat]
  PROVE  TypeOK' /\ Sound'
<1>1. Repair(g) \in List /\ Fits(Repair(g), used')
  BY RepairMakesGood DEF Fits
<1>2. /\ list' = [list EXCEPT ![c] = Repair(g)]
      /\ pc' = [pc EXCEPT ![c] = kind] /\ own' = [own EXCEPT ![c] = change]
      /\ state' = "torn" /\ time' = time + 1 /\ missed' = (missed \/ ui = "noting")
      /\ UNCHANGED <<panel, text, saved, ui, editing, seen, keys, results, overtaken, surprised>>
  BY DEF Change, Truncate, Disturb, user, fate
<1>3. /\ list' \in [Call -> List] /\ list'[c] = Repair(g)
      /\ \A d \in Call \ {c} : list'[d] = list[d]
  BY <1>1, <1>2 DEF TypeOK
<1>4. Sound'
  <2>1. Fits(panel, used') /\ Fits(text, used')
    BY FitsMore DEF Sound
  <2>2. \A d \in Call : Fits(list'[d], used')
    BY <1>1, <1>3, FitsMore DEF Sound
  <2>3. QED
    BY <1>2, <2>1, <2>2 DEF Sound
<1>5. /\ pc' \in [Call -> {"idle", "loaded", "todo", "change", "done"}]
      /\ own' \in [Writer -> SUBSET Task] /\ time' \in Nat
  <2>1. pc' \in [Call -> {"idle", "loaded", "todo", "change", "done"}]
    BY <1>2 DEF TypeOK
  <2>2. own' \in [Writer -> SUBSET Task]
    BY <1>2 DEF TypeOK
  <2>3. time' \in Nat
    BY <1>2 DEF TypeOK
  <2>4. QED
    BY <2>1, <2>2, <2>3
<1>6. missed' \in BOOLEAN
  BY <1>2 DEF TypeOK
<1>7. QED
  BY <1>2, <1>3, <1>4, <1>5, <1>6 DEF TypeOK

LEMMA ChangePanelStep ==
  ASSUME TypeOK, Sound, NEW g \in List, Good(g), NEW change \in SUBSET Task,
         ChangePanel(g, change),
         used \subseteq used', used' \in SUBSET Task, g.nodes \subseteq used',
         editing' \in BOOLEAN
  PROVE  TypeOK' /\ Sound'
<1>1. /\ panel' = g /\ ui' = "writing" /\ keys < MaxKeys /\ keys' = keys + 1
      /\ own' = [own EXCEPT ![Panel] = change] /\ state' = "torn" /\ time' = time + 1
      /\ UNCHANGED <<text, saved, seen, pc, list, results, read, missed, overtaken, surprised>>
  BY DEF ChangePanel, Truncate, calls, fate
<1>2. Sound'
  <2>1. Fits(g, used') /\ Fits(text, used') /\ \A c \in Call : Fits(list[c], used')
    BY FitsMore DEF Sound, Fits
  <2>2. QED
    BY <1>1, <2>1 DEF Sound
<1>3. own' \in [Writer -> SUBSET Task] /\ time' \in Nat
  <2>1. own' \in [Writer -> SUBSET Task]
    BY <1>1 DEF TypeOK
  <2>2. time' \in Nat
    BY <1>1 DEF TypeOK
  <2>3. QED
    BY <2>1, <2>2
<1>4. keys' \in 0..MaxKeys
  BY <1>1, BoundsAssumption DEF TypeOK
<1>5. QED
  BY <1>1, <1>2, <1>3, <1>4 DEF TypeOK

LEMMA ReloadStep ==
  ASSUME TypeOK, Sound, Reload
  PROVE  /\ panel' \in List /\ ui' \in {"idle", "writing", "noting"} /\ missed' \in BOOLEAN
         /\ read' \in [Writer -> Nat] /\ own' \in [Writer -> SUBSET Task]
         /\ Fits(panel', used)
         /\ IF state = "whole"
            THEN /\ panel' = text /\ ui' = "noting"
                 /\ read' = [read EXCEPT ![Panel] = saved] /\ own' = [own EXCEPT ![Panel] = {}]
            ELSE UNCHANGED <<panel, ui, missed, read, own>>
<1>1. Repair(text) = text
  BY RepairKeepsGood DEF TypeOK, Sound, Fits
<1>2. CASE state = "whole"
  <2>1. panel' = text /\ ui' = "noting" /\ missed' = FALSE
    BY <1>1, <1>2 DEF Reload
  <2>2. read' = [read EXCEPT ![Panel] = saved] /\ own' = [own EXCEPT ![Panel] = {}]
    BY <1>2 DEF Reload
  <2>3. read' \in [Writer -> Nat] /\ own' \in [Writer -> SUBSET Task]
    BY <2>2 DEF TypeOK
  <2>4. panel' \in List /\ Fits(panel', used)
    BY <2>1 DEF TypeOK, Sound
  <2>5. QED
    BY <1>2, <2>1, <2>2, <2>3, <2>4
<1>3. CASE state # "whole"
  <2>1. UNCHANGED <<panel, ui, missed, read, own>>
    BY <1>3 DEF Reload
  <2>2. QED
    BY <1>3, <2>1 DEF TypeOK, Sound
<1>4. QED
  BY <1>2, <1>3

LEMMA WriteStep ==
  ASSUME TypeOK, NEW w \in Writer, NEW g \in List, Write(w, g)
  PROVE  /\ state' \in {"whole", "torn", "broken"} /\ text' = g /\ time' = time + 1
         /\ time' \in Nat /\ saved' = time' /\ saved' \in Nat
         /\ overtaken' \in BOOLEAN /\ surprised' \in SUBSET Task
<1>1. /\ text' = g /\ time' = time + 1 /\ saved' = time'
      /\ state' \in (IF state = "torn" THEN {"whole"} ELSE {"whole", "broken"})
  BY DEF Write
<1>2. time' \in Nat
  BY <1>1 DEF TypeOK
<1>3. overtaken' \in BOOLEAN
  BY DEF Write
<1>4. surprised' \in SUBSET Task
  BY DEF Write, TypeOK, List
<1>5. QED
  BY <1>1, <1>2, <1>3, <1>4

LEMMA LoadStep ==
  ASSUME TypeOK, Sound, NEW c \in Call, Load(c)
  PROVE  TypeOK' /\ Sound'
<1>1. Repair(text) = text
  BY RepairKeepsGood DEF TypeOK, Sound, Fits
<1>2. /\ pc' = [pc EXCEPT ![c] = "loaded"]
      /\ list' = [list EXCEPT ![c] = IF state = "whole" THEN text ELSE Flat({})]
      /\ read' = [read EXCEPT ![c] = IF state = "whole" THEN saved ELSE Unread]
      /\ UNCHANGED <<file, user, results, used, missed, own, fate>>
  BY <1>1 DEF Load
<1>3. /\ list' \in [Call -> List] /\ list'[c] \in {text, Flat({})}
      /\ \A d \in Call \ {c} : list'[d] = list[d]
  BY <1>2, EmptyFits DEF TypeOK
<1>4. Sound'
  <2>1. \A d \in Call : Fits(list'[d], used)
    BY <1>3, EmptyFits DEF Sound
  <2>2. QED
    BY <1>2, <2>1 DEF Sound, file, user
<1>5. pc' \in [Call -> {"idle", "loaded", "todo", "change", "done"}]
  BY <1>2 DEF TypeOK
<1>6. read' \in [Writer -> Nat]
  BY <1>2 DEF TypeOK, Unread
<1>7. QED
  BY <1>2, <1>3, <1>4, <1>5, <1>6 DEF TypeOK, file, user, fate

LEMMA TodoWriteStep ==
  ASSUME TypeOK, Sound, NEW c \in Call, TodoWrite(c)
  PROVE  TypeOK' /\ Sound'
<1>1. PICK S \in SUBSET (Task \ used) :
        /\ Change(c, "todo", Flat(S), Task)
        /\ used' = used \cup S
        /\ read' = [read EXCEPT ![c] = saved]
  BY DEF TodoWrite
<1>2. S \in SUBSET Task /\ used' \in SUBSET Task /\ used \subseteq used'
  BY <1>1 DEF TypeOK
<1>3. Flat(S) \in List /\ Flat(S).nodes = S /\ Good(Flat(S))
  BY <1>2, FlatFacts, FlatGood
<1>4. Flat(S).nodes \subseteq used' /\ Shaped(Flat(S)) /\ Tied(Flat(S))
  BY <1>1, <1>3 DEF Good
<1>5. read' \in [Writer -> Nat]
  BY <1>1 DEF TypeOK
<1>6. PICK kind \in {"todo", "change"} : kind = "todo"
  OBVIOUS
<1>7. PICK change \in SUBSET Task : change = Task
  OBVIOUS
<1>8. Change(c, kind, Flat(S), change)
  BY <1>1, <1>6, <1>7
<1>9. QED
  BY <1>2, <1>3, <1>4, <1>5, <1>6, <1>7, <1>8, ChangeStep

LEMMA TaskUpdateStep ==
  ASSUME TypeOK, Sound, NEW c \in Call, TaskUpdate(c)
  PROVE  TypeOK' /\ Sound'
<1>1. PICK t \in list[c].nodes, S \in Few, R \in Few, completed \in BOOLEAN :
        Change(c, "change", Updated(list[c], t, S, R, completed), {})
  BY DEF TaskUpdate, Updated
<1>2. UNCHANGED <<used, read>>
  BY DEF TaskUpdate
<1> DEFINE g == Updated(list[c], t, S, R, completed)
<1>3. S \in SUBSET Task /\ R \in SUBSET Task
  BY DEF Few, TypeOK
<1>4. list[c] \in List /\ Good(list[c]) /\ list[c].nodes \subseteq used
  BY DEF TypeOK, Sound, Fits
<1>5. g \in List /\ g.nodes = list[c].nodes /\ Shaped(g) /\ Tied(g)
  BY <1>3, <1>4, UpdateTied
<1>6. Change(c, "change", g, {})
  BY <1>1
<1> HIDE DEF g
<1>7. PICK kind \in {"todo", "change"} : kind = "change"
  OBVIOUS
<1>8. PICK change \in SUBSET Task : change = {}
  OBVIOUS
<1>9. Change(c, kind, g, change)
  BY <1>6, <1>7, <1>8
<1>10. /\ used \subseteq used' /\ used' \in SUBSET Task /\ g.nodes \subseteq used'
       /\ read' \in [Writer -> Nat]
  BY <1>2, <1>4, <1>5 DEF TypeOK
<1>11. QED
  BY <1>5, <1>7, <1>8, <1>9, <1>10, ChangeStep

LEMMA SeedPlanStep ==
  ASSUME TypeOK, Sound, NEW c \in Call, SeedPlan(c)
  PROVE  TypeOK' /\ Sound'
<1>0. PICK S \in SUBSET (Task \ used) :
        /\ \E h \in S \cup {NoTask} : Change(c, "change", WithPlan(list[c], h, S), S)
        /\ used' = used \cup S
        /\ UNCHANGED read
  BY DEF SeedPlan
<1>1. PICK h \in S \cup {NoTask} : Change(c, "change", WithPlan(list[c], h, S), S)
  BY <1>0
<1> DEFINE g == WithPlan(list[c], h, S)
<1>2. list[c] \in List /\ Good(list[c]) /\ list[c].nodes \subseteq used
  BY DEF TypeOK, Sound, Fits
<1>3. S \in SUBSET (Task \ list[c].nodes)
  BY <1>0, <1>2
<1>4. g \in List /\ Good(g) /\ g.nodes = list[c].nodes \cup S
  BY <1>2, <1>3, PlanGood
<1>5. Change(c, "change", g, S)
  BY <1>1
<1> HIDE DEF g
<1>6. PICK kind \in {"todo", "change"} : kind = "change"
  OBVIOUS
<1>7. S \in SUBSET Task /\ Change(c, kind, g, S)
  BY <1>0, <1>5, <1>6
<1>8. /\ used \subseteq used' /\ used' \in SUBSET Task /\ g.nodes \subseteq used'
      /\ read' \in [Writer -> Nat]
  BY <1>0, <1>2, <1>4 DEF TypeOK
<1>9. Shaped(g) /\ Tied(g)
  BY <1>4 DEF Good
<1>10. QED
  BY <1>4, <1>6, <1>7, <1>8, <1>9, ChangeStep

LEMMA NoChangeStep ==
  ASSUME TypeOK, Sound, NEW c \in Call, NoChange(c)
  PROVE  TypeOK' /\ Sound'
<1>1. /\ pc' = [pc EXCEPT ![c] = "done"] /\ list' = [list EXCEPT ![c] = Flat({})]
      /\ UNCHANGED <<file, user, results, used, read, missed, own, fate>>
  BY DEF NoChange
<1>2. pc' \in [Call -> {"idle", "loaded", "todo", "change", "done"}]
  BY <1>1 DEF TypeOK
<1>3. /\ list' \in [Call -> List] /\ list'[c] = Flat({})
      /\ \A d \in Call \ {c} : list'[d] = list[d]
  BY <1>1, EmptyFits DEF TypeOK
<1>4. \A d \in Call : Fits(list'[d], used)
  BY <1>3, EmptyFits DEF Sound
<1>5. QED
  BY <1>1, <1>2, <1>3, <1>4 DEF TypeOK, Sound, file, user, fate

LEMMA SaveStep ==
  ASSUME TypeOK, Sound, NEW c \in Call, Save(c)
  PROVE  TypeOK' /\ Sound'
<1>1. /\ Write(c, list[c]) /\ missed' = (missed \/ ui = "noting")
      /\ pc' = [pc EXCEPT ![c] = "done"] /\ list' = [list EXCEPT ![c] = Flat({})]
      /\ own' = [own EXCEPT ![c] = {}]
      /\ results' = IF pc[c] = "todo" THEN results + 2 ELSE results
      /\ UNCHANGED <<user, used, read>>
  BY DEF Save, Disturb
<1>2. c \in Writer /\ list[c] \in List /\ Fits(list[c], used)
  BY DEF Writer, TypeOK, Sound
<1>3. /\ state' \in {"whole", "torn", "broken"} /\ text' = list[c]
      /\ time' \in Nat /\ saved' \in Nat /\ overtaken' \in BOOLEAN /\ surprised' \in SUBSET Task
  BY <1>1, <1>2, WriteStep
<1>4. /\ list' \in [Call -> List] /\ list'[c] = Flat({})
      /\ \A d \in Call \ {c} : list'[d] = list[d]
  BY <1>1, EmptyFits DEF TypeOK
<1>5. \A d \in Call : Fits(list'[d], used)
  BY <1>4, EmptyFits DEF Sound
<1>6. Sound'
  BY <1>1, <1>2, <1>3, <1>5 DEF Sound, user
<1>7. pc' \in [Call -> {"idle", "loaded", "todo", "change", "done"}]
  BY <1>1 DEF TypeOK
<1>8. own' \in [Writer -> SUBSET Task]
  BY <1>1 DEF TypeOK
<1>9. results' \in Nat
  BY <1>1 DEF TypeOK
<1>10. missed' \in BOOLEAN
  BY <1>1 DEF TypeOK
<1>11. text' \in List
  BY <1>2, <1>3
<1>12. QED
  BY <1>1, <1>3, <1>4, <1>6, <1>7, <1>8, <1>9, <1>10, <1>11 DEF TypeOK, user

LEMMA ReloadsStep ==
  ASSUME TypeOK, Sound, Tick \/ Open \/ TakeResult
  PROVE  TypeOK' /\ Sound'
<1>1. Reload /\ UNCHANGED <<file, seen, keys, calls, used, fate>>
  BY DEF Tick, Open, TakeResult
<1>2. /\ panel' \in List /\ ui' \in {"idle", "writing", "noting"} /\ missed' \in BOOLEAN
      /\ read' \in [Writer -> Nat] /\ own' \in [Writer -> SUBSET Task] /\ Fits(panel', used)
  BY <1>1, ReloadStep
<1>3. editing' \in BOOLEAN
  BY DEF Tick, Open, TakeResult, TypeOK
<1>4. results' \in Nat
  BY DEF Tick, Open, TakeResult, TypeOK
<1>5. Sound'
  BY <1>1, <1>2 DEF Sound, file, calls
<1>6. QED
  BY <1>1, <1>2, <1>3, <1>4, <1>5 DEF TypeOK, file, calls, fate

LEMMA SavePanelStep ==
  ASSUME TypeOK, Sound, SavePanel
  PROVE  TypeOK' /\ Sound' /\ Write(Panel, panel)
<1>1. Repair(panel) = panel
  BY RepairKeepsGood DEF TypeOK, Sound, Fits
<1>2. /\ Write(Panel, panel) /\ ui' = "noting" /\ missed' = FALSE
      /\ read' = [read EXCEPT ![Panel] = saved']
      /\ UNCHANGED <<panel, editing, seen, keys, calls, results, used, own>>
  BY <1>1 DEF SavePanel
<1>3. Panel \in Writer /\ panel \in List
  BY DEF Writer, TypeOK
<1>4. /\ state' \in {"whole", "torn", "broken"} /\ text' = panel
      /\ time' \in Nat /\ saved' \in Nat /\ overtaken' \in BOOLEAN /\ surprised' \in SUBSET Task
  BY <1>2, <1>3, WriteStep
<1>5. read' \in [Writer -> Nat]
  BY <1>2, <1>4 DEF TypeOK
<1>6. Sound'
  BY <1>2, <1>4 DEF Sound, calls
<1>7. QED
  BY <1>2, <1>4, <1>5, <1>6 DEF TypeOK, calls

LEMMA KeysStep ==
  ASSUME TypeOK, Sound, MoveSelected \/ DeleteSelected \/ AddNewTask \/ Toggle \/ SubmitEdit
  PROVE  TypeOK' /\ Sound'
<1>1. /\ panel \in List /\ Good(panel) /\ panel.nodes \subseteq used /\ panel.nodes \subseteq Task
      /\ used \in SUBSET Task /\ editing \in BOOLEAN
  BY DEF TypeOK, Sound, Fits, List
<1>2. ASSUME MoveSelected PROVE TypeOK' /\ Sound'
  <2>1. PICK t \in panel.nodes :
          LET above  == panel.parent[t]
              others == Siblings(panel, t) \ {t}
              outer  == IF above = NoTask THEN {} ELSE {panel.parent[above]}
          IN \E p \in others \cup outer \cup (IF others = {} THEN {} ELSE {above}) :
               ChangePanel(IF MayMove(panel, t, p) THEN MoveTask(panel, t, p) ELSE panel, {})
    BY <1>2 DEF MoveSelected
  <2>2. t \in Task /\ panel.parent[t] \in Place
    BY <1>1 DEF List, Place
  <2>3. panel.parent[t] # NoTask => panel.parent[panel.parent[t]] \in Place
    BY <1>1, <2>2 DEF List, Place
  <2>4. Siblings(panel, t) \subseteq Place
    BY <1>1, <2>2 DEF Siblings, List, Place
  <2>5. PICK p \in Place :
          ChangePanel(IF MayMove(panel, t, p) THEN MoveTask(panel, t, p) ELSE panel, {})
    BY <2>1, <2>2, <2>3, <2>4
  <2> DEFINE g == IF MayMove(panel, t, p) THEN MoveTask(panel, t, p) ELSE panel
  <2>6. MayMove(panel, t, p) => /\ MoveTask(panel, t, p) \in List /\ Good(MoveTask(panel, t, p))
                                /\ MoveTask(panel, t, p).nodes = panel.nodes
    <3>1. /\ MoveTask(panel, t, p) \in List /\ MoveTask(panel, t, p).nodes = panel.nodes
      BY <1>1, <2>2 DEF MoveTask, List, Place
    <3>2. QED
      BY <1>1, <3>1, MoveGood
  <2>7. g \in List /\ Good(g) /\ g.nodes \subseteq used /\ ChangePanel(g, {})
    <3>1. CASE MayMove(panel, t, p)
      BY <1>1, <2>5, <2>6, <3>1
    <3>2. CASE ~MayMove(panel, t, p)
      BY <1>1, <2>5, <3>2
    <3>3. QED
      BY <3>1, <3>2
  <2> HIDE DEF g
  <2>8. PICK change \in SUBSET Task : change = {}
    OBVIOUS
  <2>9. UNCHANGED <<editing, used>>
    BY <1>2 DEF MoveSelected
  <2>10. QED
    BY <1>1, <2>7, <2>8, <2>9, ChangePanelStep
<1>3. ASSUME DeleteSelected PROVE TypeOK' /\ Sound'
  <2>1. PICK t \in panel.nodes : ChangePanel(DeleteTask(panel, t), Below(panel, t))
    BY <1>3 DEF DeleteSelected
  <2>2. /\ DeleteTask(panel, t) \in List /\ Good(DeleteTask(panel, t))
        /\ DeleteTask(panel, t).nodes = panel.nodes \ Below(panel, t)
    BY <1>1, DeleteGood
  <2>3. Below(panel, t) \in SUBSET Task /\ DeleteTask(panel, t).nodes \subseteq used
    BY <1>1, <2>2, BelowType
  <2>4. UNCHANGED <<editing, used>>
    BY <1>3 DEF DeleteSelected
  <2>5. QED
    BY <1>1, <2>1, <2>2, <2>3, <2>4, ChangePanelStep
<1>4. ASSUME AddNewTask PROVE TypeOK' /\ Sound'
  <2>1. PICK t \in Task \ used, p \in {panel.parent[s] : s \in panel.nodes} \cup {NoTask} :
          /\ ChangePanel(AddTask(panel, t, p), {t})
          /\ used' = used \cup {t}
    BY <1>4 DEF AddNewTask
  <2>2. p \in panel.nodes \cup {NoTask}
    BY <1>1 DEF Good, Shaped, Parents
  <2>3. t \in Task \ panel.nodes /\ t \in Task
    BY <1>1
  <2>4. Good(AddTask(panel, t, p)) /\ AddTask(panel, t, p) \in List
    BY <1>1, <2>2, <2>3, AddGood
  <2>5. AddTask(panel, t, p).nodes = panel.nodes \cup {t}
    BY <1>1, <2>2, <2>3, AddGood
  <2>6. /\ {t} \in SUBSET Task /\ used \subseteq used' /\ used' \in SUBSET Task
        /\ AddTask(panel, t, p).nodes \subseteq used'
    BY <1>1, <2>1, <2>5
  <2>7. editing' \in BOOLEAN
    BY <1>1, <1>4 DEF AddNewTask
  <2>8. QED
    BY <2>1, <2>4, <2>6, <2>7, ChangePanelStep
<1>5. ASSUME Toggle \/ SubmitEdit PROVE TypeOK' /\ Sound'
  <2>1. ChangePanel(panel, {}) /\ used' = used
    BY <1>5 DEF Toggle, SubmitEdit
  <2>2. editing' \in BOOLEAN
    BY <1>1, <1>5 DEF Toggle, SubmitEdit
  <2>3. PICK change \in SUBSET Task : change = {}
    OBVIOUS
  <2>4. QED
    BY <1>1, <2>1, <2>2, <2>3, ChangePanelStep
<1>6. QED
  BY <1>2, <1>3, <1>4, <1>5

LEMMA GraphStep == TypeOK /\ Sound /\ [Next]_vars => TypeOK' /\ Sound'
<1> SUFFICES ASSUME TypeOK, Sound, [Next]_vars
             PROVE  TypeOK' /\ Sound'
  OBVIOUS
<1>1. ASSUME NEW c \in Call, ToolNext(c)
      PROVE  TypeOK' /\ Sound'
  BY <1>1, LoadStep, TodoWriteStep, TaskUpdateStep, SeedPlanStep, NoChangeStep, SaveStep
     DEF ToolNext
<1>2. CASE Tick \/ Open \/ TakeResult
  BY <1>2, ReloadsStep
<1>3. CASE NoteTime
  BY <1>3 DEF NoteTime, TypeOK, Sound, file, calls, fate
<1>4. CASE MoveSelected \/ DeleteSelected \/ AddNewTask \/ Toggle \/ SubmitEdit
  BY <1>4, KeysStep
<1>5. CASE EnterEdit \/ CancelEdit
  BY <1>5 DEF EnterEdit, CancelEdit, TypeOK, Sound, file, calls, fate
<1>6. CASE SavePanel
  BY <1>6, SavePanelStep
<1>7. CASE UNCHANGED vars
  BY <1>7 DEF vars, TypeOK, Sound, file, user, calls, fate
<1>8. QED
  BY <1>1, <1>2, <1>3, <1>4, <1>5, <1>6, <1>7 DEF Next, PanelNext

(* The variables always have their types.                                   *)
THEOREM TypeCorrect == Spec => []TypeOK
<1>1. Spec => [](TypeOK /\ Sound)
  BY InitSound, GraphStep, PTL DEF Spec
<1>2. QED
  BY <1>1, PTL

(* In every list that the panel, the file or a call holds, every task can    *)
(* be reached from one root in one way.                                      *)
THEOREM ListsAreForests == Spec => []EveryTaskIsListedOnce
<1>1. TypeOK /\ Sound => EveryTaskIsListedOnce
  BY DEF Sound, Fits, Good, Shaped, EveryTaskIsListedOnce, Lists
<1>2. QED
  BY <1>1, InitSound, GraphStep, PTL DEF Spec

(* In every list that is held, a task that waits for another is found when   *)
(* the other is completed.                                                   *)
THEOREM LinksAreTied == Spec => []CompletionFindsAllWaiting
<1>1. ASSUME NEW g \in List, Good(g)
      PROVE  \A t \in g.nodes : \A d \in g.dependencies[t] : t \in g.blocks[d]
  BY <1>1 DEF Good, Tied, Within, List
<1>2. TypeOK /\ Sound => CompletionFindsAllWaiting
  BY <1>1 DEF TypeOK, Sound, Fits, CompletionFindsAllWaiting, Lists
<1>3. QED
  BY <1>2, InitSound, GraphStep, PTL DEF Spec
-----------------------------------------------------------------------------
(* The panel and the file.  While the panel notes the time, what it read or  *)
(* wrote is still what the file holds, unless it is told that it missed a     *)
(* change.                                                                   *)
Shown ==
  /\ seen <= time
  /\ ui = "noting" /\ ~missed /\ state = "whole" => panel = text
  /\ PanelShowsTheFile

LEMMA InitShown == Init => Shown
  BY DEF Init, Shown, PanelShowsTheFile

(* A change of the file by a call.                                          *)
LEMMA DisturbShown ==
  ASSUME TypeOK, Shown, Disturb, UNCHANGED user, time' = time + 1
  PROVE  Shown'
<1>1. seen' <= time' /\ seen' # time'
  BY DEF TypeOK, Shown, user
<1>2. ui' = "noting" => missed'
  BY DEF Disturb, user
<1>3. QED
  BY <1>1, <1>2 DEF Shown, PanelShowsTheFile

LEMMA ShownStep == TypeOK /\ Sound /\ Shown /\ [Next]_vars => Shown'
<1> SUFFICES ASSUME TypeOK, Sound, Shown, [Next]_vars
             PROVE  Shown'
  OBVIOUS
<1>1. ASSUME NEW c \in Call, TodoWrite(c) \/ TaskUpdate(c) \/ SeedPlan(c) \/ Save(c)
      PROVE  Shown'
  <2>1. Disturb /\ UNCHANGED user /\ time' = time + 1
    <3>1. CASE TodoWrite(c) \/ TaskUpdate(c) \/ SeedPlan(c)
      BY <3>1 DEF TodoWrite, TaskUpdate, SeedPlan, Change, Truncate
    <3>2. CASE Save(c)
      BY <3>2 DEF Save, Write
    <3>3. QED
      BY <1>1, <3>1, <3>2
  <2>2. QED
    BY <2>1, DisturbShown
<1>2. ASSUME NEW c \in Call, Load(c) \/ NoChange(c)
      PROVE  Shown'
  BY <1>2 DEF Load, NoChange, file, user, Shown, PanelShowsTheFile
<1>3. CASE Tick \/ Open \/ TakeResult
  <2>1. Reload /\ UNCHANGED <<file, seen>> /\ ui = "idle"
    BY <1>3 DEF Tick, Open, TakeResult
  <2>2. CASE state = "whole"
    <3>1. panel' = text /\ ui' = "noting"
      BY <2>1, <2>2, ReloadStep
    <3>2. QED
      BY <2>1, <3>1 DEF Shown, PanelShowsTheFile, file
  <2>3. CASE state # "whole"
    BY <2>1, <2>3 DEF Shown, PanelShowsTheFile, file
  <2>4. QED
    BY <2>2, <2>3
<1>4. CASE NoteTime
  <2>1. seen' = time' /\ seen' \in Nat /\ ui' = "idle"
    BY <1>4 DEF NoteTime, TypeOK, file
  <2>2. ~missed /\ state = "whole" => panel = text
    BY <1>4 DEF NoteTime, Shown
  <2>3. QED
    BY <1>4, <2>1, <2>2 DEF NoteTime, Shown, PanelShowsTheFile, file
<1>5. CASE MoveSelected \/ DeleteSelected \/ AddNewTask \/ Toggle \/ SubmitEdit
  <2>1. ui' = "writing" /\ time' = time + 1 /\ seen' = seen
    BY <1>5 DEF MoveSelected, DeleteSelected, AddNewTask, Toggle, SubmitEdit, ChangePanel, Truncate
  <2>2. seen' <= time'
    BY <2>1 DEF TypeOK, Shown
  <2>3. QED
    BY <2>1, <2>2 DEF Shown, PanelShowsTheFile
<1>6. CASE EnterEdit \/ CancelEdit
  BY <1>6 DEF EnterEdit, CancelEdit, file, Shown, PanelShowsTheFile
<1>7. CASE SavePanel
  <2>1. /\ ui' = "noting" /\ panel' = panel /\ seen' = seen /\ text' = panel /\ time' = time + 1
    BY <1>7, SavePanelStep DEF SavePanel, Write
  <2>2. seen' <= time'
    BY <2>1 DEF TypeOK, Shown
  <2>3. QED
    BY <2>1, <2>2 DEF Shown, PanelShowsTheFile
<1>8. CASE UNCHANGED vars
  BY <1>8 DEF vars, file, user, Shown, PanelShowsTheFile
<1>9. QED
  BY <1>1, <1>2, <1>3, <1>4, <1>5, <1>6, <1>7, <1>8 DEF Next, PanelNext, ToolNext

(* The panel that takes the time of the file for the one it noted shows what *)
(* is in the file, unless the file changed while it noted the time.          *)
THEOREM PanelIsCurrent == Spec => []PanelShowsTheFile
<1>1. Shown => PanelShowsTheFile
  BY DEF Shown
<1>2. QED
  BY <1>1, InitSound, GraphStep, InitShown, ShownStep, PTL DEF Spec
-----------------------------------------------------------------------------
(* Whoever started from the text that is still in the file holds the same    *)
(* tasks, up to what his own change adds or removes.                         *)
Changed(A, B) == (A \ B) \cup (B \ A)

CallKept(c) ==
  read[c] = saved =>
    /\ pc[c] = "loaded" => list[c].nodes = text.nodes
    /\ pc[c] \in {"todo", "change"} => Changed(text.nodes, list[c].nodes) \subseteq own[c]
PanelKept ==
  read[Panel] = saved =>
    /\ ui # "writing" => panel.nodes = text.nodes
    /\ ui = "writing" => Changed(text.nodes, panel.nodes) \subseteq own[Panel]
Versions == 1 <= saved /\ saved <= time /\ \A w \in Writer : read[w] <= saved
Kept == Versions /\ (\A c \in Call : CallKept(c)) /\ PanelKept /\ TasksAreKept

LEMMA InitKept == Init => Kept
<1> SUFFICES ASSUME Init PROVE Kept
  OBVIOUS
<1>1. Versions
  BY DEF Init, Versions
<1>2. \A c \in Call : CallKept(c)
  BY DEF Init, CallKept
<1>3. PanelKept /\ TasksAreKept
  BY DEF Init, PanelKept, TasksAreKept
<1>4. QED
  BY <1>1, <1>2, <1>3 DEF Kept

LEMMA WriterFacts ==
  /\ Panel \in Writer /\ Call \subseteq Writer /\ \A c \in Call : c # Panel
  BY BoundsAssumption DEF Writer, Panel, Call

(* A call that changes its list from the text in the file holds its tasks up  *)
(* to the change.                                                            *)
LEMMA ChangeKept ==
  ASSUME TypeOK, Kept, NEW c \in Call, NEW kind, NEW g \in List, NEW change,
         Change(c, kind, g, change),
         \A w \in Writer \ {c} : read'[w] = read[w], read'[c] <= saved,
         read'[c] = saved => Changed(text.nodes, g.nodes) \subseteq change,
         kind # "loaded"
  PROVE  Kept'
<1>1. /\ list' = [list EXCEPT ![c] = Repair(g)]
      /\ pc' = [pc EXCEPT ![c] = kind] /\ own' = [own EXCEPT ![c] = change]
      /\ time' = time + 1
      /\ UNCHANGED <<panel, text, saved, ui, overtaken, surprised>>
  BY DEF Change, Truncate, user, fate
<1>2. Repair(g).nodes = g.nodes
  BY RepairFacts
<1>3. /\ list'[c].nodes = g.nodes /\ pc'[c] = kind /\ own'[c] = change
      /\ \A d \in Call \ {c} : list'[d] = list[d] /\ pc'[d] = pc[d] /\ own'[d] = own[d]
      /\ own'[Panel] = own[Panel]
  BY <1>1, <1>2, WriterFacts DEF TypeOK
<1>4. Versions'
  <2>1. 1 <= saved' /\ saved' <= time'
    BY <1>1 DEF TypeOK, Kept, Versions
  <2>2. \A w \in Writer : read'[w] <= saved'
    BY <1>1 DEF Kept, Versions
  <2>3. QED
    BY <2>1, <2>2 DEF Versions
<1>5. ASSUME NEW d \in Call PROVE CallKept(d)'
  <2>1. CASE d = c
    BY <1>1, <1>3, <2>1 DEF CallKept
  <2>2. CASE d # c
    <3>1. read'[d] = read[d]
      BY <2>2, WriterFacts
    <3>2. CallKept(d)
      BY DEF Kept
    <3>3. QED
      BY <1>1, <1>3, <2>2, <3>1, <3>2 DEF CallKept
  <2>3. QED
    BY <2>1, <2>2
<1>6. PanelKept'
  <2>1. read'[Panel] = read[Panel] /\ PanelKept
    BY WriterFacts DEF Kept
  <2>2. QED
    BY <1>1, <1>3, <2>1 DEF PanelKept
<1>7. TasksAreKept'
  BY <1>1 DEF Kept, TasksAreKept
<1>8. QED
  BY <1>4, <1>5, <1>6, <1>7 DEF Kept

(* A save by one who started from the text in the file brings no surprise;   *)
(* what the others started from is past.                                     *)
LEMMA WriteKept ==
  ASSUME TypeOK, Kept, NEW w \in Writer, NEW g \in List, Write(w, g),
         read[w] = saved => Changed(text.nodes, g.nodes) \subseteq own[w]
  PROVE  /\ TasksAreKept' /\ text' = g
         /\ 1 <= saved' /\ saved' = time'
         /\ \A x \in Writer : read[x] <= saved' /\ read[x] # saved'
<1>1. /\ text' = g /\ time' = time + 1 /\ saved' = time'
      /\ overtaken' = (overtaken \/ read[w] # saved)
      /\ surprised' = surprised \cup (Changed(text.nodes, g.nodes) \ own[w])
  BY DEF Write, Changed
<1>2. time \in Nat /\ saved \in Nat /\ 1 <= saved /\ saved <= time
  BY DEF TypeOK, Kept, Versions
<1>3. 1 <= saved'
  BY <1>1, <1>2
<1>4. ASSUME NEW x \in Writer
      PROVE  read[x] <= saved' /\ read[x] # saved'
  <2>1. read[x] \in Nat /\ read[x] <= saved
    BY DEF TypeOK, Kept, Versions
  <2>2. QED
    BY <1>1, <1>2, <2>1
<1>5. TasksAreKept'
  <2>1. SUFFICES ASSUME ~overtaken' PROVE surprised' = {}
    BY DEF TasksAreKept
  <2>2. ~overtaken /\ read[w] = saved
    BY <1>1, <2>1
  <2>3. surprised = {}
    BY <2>2 DEF Kept, TasksAreKept
  <2>4. QED
    BY <1>1, <2>2, <2>3
<1>6. QED
  BY <1>1, <1>3, <1>4, <1>5

LEMMA ToolKept ==
  ASSUME TypeOK, Sound, Kept, NEW c \in Call, ToolNext(c)
  PROVE  Kept'
<1>0. c \in Writer /\ c # Panel /\ Panel \in Writer
  BY WriterFacts
<1>1. CASE Load(c)
  <2>1. Repair(text) = text
    BY RepairKeepsGood DEF TypeOK, Sound, Fits
  <2>2. /\ pc' = [pc EXCEPT ![c] = "loaded"]
        /\ list' = [list EXCEPT ![c] = IF state = "whole" THEN text ELSE Flat({})]
        /\ read' = [read EXCEPT ![c] = IF state = "whole" THEN saved ELSE Unread]
        /\ UNCHANGED <<text, time, saved, panel, ui, own, overtaken, surprised>>
    BY <1>1, <2>1 DEF Load, file, user, fate
  <2>3. /\ pc'[c] = "loaded"
        /\ state = "whole" => list'[c] = text /\ read'[c] = saved
        /\ state # "whole" => read'[c] = 0
        /\ \A d \in Call \ {c} : pc'[d] = pc[d] /\ list'[d] = list[d]
        /\ \A w \in Writer \ {c} : read'[w] = read[w]
    BY <1>0, <2>2 DEF TypeOK, Unread
  <2>4. saved \in Nat /\ 1 <= saved
    BY DEF TypeOK, Kept, Versions
  <2>5. read'[c] <= saved /\ (read'[c] = saved => state = "whole")
    BY <2>3, <2>4
  <2>6. Versions'
    BY <2>2, <2>3, <2>5 DEF Kept, Versions
  <2>7. ASSUME NEW d \in Call PROVE CallKept(d)'
    <3>1. CASE d = c
      BY <2>2, <2>3, <2>5, <3>1 DEF CallKept
    <3>2. CASE d # c
      <4>1. read'[d] = read[d] /\ CallKept(d)
        BY <2>3, <3>2, WriterFacts DEF Kept
      <4>2. QED
        BY <2>2, <2>3, <3>2, <4>1 DEF CallKept
    <3>3. QED
      BY <3>1, <3>2
  <2>8. PanelKept' /\ TasksAreKept'
    <3>1. read'[Panel] = read[Panel]
      BY <1>0, <2>3
    <3>2. QED
      BY <2>2, <3>1 DEF Kept, PanelKept, TasksAreKept
  <2>9. QED
    BY <2>6, <2>7, <2>8 DEF Kept
<1>2. CASE TodoWrite(c)
  <2>1. PICK S \in SUBSET (Task \ used) :
          /\ Change(c, "todo", Flat(S), Task)
          /\ read' = [read EXCEPT ![c] = saved]
    BY <1>2 DEF TodoWrite
  <2>2. Flat(S) \in List /\ Flat(S).nodes = S
    BY <2>1, FlatFacts
  <2>3. \A w \in Writer \ {c} : read'[w] = read[w]
    BY <2>1 DEF TypeOK
  <2>4. read'[c] <= saved
    <3>1. read'[c] = saved /\ saved \in Nat
      BY <1>0, <2>1 DEF TypeOK
    <3>2. QED
      BY <3>1
  <2>5. Changed(text.nodes, Flat(S).nodes) \subseteq Task
    BY <2>2 DEF Changed, TypeOK, List
  <2>6. QED
    BY <2>1, <2>2, <2>3, <2>4, <2>5, ChangeKept
<1>3. CASE TaskUpdate(c)
  <2>1. PICK t \in list[c].nodes, S \in Few, R \in Few, completed \in BOOLEAN :
          Change(c, "change", Updated(list[c], t, S, R, completed), {})
    BY <1>3 DEF TaskUpdate, Updated
  <2> DEFINE g == Updated(list[c], t, S, R, completed)
  <2>2. S \in SUBSET Task /\ R \in SUBSET Task /\ list[c] \in List /\ Good(list[c])
    BY DEF Few, TypeOK, Sound, Fits
  <2>3. g \in List /\ g.nodes = list[c].nodes /\ Change(c, "change", g, {})
    BY <2>1, <2>2, UpdateTied
  <2> HIDE DEF g
  <2>4. read' = read /\ read[c] <= saved /\ pc[c] = "loaded" /\ CallKept(c)
    BY <1>0, <1>3, <2>3 DEF TaskUpdate, Kept, Versions, Change
  <2>5. read'[c] = saved => Changed(text.nodes, g.nodes) \subseteq {}
    BY <2>3, <2>4 DEF CallKept, Changed
  <2>6. QED
    BY <2>3, <2>4, <2>5, ChangeKept
<1>4. CASE SeedPlan(c)
  <2>1. PICK S \in SUBSET (Task \ used) :
          /\ \E h \in S \cup {NoTask} : Change(c, "change", WithPlan(list[c], h, S), S)
          /\ UNCHANGED read
    BY <1>4 DEF SeedPlan
  <2>2. PICK h \in S \cup {NoTask} : Change(c, "change", WithPlan(list[c], h, S), S)
    BY <2>1
  <2> DEFINE g == WithPlan(list[c], h, S)
  <2>3. list[c] \in List /\ Good(list[c]) /\ S \in SUBSET (Task \ list[c].nodes)
    BY <2>1 DEF TypeOK, Sound, Fits
  <2>4. g \in List /\ g.nodes = list[c].nodes \cup S /\ Change(c, "change", g, S)
    BY <2>2, <2>3, PlanGood
  <2> HIDE DEF g
  <2>5. read' = read /\ read[c] <= saved /\ pc[c] = "loaded" /\ CallKept(c)
    BY <1>0, <2>1, <2>4 DEF Kept, Versions, Change
  <2>6. read'[c] = saved => Changed(text.nodes, g.nodes) \subseteq S
    BY <2>4, <2>5 DEF CallKept, Changed
  <2>7. QED
    BY <2>4, <2>5, <2>6, ChangeKept
<1>5. CASE NoChange(c)
  <2>1. /\ pc' = [pc EXCEPT ![c] = "done"] /\ list' = [list EXCEPT ![c] = Flat({})]
        /\ UNCHANGED <<text, time, saved, panel, ui, read, own, overtaken, surprised>>
    BY <1>5 DEF NoChange, file, user, fate
  <2>2. /\ pc'[c] = "done"
        /\ \A d \in Call \ {c} : pc'[d] = pc[d] /\ list'[d] = list[d]
    BY <2>1 DEF TypeOK
  <2>3. ASSUME NEW d \in Call PROVE CallKept(d)'
    BY <2>1, <2>2 DEF Kept, CallKept
  <2>4. Versions' /\ PanelKept' /\ TasksAreKept'
    BY <2>1 DEF Kept, Versions, PanelKept, TasksAreKept
  <2>5. QED
    BY <2>3, <2>4 DEF Kept
<1>6. CASE Save(c)
  <2>1. /\ Write(c, list[c]) /\ pc[c] \in {"todo", "change"}
        /\ pc' = [pc EXCEPT ![c] = "done"]
        /\ UNCHANGED <<panel, ui, read>>
    BY <1>6 DEF Save, user
  <2>2. list[c] \in List /\ (read[c] = saved => Changed(text.nodes, list[c].nodes) \subseteq own[c])
    BY <2>1 DEF TypeOK, Kept, CallKept
  <2>3. /\ TasksAreKept' /\ 1 <= saved' /\ saved' = time'
        /\ \A x \in Writer : read[x] <= saved' /\ read[x] # saved'
    BY <1>0, <2>1, <2>2, WriteKept
  <2>4. saved' \in Nat
    BY <1>0, <2>1, <2>2, WriteStep
  <2>5. Versions'
    BY <2>1, <2>3, <2>4 DEF Versions
  <2>6. \A d \in Call : CallKept(d)'
    BY <2>1, <2>3, WriterFacts DEF CallKept
  <2>7. PanelKept'
    BY <1>0, <2>1, <2>3 DEF PanelKept
  <2>8. QED
    BY <2>3, <2>5, <2>6, <2>7 DEF Kept
<1>7. QED
  BY <1>1, <1>2, <1>3, <1>4, <1>5, <1>6 DEF ToolNext

(* A key in the panel changes the tasks it shows by what the key asks for.   *)
LEMMA ChangePanelKept ==
  ASSUME TypeOK, Kept, NEW g, NEW change, ChangePanel(g, change),
         Changed(panel.nodes, g.nodes) \subseteq change
  PROVE  Kept'
<1>1. /\ ui = "idle" /\ panel' = g /\ ui' = "writing" /\ own' = [own EXCEPT ![Panel] = change]
      /\ time' = time + 1
      /\ UNCHANGED <<text, saved, pc, list, read, overtaken, surprised>>
  BY DEF ChangePanel, Truncate, calls, fate
<1>2. own'[Panel] = change /\ \A c \in Call : own'[c] = own[c]
  BY <1>1, WriterFacts DEF TypeOK
<1>3. Versions'
  <2>1. saved' <= time'
    BY <1>1 DEF TypeOK, Kept, Versions
  <2>2. QED
    BY <1>1, <2>1 DEF Kept, Versions
<1>4. ASSUME NEW c \in Call PROVE CallKept(c)'
  BY <1>1, <1>2 DEF Kept, CallKept
<1>5. PanelKept' /\ TasksAreKept'
  BY <1>1, <1>2 DEF Kept, PanelKept, TasksAreKept
<1>6. QED
  BY <1>3, <1>4, <1>5 DEF Kept

LEMMA KeysKept ==
  ASSUME TypeOK, Sound, Kept, MoveSelected \/ DeleteSelected \/ AddNewTask \/ Toggle \/ SubmitEdit
  PROVE  Kept'
<1>1. SUFFICES ASSUME NEW g, NEW change, ChangePanel(g, change),
                      Changed(panel.nodes, g.nodes) \subseteq change
               PROVE  Kept'
  <2>1. panel \in List /\ Good(panel)
    BY DEF TypeOK, Sound, Fits
  <2>2. \A t, p : MoveTask(panel, t, p).nodes = panel.nodes
    BY <2>1 DEF MoveTask, List
  <2>3. MoveSelected => \E g : ChangePanel(g, {}) /\ g.nodes = panel.nodes
    <3>1. SUFFICES ASSUME MoveSelected PROVE \E g : ChangePanel(g, {}) /\ g.nodes = panel.nodes
      OBVIOUS
    <3>2. PICK t, p : ChangePanel(IF MayMove(panel, t, p) THEN MoveTask(panel, t, p)
                                  ELSE panel, {})
      BY <3>1 DEF MoveSelected
    <3>3. (IF MayMove(panel, t, p) THEN MoveTask(panel, t, p) ELSE panel).nodes = panel.nodes
      BY <2>2
    <3>4. QED
      BY <3>2, <3>3
  <2>4. Toggle \/ SubmitEdit => ChangePanel(panel, {})
    BY DEF Toggle, SubmitEdit
  <2>5. DeleteSelected => \E t : /\ ChangePanel(DeleteTask(panel, t), Below(panel, t))
                                 /\ DeleteTask(panel, t).nodes = panel.nodes \ Below(panel, t)
    BY <2>1, DeleteGood DEF DeleteSelected
  <2>6. \A t, p : AddTask(panel, t, p).nodes = panel.nodes \cup {t}
    BY <2>1 DEF AddTask, MoveTask, List
  <2>7. AddNewTask => \E t, p : ChangePanel(AddTask(panel, t, p), {t})
    BY DEF AddNewTask
  <2>8. CASE MoveSelected
    <3>1. PICK g : ChangePanel(g, {}) /\ g.nodes = panel.nodes
      BY <2>3, <2>8
    <3>2. Changed(panel.nodes, g.nodes) \subseteq {}
      BY <3>1 DEF Changed
    <3>3. QED
      BY <1>1, <3>1, <3>2
  <2>9. CASE Toggle \/ SubmitEdit
    <3>1. Changed(panel.nodes, panel.nodes) \subseteq {}
      BY DEF Changed
    <3>2. QED
      BY <1>1, <2>4, <2>9, <3>1
  <2>10. CASE DeleteSelected
    <3>1. PICK t : /\ ChangePanel(DeleteTask(panel, t), Below(panel, t))
                   /\ DeleteTask(panel, t).nodes = panel.nodes \ Below(panel, t)
      BY <2>5, <2>10
    <3>2. Changed(panel.nodes, DeleteTask(panel, t).nodes) \subseteq Below(panel, t)
      BY <3>1 DEF Changed
    <3>3. QED
      BY <1>1, <3>1, <3>2
  <2>11. CASE AddNewTask
    <3>1. PICK t, p : ChangePanel(AddTask(panel, t, p), {t})
      BY <2>7, <2>11
    <3>2. Changed(panel.nodes, AddTask(panel, t, p).nodes) \subseteq {t}
      BY <2>6 DEF Changed
    <3>3. QED
      BY <1>1, <3>1, <3>2
  <2>12. QED
    BY <2>8, <2>9, <2>10, <2>11
<1>2. QED
  BY <1>1, ChangePanelKept

LEMMA KeptStep == TypeOK /\ Sound /\ Kept /\ [Next]_vars => Kept'
<1> SUFFICES ASSUME TypeOK, Sound, Kept, [Next]_vars
             PROVE  Kept'
  OBVIOUS
<1>1. CASE Tick \/ Open \/ TakeResult
  <2>1. Reload /\ UNCHANGED <<text, time, saved, calls, fate>> /\ ui = "idle"
    BY <1>1 DEF Tick, Open, TakeResult, file
  <2>2. CASE state = "whole"
    <3>1. /\ panel' = text /\ ui' = "noting"
          /\ read' = [read EXCEPT ![Panel] = saved] /\ own' = [own EXCEPT ![Panel] = {}]
      BY <2>1, <2>2, ReloadStep
    <3>2. /\ read'[Panel] = saved
          /\ \A c \in Call : read'[c] = read[c] /\ own'[c] = own[c]
          /\ \A w \in Writer \ {Panel} : read'[w] = read[w]
      BY <3>1, WriterFacts DEF TypeOK
    <3>3. Versions'
      <4>1. saved <= saved
        BY DEF TypeOK
      <4>2. QED
        BY <2>1, <3>2, <4>1 DEF Kept, Versions
    <3>4. ASSUME NEW c \in Call PROVE CallKept(c)'
      BY <2>1, <3>2 DEF Kept, CallKept, calls
    <3>5. PanelKept' /\ TasksAreKept'
      BY <2>1, <3>1 DEF Kept, PanelKept, TasksAreKept, fate
    <3>6. QED
      BY <3>3, <3>4, <3>5 DEF Kept
  <2>3. CASE state # "whole"
    <3>1. UNCHANGED <<panel, ui, read, own, text, time, saved, pc, list, overtaken, surprised>>
      BY <2>1, <2>3 DEF Reload, calls, fate
    <3>2. QED
      BY <3>1 DEF Kept, Versions, CallKept, PanelKept, TasksAreKept
  <2>4. QED
    BY <2>2, <2>3
<1>2. CASE NoteTime \/ EnterEdit \/ CancelEdit
  <2>1. UNCHANGED <<panel, read, own, text, time, saved, pc, list, overtaken, surprised>>
    BY <1>2 DEF NoteTime, EnterEdit, CancelEdit, file, calls, fate
  <2>2. ui # "writing" /\ ui' # "writing"
    BY <1>2 DEF NoteTime, EnterEdit, CancelEdit
  <2>3. QED
    BY <2>1, <2>2 DEF Kept, Versions, CallKept, PanelKept, TasksAreKept
<1>3. CASE SavePanel
  <2>1. /\ ui = "writing" /\ ui' = "noting" /\ Write(Panel, panel)
        /\ read' = [read EXCEPT ![Panel] = saved']
        /\ UNCHANGED <<panel, pc, list, own>>
    BY <1>3, SavePanelStep DEF SavePanel, calls
  <2>2. panel \in List /\ (read[Panel] = saved => Changed(text.nodes, panel.nodes) \subseteq own[Panel])
    BY <2>1 DEF TypeOK, Kept, PanelKept
  <2>3. /\ TasksAreKept' /\ text' = panel /\ 1 <= saved' /\ saved' = time'
        /\ \A x \in Writer : read[x] <= saved' /\ read[x] # saved'
    BY <2>1, <2>2, WriteKept, WriterFacts
  <2>4. saved' \in Nat
    BY <2>1, <2>2, WriteStep, WriterFacts
  <2>5. read'[Panel] = saved' /\ \A w \in Writer \ {Panel} : read'[w] = read[w]
    BY <2>1, WriterFacts DEF TypeOK
  <2>6. saved' <= saved' /\ saved' <= time'
    BY <2>3, <2>4
  <2>7. Versions'
    BY <2>3, <2>5, <2>6 DEF Versions
  <2>8. \A c \in Call : CallKept(c)'
    BY <2>3, <2>5, WriterFacts DEF CallKept
  <2>9. PanelKept'
    BY <2>1, <2>3 DEF PanelKept
  <2>10. QED
    BY <2>3, <2>7, <2>8, <2>9 DEF Kept
<1>4. CASE UNCHANGED vars
  <2>1. UNCHANGED <<panel, ui, read, own, text, time, saved, pc, list, overtaken, surprised>>
    BY <1>4 DEF vars, file, user, calls, fate
  <2>2. QED
    BY <2>1 DEF Kept, Versions, CallKept, PanelKept, TasksAreKept
<1>5. QED
  BY <1>1, <1>2, <1>3, <1>4, ToolKept, KeysKept DEF Next, PanelNext

(* No task comes or goes but by a change that asks for it, unless a writer    *)
(* replaced a list he had not read.                                          *)
THEOREM NoTaskIsLost == Spec => []TasksAreKept
<1>1. Kept => TasksAreKept
  BY DEF Kept
<1>2. QED
  BY <1>1, InitSound, GraphStep, InitKept, KeptStep, PTL DEF Spec
=============================================================================
