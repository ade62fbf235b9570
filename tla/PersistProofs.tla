---------------------------- MODULE PersistProofs ----------------------------
(***************************************************************************)
(* Proofs about modules Ramfs and Persist, for any paths, descriptors and  *)
(* tasks, images and sectors of any size and any number of calls, saves,   *)
(* power losses and boots.                                                 *)
(***************************************************************************)
EXTENDS Persist, NaturalsInduction, WellFoundedInduction, FiniteSetTheorems, TLAPS

-----------------------------------------------------------------------------
(***************************************************************************)
(* Induction, for the set of the numbers that have the property.           *)
(***************************************************************************)
LEMMA SetInduction ==
    ASSUME NEW S, 0 \in S, \A n \in Nat : n \in S => n + 1 \in S
    PROVE  Nat \subseteq S
<1> DEFINE R == {ss \in Nat \X Nat : ss[1] < ss[2]}
           T == Nat \ S
<1>1. IsWellFoundedOn(R, Nat)
  BY NatLessThanWellFounded, Zenon DEF OpToRel
<1>2. \A x, y \in Nat : x < y => <<x, y>> \in R
  OBVIOUS
<1> HIDE DEF R
<1>3. SUFFICES ASSUME T # {} PROVE FALSE
  OBVIOUS
<1>4. PICK x \in T : \A y \in T : ~ (<<y, x>> \in R)
  <2> HIDE DEF T
  <2>1. T \subseteq Nat
    BY DEF T
  <2> QED BY <1>1, <1>3, <2>1, WFMin
<1>5. x \in Nat /\ x # 0
  OBVIOUS
<1>6. x - 1 \in Nat /\ x - 1 < x /\ x - 1 + 1 = x
  BY <1>5
<1>7. x - 1 \notin T
  BY <1>2, <1>4, <1>5, <1>6
<1> QED BY <1>5, <1>6, <1>7

LEMMA UpTo ==
    ASSUME NEW N \in Nat, NEW S, 0 \in S, \A n \in 1..N : n - 1 \in S => n \in S
    PROVE  0..N \subseteq S
<1> DEFINE Q == {n \in Nat : n <= N => n \in S}
<1>1. 0 \in Q
  OBVIOUS
<1>2. ASSUME NEW n \in Nat, n \in Q PROVE n + 1 \in Q
  <2> SUFFICES ASSUME n + 1 <= N PROVE n + 1 \in S
    OBVIOUS
  <2>1. n \in S /\ n + 1 \in 1..N /\ (n + 1) - 1 = n
    BY <1>2
  <2> QED BY <2>1
<1>3. Nat \subseteq Q
  <2> HIDE DEF Q
  <2> QED BY <1>1, <1>2, SetInduction
<1> QED BY <1>3

LEMMA Least ==
    ASSUME NEW L, L \subseteq Nat, L # {}
    PROVE  LET m == CHOOSE c \in L : \A x \in L : c <= x IN m \in L /\ \A x \in L : m <= x
<1> DEFINE S == {n \in Nat : \A c \in L : c >= n}
<1>1. \E c \in L : \A x \in L : c <= x
  <2> SUFFICES ASSUME \A c \in L : \E x \in L : x < c PROVE FALSE
    OBVIOUS
  <2>1. 0 \in S
    OBVIOUS
  <2>2. ASSUME NEW n \in Nat, n \in S PROVE n + 1 \in S
    <3> SUFFICES ASSUME NEW c \in L PROVE c >= n + 1
      OBVIOUS
    <3>1. c \in Nat /\ c >= n
      BY <2>2
    <3>2. PICK x \in L : x < c
      OBVIOUS
    <3>3. x \in Nat /\ x >= n
      BY <2>2
    <3> QED BY <3>1, <3>2, <3>3
  <2>3. Nat \subseteq S
    <3> HIDE DEF S
    <3> QED BY <2>1, <2>2, SetInduction
  <2>4. PICK c \in L : TRUE
    OBVIOUS
  <2>5. c \in Nat /\ c + 1 \in Nat
    OBVIOUS
  <2>6. c >= c + 1
    BY <2>3, <2>5
  <2> QED BY <2>5, <2>6
<1> QED BY <1>1

(***************************************************************************)
(* A function defined by recursion on 0..N exists and keeps to T.          *)
(***************************************************************************)
Iterates(g, T, a, h, n) ==
    /\ g \in [0..n -> T]
    /\ g[0] = a
    /\ \A k \in 1..n : g[k] = h[k][g[k - 1]]

LEMMA IterateExists ==
    ASSUME NEW T, NEW a \in T, NEW h, NEW N \in Nat, h \in [1..N -> [T -> T]]
    PROVE  \E g : Iterates(g, T, a, h, N)
<1> DEFINE S == {n \in Nat : \E g : Iterates(g, T, a, h, n)}
<1>1. 0 \in S
  <2> DEFINE g == [k \in 0..0 |-> a]
  <2>1. Iterates(g, T, a, h, 0)
    BY DEF Iterates
  <2> HIDE DEF g
  <2> QED BY <2>1
<1>2. ASSUME NEW n \in 1..N, n - 1 \in S
      PROVE  n \in S
  <2>1. PICK g : Iterates(g, T, a, h, n - 1)
    BY <1>2
  <2> DEFINE k == [j \in 0..n |-> IF j < n THEN g[j] ELSE h[n][g[n - 1]]]
  <2>2. g[n - 1] \in T /\ h[n] \in [T -> T]
    BY <2>1 DEF Iterates
  <2>3. k \in [0..n -> T]
    BY <2>1, <2>2 DEF Iterates
  <2>4. ASSUME NEW j \in 1..n
        PROVE  k[j] = h[j][k[j - 1]]
    <3>1. CASE j < n
      BY <2>1, <3>1 DEF Iterates
    <3>2. CASE j = n
      BY <3>2
    <3> QED BY <3>1, <3>2
  <2>5. k[0] = a
    BY <2>1 DEF Iterates
  <2>6. Iterates(k, T, a, h, n)
    <3> HIDE DEF k
    <3> QED BY <2>3, <2>4, <2>5 DEF Iterates
  <2> HIDE DEF k
  <2> QED BY <2>6
<1>3. 0..N \subseteq S
  <2> HIDE DEF S
  <2> QED BY <1>1, <1>2, UpTo
<1> QED BY <1>3

(***************************************************************************)
(* What the addresses are.                                                 *)
(***************************************************************************)
LEMMA NodeFacts ==
    /\ Nodes \subseteq Nat \ {0} /\ Null \notin Nodes /\ Null = 0
    /\ Root \in Nodes /\ NODE_FILE = 0 /\ NODE_DIR = 1
    /\ Names \subseteq Nat /\ FDs \subseteq Nat /\ Bytes \subseteq Nat \ {Junk} /\ Junk = 99
    /\ MinCap \in Nat \ {0}
<1>1. Nodes \subseteq Nat /\ Nodes # {}
  BY RamfsAssumption DEF RamfsAssumption
<1>2. Root \in Nodes
  BY <1>1, Least DEF Root
<1> QED BY <1>2, RamfsAssumption DEF RamfsAssumption, Null, NODE_FILE, NODE_DIR, Junk

(***************************************************************************)
(* The names that nodes have.                                              *)
(***************************************************************************)
Stems == {x \in Nat : Cut(x) = x}

LEMMA CutIs ==
    ASSUME NEW name \in Nat
    PROVE  /\ Cut(name) \in Stems /\ Cut(name) \in Nat
           /\ Cut(name) # name => Cut(name) \in CutNames
<1>1. /\ Names \subseteq Nat /\ Stored \in [Names -> Names]
      /\ \A n \in Names : Stored[Stored[n]] = Stored[n]
  BY RamfsAssumption DEF RamfsAssumption
<1>2. CASE name \in Names
  <2>1. Cut(name) = Stored[name] /\ Stored[name] \in Names
    BY <1>1, <1>2 DEF Cut
  <2>2. Cut(Stored[name]) = Stored[name]
    BY <1>1, <1>2, <2>1 DEF Cut
  <2> QED BY <1>1, <1>2, <2>1, <2>2 DEF Stems, CutNames
<1>3. CASE name \notin Names
  BY <1>3 DEF Cut, Stems
<1> QED BY <1>2, <1>3

LEMMA StemIs == ASSUME NEW name \in Stems PROVE name \in Nat /\ Cut(name) = name
  BY DEF Stems

LEMMA Count == Cardinality(Nodes) \in Nat /\ IsFiniteSet(Nodes)
  BY RamfsAssumption, FS_CardinalityType DEF RamfsAssumption

LEMMA LowestIs ==
    ASSUME NEW S, S \subseteq Nodes, S # {}
    PROVE  Lowest(S) \in S
<1>1. S \subseteq Nat
  BY NodeFacts
<1> QED BY <1>1, Least DEF Lowest

-----------------------------------------------------------------------------
(***************************************************************************)
(* The tree.  tab is what is at the addresses, in those that are nodes.    *)
(***************************************************************************)
Types == {NODE_FILE, NODE_DIR}

Records == [name : Stems, type : Types, parent : Nodes \cup {Null},
            kids : Seq(Nodes), data : Seq(Nat), size : Nat]

Typed(tab) ==
    /\ tab \in [Nodes -> Records]
    /\ \A n \in Nodes : /\ tab[n].size <= Len(tab[n].data)
                        /\ tab[n].type = NODE_DIR => tab[n].size = 0

(***************************************************************************)
(* How far down each node is.                                              *)
(***************************************************************************)
Ranks(tab, in, rank) ==
    /\ rank \in [Nodes -> Nat]
    /\ rank[Root] = 0
    /\ \A n \in in \ {Root} : rank[n] = rank[tab[n].parent] + 1

Listed(tab, in) ==
    \A n \in in \ {Root} :
        /\ tab[n].parent \in in
        /\ \E i \in 1..Len(tab[tab[n].parent].kids) : tab[tab[n].parent].kids[i] = n

Children(tab, in) ==
    \A d \in in : \A i \in 1..Len(tab[d].kids) :
        /\ tab[d].type = NODE_DIR
        /\ tab[d].kids[i] \in in /\ tab[tab[d].kids[i]].parent = d

Apart(tab, x, y) == x # y /\ (tab[x].name # tab[y].name \/ tab[x].name \in CutNames)

Named(tab, in) ==
    \A d \in in : \A i, j \in 1..Len(tab[d].kids) :
        i # j => Apart(tab, tab[d].kids[i], tab[d].kids[j])

Tree(tab, in) ==
    /\ Typed(tab) /\ in \subseteq Nodes
    /\ Root \in in /\ tab[Root].parent = Null /\ tab[Root].type = NODE_DIR
    /\ Listed(tab, in) /\ Children(tab, in) /\ Named(tab, in)
    /\ \E rank : Ranks(tab, in, rank)

LEMMA FieldTypes ==
    ASSUME NEW tab, Typed(tab), NEW n \in Nodes
    PROVE  /\ tab[n] \in Records
           /\ tab[n].name \in Stems /\ tab[n].name \in Nat
           /\ tab[n].type \in Types /\ tab[n].parent \in Nodes \cup {Null}
           /\ tab[n].kids \in Seq(Nodes) /\ tab[n].data \in Seq(Nat) /\ tab[n].size \in Nat
           /\ tab[n].size <= Len(tab[n].data) /\ Len(tab[n].kids) \in Nat /\ Len(tab[n].data) \in Nat
           /\ DOMAIN tab[n].kids = 1..Len(tab[n].kids) /\ DOMAIN tab = Nodes
           /\ \A i \in 1..Len(tab[n].kids) : tab[n].kids[i] \in Nodes
           /\ \A i \in 1..Len(tab[n].data) : tab[n].data[i] \in Nat
           /\ tab[n].type = NODE_DIR => tab[n].size = 0
<1>1. tab[n] \in Records
  BY DEF Typed
<1>2. tab[n].name \in Stems
  BY <1>1 DEF Records
<1>3. tab[n].name \in Nat
  BY <1>2, StemIs
<1> QED BY <1>1, <1>2, <1>3 DEF Records, Typed

LEMMA EmptyTree == Tree(Empty, {Root})
<1>1. Typed(Empty)
  <2>1. \A n \in Nodes : Empty[n] = NewNode(IF n = Root THEN NODE_DIR ELSE NODE_FILE, 0, Null)
    BY DEF Empty
  <2>2. \A t \in Types : NewNode(t, 0, Null) \in Records
    BY CutIs DEF NewNode, Records
  <2>3. \A t : NewNode(t, 0, Null).size = 0 /\ Len(NewNode(t, 0, Null).data) = 0
    BY DEF NewNode
  <2>5. \A n \in Nodes : \E t \in Types : Empty[n] = NewNode(t, 0, Null)
    BY <2>1 DEF Types
  <2>6. \A n \in Nodes : Empty[n] \in Records /\ Empty[n].size = 0 /\ Len(Empty[n].data) = 0
    BY <2>2, <2>3, <2>5
  <2>4. Empty \in [Nodes -> Records]
    <3>1. Empty = [n \in Nodes |-> Empty[n]]
      BY DEF Empty
    <3> QED BY <2>6, <3>1
  <2> QED BY <2>4, <2>6 DEF Typed
<1>2. Empty[Root] = NewNode(NODE_DIR, 0, Null)
  BY NodeFacts DEF Empty
<1>3. Empty[Root].parent = Null /\ Empty[Root].type = NODE_DIR /\ Len(Empty[Root].kids) = 0
  BY <1>2 DEF NewNode
<1>4. Ranks(Empty, {Root}, [n \in Nodes |-> 0])
  BY NodeFacts DEF Ranks
<1> QED BY <1>1, <1>3, <1>4, NodeFacts DEF Tree, Listed, Children, Named

LEMMA RootIsNoChild ==
    ASSUME NEW tab, NEW in, Tree(tab, in), NEW d \in in, NEW i \in 1..Len(tab[d].kids)
    PROVE  /\ tab[d].kids[i] \in in \ {Root} /\ tab[tab[d].kids[i]].parent = d
           /\ tab[d].type = NODE_DIR
<1>1. tab[d].type = NODE_DIR /\ tab[d].kids[i] \in in /\ tab[tab[d].kids[i]].parent = d
  BY DEF Tree, Children
<1>2. d # Null /\ tab[Root].parent = Null
  BY NodeFacts DEF Tree
<1> QED BY <1>1, <1>2

LEMMA ParentsAre ==
    ASSUME NEW tab, NEW in, Tree(tab, in), NEW n \in in
    PROVE  tab[n].parent = Null <=> n = Root
<1>1. n # Root => tab[n].parent \in in
  BY DEF Tree, Listed
<1> QED BY <1>1, NodeFacts DEF Tree

LEMMA KidsDiffer ==
    ASSUME NEW tab, NEW in, Tree(tab, in), NEW d \in in,
           NEW i \in 1..Len(tab[d].kids), NEW j \in 1..Len(tab[d].kids),
           tab[d].kids[i] = tab[d].kids[j]
    PROVE  i = j
  BY DEF Tree, Named, Apart

(***************************************************************************)
(* ramfs_find_child.                                                       *)
(***************************************************************************)
LEMMA ChildFound ==
    ASSUME NEW tab, Typed(tab), NEW d \in Nodes, NEW name
    PROVE  /\ FindChild(tab, d, name) = Null
              \/ \E i \in 1..Len(tab[d].kids) : /\ FindChild(tab, d, name) = tab[d].kids[i]
                                                /\ tab[tab[d].kids[i]].name = name
           /\ FindChild(tab, d, name) = Null /\ tab[d].type = NODE_DIR
                => \A i \in 1..Len(tab[d].kids) : tab[tab[d].kids[i]].name # name
<1> DEFINE hit == {i \in 1..Len(tab[d].kids) : tab[tab[d].kids[i]].name = name}
           at  == CHOOSE i \in hit : \A j \in hit : i <= j
<1>1. FindChild(tab, d, name)
        = IF tab[d].type # NODE_DIR \/ hit = {} THEN Null ELSE tab[d].kids[at]
  BY DEF FindChild
<1>2. hit # {} => at \in hit
  <2>1. hit \subseteq Nat
    BY FieldTypes
  <2> HIDE DEF hit
  <2> QED BY <2>1, Least
<1>3. \A i \in 1..Len(tab[d].kids) : tab[d].kids[i] # Null
  BY FieldTypes, NodeFacts
<1> HIDE DEF at
<1> QED BY <1>1, <1>2, <1>3

-----------------------------------------------------------------------------
(***************************************************************************)
(* node_alloc and the two calls that make a node.                          *)
(***************************************************************************)
IsCreated(tab, new, n, type, name, d) ==
    /\ Typed(new)
    /\ new[n].name = name /\ new[n].type = type /\ new[n].parent = d
    /\ new[n].kids = << >> /\ new[n].data = << >> /\ new[n].size = 0
    /\ \A x \in Nodes \ {n} : /\ new[x].name = tab[x].name /\ new[x].type = tab[x].type
                              /\ new[x].parent = tab[x].parent
                              /\ new[x].data = tab[x].data /\ new[x].size = tab[x].size
    /\ \A x \in Nodes \ {n, d} : new[x] = tab[x]
    /\ Len(new[d].kids) = Len(tab[d].kids) + 1
    /\ new[d].kids[1] = n
    /\ \A i \in 1..Len(tab[d].kids) : new[d].kids[i + 1] = tab[d].kids[i]
    /\ \A i \in 2..(Len(tab[d].kids) + 1) : new[d].kids[i] = tab[d].kids[i - 1]

LEMMA CreatedFields ==
    ASSUME NEW tab, Typed(tab), NEW n \in Nodes, NEW d \in Nodes, n # d,
           NEW name \in Nat, NEW type \in Types
    PROVE  IsCreated(tab, Created(tab, n, type, name, d), n, type, Cut(name), d)
<1> DEFINE new == Created(tab, n, type, name, d)
           old == tab[d]
           more == InFront(n, tab[d].kids)
<1>0. /\ old \in Records /\ tab \in [Nodes -> Records] /\ old.kids \in Seq(Nodes)
      /\ old.size <= Len(old.data) /\ (old.type = NODE_DIR => old.size = 0)
  BY FieldTypes DEF Typed
<1>1. /\ more \in Seq(Nodes) /\ Len(more) = Len(old.kids) + 1 /\ more[1] = n
      /\ \A i \in 1..Len(old.kids) : more[i + 1] = old.kids[i]
      /\ \A i \in 2..(Len(old.kids) + 1) : more[i] = old.kids[i - 1]
  BY <1>0 DEF InFront
<1>2. /\ new = [[tab EXCEPT ![n] = NewNode(type, name, d)] EXCEPT ![d] = [old EXCEPT !.kids = more]]
      /\ DOMAIN tab = Nodes
  BY <1>0 DEF Created
<1> HIDE DEF more
<1>3. NewNode(type, name, d) \in Records
  BY CutIs DEF NewNode, Records
<1>4. /\ new[n] = NewNode(type, name, d) /\ new[d] = [old EXCEPT !.kids = more]
      /\ \A x \in Nodes \ {n, d} : new[x] = tab[x]
      /\ DOMAIN new = Nodes /\ new = [x \in Nodes |-> new[x]]
  BY <1>2
<1> HIDE DEF new
<1>5. /\ new[d] \in Records /\ new[d].kids = more /\ new[d].name = old.name /\ new[d].type = old.type
      /\ new[d].parent = old.parent /\ new[d].data = old.data /\ new[d].size = old.size
  BY <1>0, <1>1, <1>4 DEF Records
<1>6. /\ new[n].name = Cut(name) /\ new[n].type = type /\ new[n].parent = d
      /\ new[n].kids = << >> /\ new[n].data = << >> /\ new[n].size = 0
  BY <1>4 DEF NewNode
<1>7. Typed(new)
  <2>1. \A x \in Nodes : new[x] \in Records
    BY <1>0, <1>3, <1>4, <1>5
  <2>2. new \in [Nodes -> Records]
    BY <2>1, <1>4
  <2>3. \A x \in Nodes : new[x].size <= Len(new[x].data) /\ (new[x].type = NODE_DIR => new[x].size = 0)
    <3> TAKE x \in Nodes
    <3>1. CASE x = n
      BY <3>1, <1>6
    <3>2. CASE x = d
      BY <3>2, <1>0, <1>5
    <3>3. CASE x \notin {n, d}
      BY <3>3, <1>4 DEF Typed
    <3> QED BY <3>1, <3>2, <3>3
  <2> QED BY <2>2, <2>3 DEF Typed
<1> HIDE DEF old
<1>8. \A x \in Nodes \ {n} : /\ new[x].name = tab[x].name /\ new[x].type = tab[x].type
                             /\ new[x].parent = tab[x].parent
                             /\ new[x].data = tab[x].data /\ new[x].size = tab[x].size
  <2> TAKE x \in Nodes \ {n}
  <2>1. CASE x = d
    BY <2>1, <1>5 DEF old
  <2>2. CASE x # d
    BY <2>2, <1>4
  <2> QED BY <2>1, <2>2
<1>9. /\ Len(new[d].kids) = Len(tab[d].kids) + 1 /\ new[d].kids[1] = n
      /\ \A i \in 1..Len(tab[d].kids) : new[d].kids[i + 1] = tab[d].kids[i]
      /\ \A i \in 2..(Len(tab[d].kids) + 1) : new[d].kids[i] = tab[d].kids[i - 1]
  BY <1>1, <1>5 DEF old
<1>10. IsCreated(tab, new, n, type, Cut(name), d)
  BY <1>4, <1>6, <1>7, <1>8, <1>9 DEF IsCreated
<1> QED BY <1>10 DEF new

LEMMA CreatedTree ==
    ASSUME NEW tab, NEW in, Tree(tab, in), NEW n \in Nodes \ in, NEW d \in in,
           NEW name \in Nat, NEW type \in Types,
           tab[d].type = NODE_DIR, FindChild(tab, d, name) = Null
    PROVE  Tree(Created(tab, n, type, name, d), in \cup {n})
<1> DEFINE new == Created(tab, n, type, name, d)
           now == in \cup {n}
           L == Len(tab[d].kids)
<1>0. /\ Typed(tab) /\ in \subseteq Nodes /\ d \in Nodes /\ n \in Nodes /\ n # d /\ n # Root /\ d # n
      /\ Root \in in /\ tab[Root].parent = Null /\ tab[Root].type = NODE_DIR /\ L \in Nat
  BY FieldTypes DEF Tree
<1>10. IsCreated(tab, new, n, type, Cut(name), d)
  BY <1>0, CreatedFields
<1> HIDE DEF new
<1>1. /\ Typed(new)
      /\ new[n].name = Cut(name) /\ new[n].type = type /\ new[n].parent = d
      /\ new[n].kids = << >>
      /\ \A x \in Nodes \ {n} : /\ new[x].name = tab[x].name /\ new[x].type = tab[x].type
                                /\ new[x].parent = tab[x].parent
      /\ \A x \in Nodes \ {n, d} : new[x] = tab[x]
      /\ Len(new[d].kids) = L + 1 /\ new[d].kids[1] = n
      /\ \A i \in 1..L : new[d].kids[i + 1] = tab[d].kids[i]
      /\ \A i \in 2..(L + 1) : new[d].kids[i] = tab[d].kids[i - 1]
  BY <1>10 DEF IsCreated
<1>2. \A x \in in : x \in Nodes \ {n}
  BY <1>0
<1>3. Listed(new, now)
  <2> SUFFICES ASSUME NEW x \in now \ {Root}
               PROVE  /\ new[x].parent \in now
                      /\ \E i \in 1..Len(new[new[x].parent].kids) : new[new[x].parent].kids[i] = x
    BY DEF Listed
  <2>1. CASE x = n
    BY <2>1, <1>0, <1>1
  <2>2. CASE x # n
    <3>1. x \in in \ {Root}
      BY <2>2
    <3>2. PICK i \in 1..Len(tab[tab[x].parent].kids) : tab[tab[x].parent].kids[i] = x
      BY <3>1 DEF Tree, Listed
    <3>3. tab[x].parent \in in /\ new[x].parent = tab[x].parent
      BY <3>1, <1>1, <1>2 DEF Tree, Listed
    <3>4. CASE tab[x].parent = d
      <4>1. i \in 1..L /\ i + 1 \in 1..(L + 1)
        BY <3>2, <3>4, <1>0
      <4> QED BY <3>2, <3>3, <3>4, <4>1, <1>1
    <3>5. CASE tab[x].parent # d
      <4>1. new[tab[x].parent] = tab[tab[x].parent]
        BY <3>3, <3>5, <1>1, <1>2
      <4> QED BY <3>2, <3>3, <4>1
    <3> QED BY <3>4, <3>5
  <2> QED BY <2>1, <2>2
<1>4. \A x \in now : \A i \in 1..Len(new[x].kids) :
        /\ x # n /\ x \in in
        /\ x = d /\ i = 1 => new[x].kids[i] = n
        /\ x = d /\ i # 1 => i - 1 \in 1..L /\ new[x].kids[i] = tab[d].kids[i - 1]
        /\ x # d => new[x].kids = tab[x].kids
  BY <1>0, <1>1, <1>2
<1>5. \A x \in in : \A i \in 1..Len(tab[x].kids) :
        tab[x].type = NODE_DIR /\ tab[x].kids[i] \in in /\ tab[tab[x].kids[i]].parent = x
  BY DEF Tree, Children
<1>6. Children(new, now)
  <2> SUFFICES ASSUME NEW x \in now, NEW i \in 1..Len(new[x].kids)
               PROVE  new[x].type = NODE_DIR /\ new[x].kids[i] \in now /\ new[new[x].kids[i]].parent = x
    BY DEF Children
  <2>1. x \in in /\ x # n /\ new[x].type = tab[x].type
    BY <1>1, <1>2, <1>4
  <2>2. CASE x = d /\ i = 1
    BY <2>1, <2>2, <1>0, <1>1, <1>4
  <2>3. CASE x = d /\ i # 1
    <3>1. i - 1 \in 1..L /\ new[x].kids[i] = tab[d].kids[i - 1]
      BY <2>3, <1>4
    <3>2. tab[d].kids[i - 1] \in in /\ tab[tab[d].kids[i - 1]].parent = d
      BY <3>1, <1>5
    <3> QED BY <2>1, <2>3, <3>1, <3>2, <1>0, <1>1, <1>2
  <2>4. CASE x # d
    <3>1. new[x].kids = tab[x].kids
      BY <2>4, <1>4
    <3>2. tab[x].type = NODE_DIR /\ tab[x].kids[i] \in in /\ tab[tab[x].kids[i]].parent = x
      BY <2>1, <3>1, <1>5
    <3> QED BY <2>1, <3>1, <3>2, <1>1, <1>2
  <2> QED BY <2>2, <2>3, <2>4
<1>7. Named(new, now)
  <2> SUFFICES ASSUME NEW x \in now, NEW i \in 1..Len(new[x].kids), NEW j \in 1..Len(new[x].kids), i # j
               PROVE  Apart(new, new[x].kids[i], new[x].kids[j])
    BY DEF Named
  <2>1. x \in in /\ x # n
    BY <1>4
  <2>2. CASE x # d
    <3>1. new[x].kids = tab[x].kids
      BY <2>2, <1>4
    <3>2. tab[x].kids[i] \in in /\ tab[x].kids[j] \in in
      BY <2>1, <3>1, <1>5
    <3>3. Apart(tab, tab[x].kids[i], tab[x].kids[j])
      BY <2>1, <3>1 DEF Tree, Named
    <3> QED BY <3>1, <3>2, <3>3, <1>1, <1>2 DEF Apart
  <2>3. CASE x = d
    <3>1. \A k \in 1..L : tab[tab[d].kids[k]].name # name
      BY ChildFound, <1>0
    <3>2. ASSUME NEW k \in 1..Len(new[x].kids), k # 1
          PROVE  /\ k - 1 \in 1..L /\ new[x].kids[k] = tab[d].kids[k - 1] /\ new[x].kids[k] # n
                 /\ new[new[x].kids[k]].name = tab[tab[d].kids[k - 1]].name
                 /\ new[new[x].kids[k]].name # name
      <4>1. k - 1 \in 1..L /\ new[x].kids[k] = tab[d].kids[k - 1]
        BY <2>3, <3>2, <1>4
      <4>2. tab[d].kids[k - 1] \in in
        BY <2>1, <2>3, <4>1, <1>5
      <4> QED BY <3>1, <4>1, <4>2, <1>1, <1>2
    <3>3. \A k, l \in 1..L : k # l => Apart(tab, tab[d].kids[k], tab[d].kids[l])
      BY DEF Tree, Named
    <3>4. new[x].kids[1] = n /\ new[n].name = Cut(name) /\ (Cut(name) # name => Cut(name) \in CutNames)
      BY <2>3, <1>1, CutIs
    <3>5. CASE i = 1
      BY <3>2, <3>4, <3>5 DEF Apart
    <3>6. CASE i # 1 /\ j = 1
      BY <3>2, <3>4, <3>6 DEF Apart
    <3>7. CASE i # 1 /\ j # 1
      <4>1. /\ i - 1 \in 1..L /\ new[x].kids[i] = tab[d].kids[i - 1]
            /\ new[new[x].kids[i]].name = tab[tab[d].kids[i - 1]].name
        BY <3>2, <3>7
      <4>2. /\ j - 1 \in 1..L /\ new[x].kids[j] = tab[d].kids[j - 1]
            /\ new[new[x].kids[j]].name = tab[tab[d].kids[j - 1]].name
        BY <3>2, <3>7
      <4>3. i - 1 # j - 1
        BY <1>0, <1>1, <2>3
      <4>4. Apart(tab, tab[d].kids[i - 1], tab[d].kids[j - 1])
        BY <3>3, <4>1, <4>2, <4>3
      <4> QED BY <4>1, <4>2, <4>4 DEF Apart
    <3> QED BY <3>5, <3>6, <3>7
  <2> QED BY <2>2, <2>3
<1>8. \E rank : Ranks(new, now, rank)
  <2>1. PICK rank : Ranks(tab, in, rank)
    BY DEF Tree
  <2> DEFINE more == [rank EXCEPT ![n] = rank[d] + 1]
  <2>2. more \in [Nodes -> Nat] /\ more[n] = rank[d] + 1 /\ \A x \in Nodes \ {n} : more[x] = rank[x]
    BY <2>1, <1>0 DEF Ranks
  <2> HIDE DEF more
  <2>3. ASSUME NEW x \in now \ {Root}
        PROVE  more[x] = more[new[x].parent] + 1
    <3>1. CASE x = n
      BY <3>1, <2>2, <1>0, <1>1
    <3>2. CASE x # n
      <4>1. x \in in \ {Root} /\ tab[x].parent \in in
        BY <3>2 DEF Tree, Listed
      <4> QED BY <2>1, <2>2, <4>1, <1>1, <1>2 DEF Ranks
    <3> QED BY <3>1, <3>2
  <2>4. Ranks(new, now, more)
    BY <2>1, <2>2, <2>3, <1>0 DEF Ranks
  <2> QED BY <2>4
<1>9. new[Root].parent = Null /\ new[Root].type = NODE_DIR /\ Root \in now /\ now \subseteq Nodes
  BY <1>0, <1>1, <1>2
<1> QED BY <1>1, <1>3, <1>6, <1>7, <1>8, <1>9 DEF Tree, new

-----------------------------------------------------------------------------
(***************************************************************************)
(* ramfs_unlink_node.                                                      *)
(***************************************************************************)
PlaceOf(kids, n) == CHOOSE i \in 1..Len(kids) : kids[i] = n

Removed(tab, n) ==
    LET dir == tab[n].parent
    IN  [tab EXCEPT ![dir].kids = Without(@, PlaceOf(tab[dir].kids, n)), ![n] = Empty[n]]

LEMMA WithoutIs ==
    ASSUME NEW S, NEW s \in Seq(S), NEW at \in 1..Len(s)
    PROVE  /\ Without(s, at) \in Seq(S) /\ Len(Without(s, at)) = Len(s) - 1
           /\ \A i \in 1..(Len(s) - 1) : /\ i < at => Without(s, at)[i] = s[i]
                                         /\ i >= at => Without(s, at)[i] = s[i + 1]
<1>1. Len(s) \in Nat /\ Len(s) - 1 \in Nat /\ \A i \in 1..Len(s) : s[i] \in S
  OBVIOUS
<1>2. \A i \in 1..(Len(s) - 1) : i \in 1..Len(s) /\ i + 1 \in 1..Len(s)
  BY <1>1
<1>3. \A i \in 1..(Len(s) - 1) : s[IF i < at THEN i ELSE i + 1] \in S
  BY <1>1, <1>2
<1> QED BY <1>1, <1>3 DEF Without

LEMMA RemovalFacts ==
    ASSUME NEW tab, NEW in, Tree(tab, in), NEW n \in in, tab[n].parent # Null,
           tab[n].type = NODE_DIR => tab[n].kids = << >>
    PROVE  /\ n # Root /\ tab[n].parent \in in /\ tab[n].parent # n
           /\ tab[tab[n].parent].type = NODE_DIR
           /\ Len(tab[n].kids) = 0
           /\ PlaceOf(tab[tab[n].parent].kids, n) \in 1..Len(tab[tab[n].parent].kids)
           /\ tab[tab[n].parent].kids[PlaceOf(tab[tab[n].parent].kids, n)] = n
           /\ \A i \in 1..Len(tab[tab[n].parent].kids) :
                tab[tab[n].parent].kids[i] = n => i = PlaceOf(tab[tab[n].parent].kids, n)
<1>1. n # Root /\ tab[n].parent \in in
  BY DEF Tree, Listed
<1>2. PICK i \in 1..Len(tab[tab[n].parent].kids) : tab[tab[n].parent].kids[i] = n
  BY <1>1 DEF Tree, Listed
<1>3. Len(tab[n].kids) = 0
  <2> SUFFICES ASSUME Len(tab[n].kids) # 0 PROVE FALSE
    OBVIOUS
  <2>1. 1 \in 1..Len(tab[n].kids)
    BY FieldTypes DEF Tree
  <2>2. tab[n].type = NODE_DIR
    BY <2>1, RootIsNoChild
  <2> QED BY <2>1, <2>2
<1>4. tab[n].parent # n
  BY <1>2, <1>3
<1>5. /\ PlaceOf(tab[tab[n].parent].kids, n) \in 1..Len(tab[tab[n].parent].kids)
      /\ tab[tab[n].parent].kids[PlaceOf(tab[tab[n].parent].kids, n)] = n
  BY <1>2 DEF PlaceOf
<1>6. tab[tab[n].parent].type = NODE_DIR
  BY <1>1, <1>2, RootIsNoChild
<1> QED BY <1>1, <1>3, <1>4, <1>5, <1>6, KidsDiffer

IsRemoved(tab, new, n, dir, at) ==
    /\ Typed(new)
    /\ new[n] = Empty[n]
    /\ \A x \in Nodes \ {n} : /\ new[x].name = tab[x].name /\ new[x].type = tab[x].type
                              /\ new[x].parent = tab[x].parent
                              /\ new[x].data = tab[x].data /\ new[x].size = tab[x].size
    /\ \A x \in Nodes \ {n, dir} : new[x] = tab[x]
    /\ Len(new[dir].kids) = Len(tab[dir].kids) - 1
    /\ \A i \in 1..(Len(tab[dir].kids) - 1) : /\ i < at => new[dir].kids[i] = tab[dir].kids[i]
                                              /\ i >= at => new[dir].kids[i] = tab[dir].kids[i + 1]

LEMMA RemovedFields ==
    ASSUME NEW tab, Typed(tab), NEW n \in Nodes, NEW dir \in Nodes, n # dir, dir = tab[n].parent,
           NEW at \in 1..Len(tab[dir].kids), at = PlaceOf(tab[dir].kids, n)
    PROVE  IsRemoved(tab, Removed(tab, n), n, dir, at)
<1> DEFINE new == Removed(tab, n)
           old == tab[dir]
           less == Without(tab[dir].kids, at)
<1>0. /\ old \in Records /\ tab \in [Nodes -> Records] /\ old.kids \in Seq(Nodes)
      /\ old.size <= Len(old.data) /\ (old.type = NODE_DIR => old.size = 0)
  BY FieldTypes DEF Typed
<1>1. /\ less \in Seq(Nodes) /\ Len(less) = Len(old.kids) - 1
      /\ \A i \in 1..(Len(old.kids) - 1) : /\ i < at => less[i] = old.kids[i]
                                           /\ i >= at => less[i] = old.kids[i + 1]
  BY <1>0, WithoutIs
<1>2. /\ new = [[tab EXCEPT ![dir] = [old EXCEPT !.kids = less]] EXCEPT ![n] = Empty[n]]
      /\ DOMAIN tab = Nodes
  BY <1>0 DEF Removed
<1> HIDE DEF less
<1>3. Typed(Empty) /\ Empty[n] \in Records /\ Empty[n].size <= Len(Empty[n].data)
      /\ (Empty[n].type = NODE_DIR => Empty[n].size = 0)
  BY EmptyTree, FieldTypes DEF Tree
<1>4. /\ new[n] = Empty[n] /\ new[dir] = [old EXCEPT !.kids = less]
      /\ \A x \in Nodes \ {n, dir} : new[x] = tab[x]
      /\ DOMAIN new = Nodes /\ new = [x \in Nodes |-> new[x]]
  BY <1>2
<1> HIDE DEF new
<1>5. /\ new[dir] \in Records /\ new[dir].kids = less /\ new[dir].name = old.name
      /\ new[dir].type = old.type
      /\ new[dir].parent = old.parent /\ new[dir].data = old.data /\ new[dir].size = old.size
  BY <1>0, <1>1, <1>4 DEF Records
<1>7. Typed(new)
  <2>1. \A x \in Nodes : new[x] \in Records
    BY <1>0, <1>3, <1>4, <1>5
  <2>2. new \in [Nodes -> Records]
    BY <2>1, <1>4
  <2>3. \A x \in Nodes : new[x].size <= Len(new[x].data) /\ (new[x].type = NODE_DIR => new[x].size = 0)
    <3> TAKE x \in Nodes
    <3>1. CASE x = n
      BY <3>1, <1>3, <1>4
    <3>2. CASE x = dir
      BY <3>2, <1>0, <1>5
    <3>3. CASE x \notin {n, dir}
      BY <3>3, <1>4 DEF Typed
    <3> QED BY <3>1, <3>2, <3>3
  <2> QED BY <2>2, <2>3 DEF Typed
<1> HIDE DEF old
<1>8. \A x \in Nodes \ {n} : /\ new[x].name = tab[x].name /\ new[x].type = tab[x].type
                             /\ new[x].parent = tab[x].parent
                             /\ new[x].data = tab[x].data /\ new[x].size = tab[x].size
  <2> TAKE x \in Nodes \ {n}
  <2>1. CASE x = dir
    BY <2>1, <1>5 DEF old
  <2>2. CASE x # dir
    BY <2>2, <1>4
  <2> QED BY <2>1, <2>2
<1>9. /\ Len(new[dir].kids) = Len(tab[dir].kids) - 1
      /\ \A i \in 1..(Len(tab[dir].kids) - 1) : /\ i < at => new[dir].kids[i] = tab[dir].kids[i]
                                                /\ i >= at => new[dir].kids[i] = tab[dir].kids[i + 1]
  BY <1>1, <1>5 DEF old
<1>10. IsRemoved(tab, new, n, dir, at)
  BY <1>4, <1>7, <1>8, <1>9 DEF IsRemoved
<1> QED BY <1>10 DEF new

LEMMA RemovedTree ==
    ASSUME NEW tab, NEW in, Tree(tab, in), NEW n \in in, tab[n].parent # Null,
           tab[n].type = NODE_DIR => tab[n].kids = << >>
    PROVE  Tree(Removed(tab, n), in \ {n})
<1> DEFINE new == Removed(tab, n)
           now == in \ {n}
           d  == tab[n].parent
           L  == Len(tab[d].kids)
           at == PlaceOf(tab[d].kids, n)
<1>0. /\ n # Root /\ d \in in /\ d # n /\ tab[d].type = NODE_DIR
      /\ at \in 1..L /\ \A i \in 1..L : tab[d].kids[i] = n <=> i = at
  BY RemovalFacts
<1>1. /\ Typed(tab) /\ in \subseteq Nodes /\ d \in Nodes /\ n \in Nodes
      /\ Root \in in /\ tab[Root].parent = Null /\ tab[Root].type = NODE_DIR /\ L \in Nat
  BY <1>0, FieldTypes DEF Tree
<1>2. IsRemoved(tab, new, n, d, at)
  BY <1>0, <1>1, RemovedFields
<1> HIDE DEF new, at, d
<1>3. /\ Typed(new)
      /\ \A x \in Nodes \ {n} : /\ new[x].name = tab[x].name /\ new[x].type = tab[x].type
                                /\ new[x].parent = tab[x].parent
      /\ \A x \in Nodes \ {n, d} : new[x] = tab[x]
      /\ Len(new[d].kids) = L - 1
      /\ \A i \in 1..(L - 1) : /\ i < at => new[d].kids[i] = tab[d].kids[i]
                               /\ i >= at => new[d].kids[i] = tab[d].kids[i + 1]
  BY <1>2 DEF IsRemoved
<1>4. \A x \in now : x \in Nodes \ {n} /\ x \in in
  BY <1>1
<1>5. \A x \in now : \A i \in 1..Len(new[x].kids) :
        \E j \in 1..Len(tab[x].kids) :
            /\ new[x].kids[i] = tab[x].kids[j] /\ new[x].kids[i] # n
            /\ j = IF x = d /\ i >= at THEN i + 1 ELSE i
  <2> TAKE x \in now
  <2> TAKE i \in 1..Len(new[x].kids)
  <2>1. CASE x = d
    <3>1. i \in 1..(L - 1) /\ i \in Nat
      BY <2>1, <1>1, <1>3
    <3> DEFINE j == IF i >= at THEN i + 1 ELSE i
    <3>2. j \in 1..L /\ j # at /\ new[d].kids[i] = tab[d].kids[j]
      BY <3>1, <1>0, <1>1, <1>3
    <3>3. tab[d].kids[j] # n
      BY <3>2, <1>0
    <3> QED BY <2>1, <3>2, <3>3
  <2>2. CASE x # d
    <3>1. new[x].kids = tab[x].kids
      BY <2>2, <1>3, <1>4
    <3>2. tab[tab[x].kids[i]].parent = x
      BY <3>1, <1>4, RootIsNoChild
    <3> QED BY <2>2, <3>1, <3>2 DEF d
  <2> QED BY <2>1, <2>2
<1>6. Listed(new, now)
  <2> SUFFICES ASSUME NEW x \in now \ {Root}
               PROVE  /\ new[x].parent \in now
                      /\ \E i \in 1..Len(new[new[x].parent].kids) : new[new[x].parent].kids[i] = x
    BY DEF Listed
  <2>1. x \in in \ {Root} /\ x # n /\ x \in Nodes \ {n}
    BY <1>4
  <2>2. tab[x].parent \in in
    BY <2>1 DEF Tree, Listed
  <2>3. PICK i \in 1..Len(tab[tab[x].parent].kids) : tab[tab[x].parent].kids[i] = x
    BY <2>1 DEF Tree, Listed
  <2>4. tab[x].parent # n
    <3> SUFFICES ASSUME tab[x].parent = n PROVE FALSE
      OBVIOUS
    <3>1. Len(tab[n].kids) = 0
      BY RemovalFacts
    <3> QED BY <2>3, <3>1
  <2>5. new[x].parent = tab[x].parent /\ tab[x].parent \in now
    BY <2>1, <2>2, <2>4, <1>3
  <2>6. CASE tab[x].parent # d
    <3>1. new[tab[x].parent] = tab[tab[x].parent]
      BY <2>5, <2>6, <1>3, <1>4
    <3> QED BY <2>3, <2>5, <3>1
  <2>7. CASE tab[x].parent = d
    <3>1. i \in 1..L /\ tab[d].kids[i] = x /\ i # at
      BY <2>1, <2>3, <2>7, <1>0
    <3>0. L \in Nat /\ at \in 1..L
      BY <1>0, <1>1
    <3> HIDE DEF L
    <3>2. \E j \in 1..(L - 1) : new[d].kids[j] = x
      <4>1. CASE i > at
        <5>1. i - 1 \in 1..(L - 1) /\ i - 1 >= at /\ (i - 1) + 1 = i
          BY <3>0, <3>1, <4>1
        <5>2. new[d].kids[i - 1] = tab[d].kids[(i - 1) + 1]
          BY <5>1, <1>3
        <5> QED BY <3>1, <5>1, <5>2
      <4>2. CASE ~(i > at)
        <5>1. i \in 1..(L - 1) /\ i < at
          BY <3>0, <3>1, <4>2
        <5>2. new[d].kids[i] = tab[d].kids[i]
          BY <5>1, <1>3
        <5> QED BY <3>1, <5>1, <5>2
      <4> QED BY <4>1, <4>2
    <3>3. Len(new[d].kids) = L - 1 /\ new[x].parent = d
      BY <2>5, <2>7, <1>3
    <3>4. \E j \in 1..Len(new[d].kids) : new[d].kids[j] = x
      BY <3>2, <3>3
    <3> QED BY <2>5, <3>3, <3>4, Zenon
  <2> QED BY <2>6, <2>7
<1>7. Children(new, now)
  <2> SUFFICES ASSUME NEW x \in now, NEW i \in 1..Len(new[x].kids)
               PROVE  new[x].type = NODE_DIR /\ new[x].kids[i] \in now /\ new[new[x].kids[i]].parent = x
    BY DEF Children
  <2>1. PICK j \in 1..Len(tab[x].kids) : new[x].kids[i] = tab[x].kids[j] /\ new[x].kids[i] # n
    BY <1>5
  <2>2. tab[x].kids[j] \in in /\ tab[tab[x].kids[j]].parent = x /\ tab[x].type = NODE_DIR
    BY <1>4, RootIsNoChild
  <2> QED BY <2>1, <2>2, <1>3, <1>4
<1>8. Named(new, now)
  <2> SUFFICES ASSUME NEW x \in now, NEW i \in 1..Len(new[x].kids), NEW j \in 1..Len(new[x].kids), i # j
               PROVE  Apart(new, new[x].kids[i], new[x].kids[j])
    BY DEF Named
  <2>1. PICK k \in 1..Len(tab[x].kids) :
            /\ new[x].kids[i] = tab[x].kids[k] /\ new[x].kids[i] # n
            /\ k = IF x = d /\ i >= at THEN i + 1 ELSE i
    BY <1>5
  <2>2. PICK l \in 1..Len(tab[x].kids) :
            /\ new[x].kids[j] = tab[x].kids[l] /\ new[x].kids[j] # n
            /\ l = IF x = d /\ j >= at THEN j + 1 ELSE j
    BY <1>5
  <2>3. i \in Nat /\ j \in Nat /\ at \in Nat
    BY <1>0
  <2>4. k # l
    BY <2>1, <2>2, <2>3
  <2>5. Apart(tab, tab[x].kids[k], tab[x].kids[l])
    BY <2>4, <1>4 DEF Tree, Named
  <2>6. tab[x].kids[k] \in Nodes \ {n} /\ tab[x].kids[l] \in Nodes \ {n}
    BY <2>1, <2>2, <1>4, FieldTypes, <1>1
  <2>7. /\ new[tab[x].kids[k]].name = tab[tab[x].kids[k]].name
        /\ new[tab[x].kids[l]].name = tab[tab[x].kids[l]].name
    BY <2>6, <1>3
  <2>8. new[x].kids[i] = tab[x].kids[k] /\ new[x].kids[j] = tab[x].kids[l]
    BY <2>1, <2>2
  <2> QED BY <2>5, <2>7, <2>8 DEF Apart
<1>9. \E rank : Ranks(new, now, rank)
  <2>1. PICK rank : Ranks(tab, in, rank)
    BY DEF Tree
  <2>2. Ranks(new, now, rank)
    BY <2>1, <1>3, <1>4 DEF Ranks
  <2> QED BY <2>2
<1>10. new[Root].parent = Null /\ new[Root].type = NODE_DIR /\ Root \in now /\ now \subseteq Nodes
  BY <1>0, <1>1, <1>3, <1>4
<1> QED BY <1>3, <1>6, <1>7, <1>8, <1>9, <1>10 DEF Tree, new

(***************************************************************************)
(* Calls that only touch what is in files leave the tree as it is.         *)
(***************************************************************************)
SameShape(tab, new) ==
    \A x \in Nodes : /\ new[x].name = tab[x].name /\ new[x].type = tab[x].type
                     /\ new[x].parent = tab[x].parent /\ new[x].kids = tab[x].kids

LEMMA ShapeKept ==
    ASSUME NEW tab, NEW in, Tree(tab, in), NEW new, Typed(new), SameShape(tab, new)
    PROVE  Tree(new, in)
<1>0. in \subseteq Nodes
  BY DEF Tree
<1>1. \A x \in in : /\ new[x].name = tab[x].name /\ new[x].type = tab[x].type
                    /\ new[x].parent = tab[x].parent /\ new[x].kids = tab[x].kids
  BY <1>0 DEF SameShape
<1>2. Listed(new, in)
  BY <1>1 DEF Tree, Listed
<1>3. Children(new, in)
  BY <1>1 DEF Tree, Children
<1>4. Named(new, in)
  <2> SUFFICES ASSUME NEW d \in in, NEW i \in 1..Len(tab[d].kids), NEW j \in 1..Len(tab[d].kids), i # j
               PROVE  Apart(new, tab[d].kids[i], tab[d].kids[j])
    BY <1>1 DEF Named
  <2>1. tab[d].kids[i] \in in /\ tab[d].kids[j] \in in
    BY RootIsNoChild
  <2>2. Apart(tab, tab[d].kids[i], tab[d].kids[j])
    BY Zenon DEF Tree, Named
  <2>3. PICK x \in in : x = tab[d].kids[i]
    BY <2>1
  <2>4. PICK y \in in : y = tab[d].kids[j]
    BY <2>1
  <2>5. Apart(tab, x, y) /\ new[x].name = tab[x].name /\ new[y].name = tab[y].name
    BY <1>1, <2>2, <2>3, <2>4, Zenon
  <2>6. Apart(new, x, y)
    BY <2>5, Zenon DEF Apart
  <2> QED BY <2>3, <2>4, <2>6, Zenon
<1>5. \E rank : Ranks(new, in, rank)
  <2>1. PICK rank : Ranks(tab, in, rank)
    BY DEF Tree
  <2>2. Ranks(new, in, rank)
    BY <2>1, <1>1 DEF Ranks
  <2> QED BY <2>2
<1> QED BY <1>0, <1>1, <1>2, <1>3, <1>4, <1>5 DEF Tree

-----------------------------------------------------------------------------
(***************************************************************************)
(* Sequences put one after the other: off[i] units are in front of the     *)
(* one after the i-th.                                                     *)
(***************************************************************************)
Placed(off, seqs, n, flat) ==
    /\ off \in [0..n -> Nat] /\ off[0] = 0 /\ Len(flat) = off[n]
    /\ \A i \in 1..n : off[i] = off[i - 1] + Len(seqs[i])
    /\ \A i \in 1..n : \A j \in 1..Len(seqs[i]) :
            off[i - 1] + j \in 1..Len(flat) /\ flat[off[i - 1] + j] = seqs[i][j]

LEMMA FlatIs ==
    ASSUME NEW n \in Nat, NEW seqs, seqs \in [1..n -> Seq(Nat)]
    PROVE  /\ Flat(seqs) \in Seq(Nat)
           /\ \E off : Placed(off, seqs, n, Flat(seqs))
<1> DEFINE T == Seq(Nat)
           h == [k \in 1..n |-> [s \in T |-> s \o seqs[k]]]
           E(g) == [i \in 0..n |-> IF i = 0 THEN << >> ELSE g[i - 1] \o seqs[i]]
           joined == CHOOSE g : g = E(g)
<1>0. seqs \in Seq(T) /\ Len(seqs) = n /\ \A i \in 1..n : seqs[i] \in T
  OBVIOUS
<1>1. h \in [1..n -> [T -> T]]
  <2>1. \A k \in 1..n, s \in T : s \o seqs[k] \in T
    BY <1>0
  <2> QED BY <2>1
<1>2. PICK g : Iterates(g, T, << >>, h, n)
  <2>1. << >> \in T
    OBVIOUS
  <2> HIDE DEF h, T
  <2> QED BY <1>1, <2>1, IterateExists
<1>3. g = E(g)
  <2>0. \A i \in 1..n, x \in T : h[i][x] = x \o seqs[i]
    OBVIOUS
  <2> HIDE DEF h, T
  <2>1. \A i \in 1..n : g[i - 1] \in T /\ g[i] = h[i][g[i - 1]]
    BY <1>2 DEF Iterates
  <2>2. \A i \in 1..n : g[i] = g[i - 1] \o seqs[i]
    BY <2>0, <2>1
  <2>3. g = [i \in 0..n |-> g[i]] /\ g[0] = << >>
    BY <1>2 DEF Iterates
  <2>4. \A i \in 0..n : g[i] = IF i = 0 THEN << >> ELSE g[i - 1] \o seqs[i]
    <3>1. g[0] = << >> /\ \A i \in 0..n : i = 0 \/ i \in 1..n
      BY <2>3
    <3> QED BY <2>2, <3>1
  <2> QED BY <2>3, <2>4
<1>4. joined = E(joined)
  <2> HIDE DEF E
  <2> QED BY <1>3
<1>5. Flat(seqs) = joined[n]
  BY <1>0 DEF Flat
<1> HIDE DEF joined
<1>6. joined[0] = << >> /\ \A i \in 1..n : joined[i] = joined[i - 1] \o seqs[i]
  <2> DEFINE Cat(s, i) == s \o seqs[i]
  <2>1. joined = [i \in 0..n |-> IF i = 0 THEN << >> ELSE Cat(joined[i - 1], i)]
    BY <1>4
  <2> HIDE DEF Cat
  <2>2. joined[0] = << >> /\ \A i \in 1..n : joined[i] = Cat(joined[i - 1], i)
    BY <2>1
  <2> QED BY <2>2 DEF Cat
<1> DEFINE off == [i \in 0..n |-> Len(joined[i])]
           Q(i) == /\ joined[i] \in T
                   /\ \A a \in 1..i : \A j \in 1..Len(seqs[a]) :
                        off[a - 1] + j \in 1..Len(joined[i]) /\ joined[i][off[a - 1] + j] = seqs[a][j]
           S == {i \in Nat : Q(i)}
<1>7. 0 \in S
  <2>1. joined[0] \in T /\ 1..0 = {}
    BY <1>6
  <2> QED BY <2>1
<1>8. ASSUME NEW i \in 1..n, i - 1 \in S PROVE i \in S
  <2>0. i \in Nat /\ i - 1 \in 0..n /\ Len(joined[i - 1]) \in Nat /\ off[i - 1] = Len(joined[i - 1])
        /\ joined[i - 1] \in T /\ seqs[i] \in T /\ Len(seqs[i]) \in Nat
    BY <1>0, <1>8
  <2>1. joined[i] = joined[i - 1] \o seqs[i]
    BY <1>6
  <2>2. /\ joined[i] \in T /\ Len(joined[i]) = Len(joined[i - 1]) + Len(seqs[i])
        /\ \A x \in 1..Len(joined[i - 1]) : x \in 1..Len(joined[i]) /\ joined[i][x] = joined[i - 1][x]
        /\ \A j \in 1..Len(seqs[i]) : /\ Len(joined[i - 1]) + j \in 1..Len(joined[i])
                                      /\ joined[i][Len(joined[i - 1]) + j] = seqs[i][j]
    BY <2>0, <2>1
  <2>3. ASSUME NEW a \in 1..i, NEW j \in 1..Len(seqs[a])
        PROVE  off[a - 1] + j \in 1..Len(joined[i]) /\ joined[i][off[a - 1] + j] = seqs[a][j]
    <3>1. CASE a = i
      BY <2>0, <2>2, <3>1
    <3>2. CASE a # i
      <4>1. a \in 1..(i - 1)
        BY <3>2
      <4>2. off[a - 1] + j \in 1..Len(joined[i - 1]) /\ joined[i - 1][off[a - 1] + j] = seqs[a][j]
        BY <1>8, <4>1
      <4> QED BY <2>2, <4>2
    <3> QED BY <3>1, <3>2
  <2> QED BY <2>0, <2>2, <2>3
<1>9. 0..n \subseteq S
  <2> HIDE DEF S
  <2> QED BY <1>7, <1>8, UpTo
<1>10. Q(n) /\ \A i \in 0..n : joined[i] \in T
  BY <1>9
<1>11. off \in [0..n -> Nat] /\ off[0] = 0
  BY <1>6, <1>10
<1>12. \A i \in 1..n : off[i] = off[i - 1] + Len(seqs[i])
  <2> TAKE i \in 1..n
  <2>1. i \in 0..n /\ i - 1 \in 0..n /\ joined[i - 1] \in T /\ seqs[i] \in T
        /\ joined[i] = joined[i - 1] \o seqs[i]
    <3>1. i \in 0..n /\ i - 1 \in 0..n
      OBVIOUS
    <3>2. joined[i] = joined[i - 1] \o seqs[i]
      BY <1>6
    <3> QED BY <1>0, <1>10, <3>1, <3>2
  <2>2. Len(joined[i]) = Len(joined[i - 1]) + Len(seqs[i])
    BY <2>1
  <2> QED BY <2>1, <2>2
<1>13. Placed(off, seqs, n, joined[n])
  <2>1. off[n] = Len(joined[n])
    OBVIOUS
  <2> HIDE DEF off, T
  <2> QED BY <1>10, <1>11, <1>12, <2>1 DEF Placed
<1> HIDE DEF off
<1> QED BY <1>5, <1>10, <1>13

-----------------------------------------------------------------------------
(***************************************************************************)
(* ramfs_lookup stays in the tree.                                         *)
(***************************************************************************)
LEMMA StepStays ==
    ASSUME Tree(node, live), NEW x \in live \cup {Null}, NEW c
    PROVE  Step(x, c) \in live \cup {Null}
<1>0. Typed(node) /\ live \subseteq Nodes
  BY DEF Tree
<1>1. CASE x = Null
  BY <1>1 DEF Step
<1>2. CASE x # Null /\ c # Up
  <2>1. x \in live /\ x \in Nodes /\ Step(x, c) = FindChild(node, x, c)
    BY <1>0, <1>2 DEF Step
  <2>2. CASE FindChild(node, x, c) = Null
    BY <2>1, <2>2
  <2>3. CASE \E i \in 1..Len(node[x].kids) : FindChild(node, x, c) = node[x].kids[i]
    BY <2>1, <2>3, RootIsNoChild
  <2> QED BY <1>0, <2>1, <2>2, <2>3, ChildFound
<1>3. CASE x # Null /\ c = Up
  <2>1. x \in live /\ Step(x, c) = IF node[x].parent = Null THEN x ELSE node[x].parent
    BY <1>3 DEF Step
  <2>2. x # Root => node[x].parent \in live
    BY <2>1 DEF Tree, Listed
  <2> QED BY <2>1, <2>2, ParentsAre
<1> QED BY <1>1, <1>2, <1>3

LEMMA WalkStays ==
    ASSUME Tree(node, live), NEW p, Start(p) \in live, NEW steps, Len(steps) \in Nat
    PROVE  Walk(p, steps) \in live \cup {Null}
<1> DEFINE n == Len(steps)
           T == live \cup {Null}
           h == [k \in 1..n |-> [x \in T |-> Step(x, steps[k])]]
           E(g) == [i \in 0..n |-> IF i = 0 THEN Start(p) ELSE Step(g[i - 1], steps[i])]
           at == CHOOSE g : g = E(g)
<1>1. h \in [1..n -> [T -> T]]
  BY StepStays
<1>2. PICK g : Iterates(g, T, Start(p), h, n)
  <2> HIDE DEF h, T
  <2>1. Start(p) \in T
    BY DEF T
  <2> QED BY <1>1, <2>1, IterateExists
<1>3. g = E(g)
  <2>0. \A i \in 1..n, x \in T : h[i][x] = Step(x, steps[i])
    OBVIOUS
  <2> HIDE DEF h, T
  <2>1. \A i \in 1..n : g[i - 1] \in T /\ g[i] = h[i][g[i - 1]]
    BY <1>2 DEF Iterates
  <2>2. \A i \in 1..n : g[i] = Step(g[i - 1], steps[i])
    BY <2>0, <2>1
  <2>3. g = [i \in 0..n |-> g[i]] /\ g[0] = Start(p)
    BY <1>2 DEF Iterates
  <2>4. \A i \in 0..n : g[i] = IF i = 0 THEN Start(p) ELSE Step(g[i - 1], steps[i])
    <3>1. g[0] = Start(p) /\ \A i \in 0..n : i = 0 \/ i \in 1..n
      BY <2>3
    <3> QED BY <2>2, <3>1
  <2> QED BY <2>3, <2>4
<1>4. at = E(at)
  <2> HIDE DEF E
  <2> QED BY <1>3
<1>5. Walk(p, steps) = at[n]
  BY DEF Walk
<1> HIDE DEF at
<1>6. at[0] = Start(p) /\ \A i \in 1..n : at[i] = Step(at[i - 1], steps[i])
  BY <1>4
<1> DEFINE S == {i \in Nat : at[i] \in T}
<1>7. 0 \in S
  BY <1>6
<1>8. \A i \in 1..n : i - 1 \in S => i \in S
  BY <1>6, StepStays
<1>9. 0..n \subseteq S
  <2> HIDE DEF S
  <2> QED BY <1>7, <1>8, UpTo
<1> QED BY <1>5, <1>9

LEMMA StepsAre == ASSUME NEW comps \in Seq(Names) PROVE Len(Steps(comps)) \in Nat
<1> DEFINE seqs == [i \in 1..Len(comps) |-> Pieces[comps[i]]]
<1>1. Names \subseteq Nat /\ Pieces \in [Names -> Seq(Names)] /\ Len(comps) \in Nat
  BY RamfsAssumption DEF RamfsAssumption
<1>2. ASSUME NEW i \in 1..Len(comps) PROVE Pieces[comps[i]] \in Seq(Nat)
  <2>1. comps[i] \in Names
    OBVIOUS
  <2>2. PICK s \in Seq(Names) : s = Pieces[comps[i]]
    BY <1>1, <2>1
  <2>3. Len(s) \in Nat /\ s \in [1..Len(s) -> Names]
    OBVIOUS
  <2>4. s \in [1..Len(s) -> Nat]
    BY <1>1, <2>3
  <2> QED BY <2>2, <2>3, <2>4
<1>3. seqs \in [1..Len(comps) -> Seq(Nat)]
  BY <1>2
<1>4. Steps(comps) = Flat(seqs)
  BY DEF Steps
<1> HIDE DEF seqs
<1>5. Flat(seqs) \in Seq(Nat)
  BY <1>1, <1>3, FlatIs
<1> QED BY <1>4, <1>5

LEMMA FrontIs ==
    ASSUME NEW S, NEW s \in Seq(S), Len(s) > 0
    PROVE  /\ Front(s) \in Seq(S) /\ Len(Front(s)) = Len(s) - 1
           /\ \A i \in 1..(Len(s) - 1) : Front(s)[i] = s[i]
<1>1. Len(s) \in Nat /\ Len(s) - 1 \in Nat /\ \A i \in 1..Len(s) : s[i] \in S
  OBVIOUS
<1>2. Front(s) = [i \in 1..(Len(s) - 1) |-> s[i]]
  BY <1>1 DEF Front
<1>3. \A i \in 1..(Len(s) - 1) : s[i] \in S
  BY <1>1
<1> QED BY <1>1, <1>2, <1>3

LEMMA LookupStays ==
    ASSUME Tree(node, live), NEW p \in FilePaths \cup DirPaths, p.abs \/ cwd \in live
    PROVE  /\ Lookup(p) \in live \cup {Null} /\ ParentOf(p) \in live \cup {Null}
           /\ Last(p.comps) \in Names
<1>1. p.comps \in Seq(Names) /\ p.comps # << >>
  BY RamfsAssumption DEF RamfsAssumption
<1>2. Front(p.comps) \in Seq(Names) /\ Last(p.comps) \in Names
  BY <1>1, FrontIs DEF Last
<1>3. Start(p) \in live
  BY DEF Start, Tree
<1>4. Len(Steps(p.comps)) \in Nat /\ Len(Steps(Front(p.comps))) \in Nat
  BY <1>1, <1>2, StepsAre
<1>5. Walk(p, Steps(p.comps)) \in live \cup {Null} /\ Walk(p, Steps(Front(p.comps))) \in live \cup {Null}
  BY <1>3, <1>4, WalkStays
<1> QED BY <1>2, <1>5 DEF Lookup, ParentOf

-----------------------------------------------------------------------------
(***************************************************************************)
(* ramfs_write.  The doubling ends with a buffer that is large enough.     *)
(***************************************************************************)
LEMMA GrowIs ==
    ASSUME NEW cap \in Nat \ {0}, NEW need \in Nat
    PROVE  Grow(cap, need) \in Nat /\ Grow(cap, need) >= need /\ Grow(cap, need) >= cap
<1> DEFINE Twice(c) == IF c < need THEN 2 * c ELSE c
           h == [k \in 1..need |-> [c \in Nat |-> Twice(c)]]
           E(g) == [k \in 0..need |-> IF k = 0 THEN cap
                                      ELSE IF g[k - 1] < need THEN 2 * g[k - 1] ELSE g[k - 1]]
           grown == CHOOSE g : g = E(g)
<1>1. h \in [1..need -> [Nat -> Nat]]
  OBVIOUS
<1>2. PICK g : Iterates(g, Nat, cap, h, need)
  <2> HIDE DEF h
  <2> QED BY <1>1, IterateExists
<1>3. g = E(g)
  <2>1. \A k \in 1..need : g[k - 1] \in Nat /\ g[k] = h[k][g[k - 1]]
    BY <1>2 DEF Iterates
  <2>2. \A k \in 1..need : g[k] = IF g[k - 1] < need THEN 2 * g[k - 1] ELSE g[k - 1]
    BY <2>1
  <2>3. g = [k \in 0..need |-> g[k]] /\ g[0] = cap
    BY <1>2 DEF Iterates
  <2>4. \A k \in 0..need : g[k] = IF k = 0 THEN cap
                                    ELSE IF g[k - 1] < need THEN 2 * g[k - 1] ELSE g[k - 1]
    <3>1. g[0] = cap /\ \A k \in 0..need : k = 0 \/ k \in 1..need
      BY <2>3
    <3> QED BY <2>2, <3>1
  <2> QED BY <2>3, <2>4
<1>4. grown = E(grown)
  <2> HIDE DEF E
  <2> QED BY <1>3
<1>5. Grow(cap, need) = grown[need]
  BY DEF Grow
<1> HIDE DEF grown
<1>6. /\ grown[0] = cap
      /\ \A k \in 1..need : grown[k] = IF grown[k - 1] < need THEN 2 * grown[k - 1] ELSE grown[k - 1]
  BY <1>4
<1> DEFINE S == {k \in Nat : /\ grown[k] \in Nat /\ grown[k] >= cap
                             /\ grown[k] >= need \/ grown[k] > k}
<1>7. 0 \in S
  BY <1>6
<1>8. ASSUME NEW k \in 1..need, k - 1 \in S PROVE k \in S
  <2>1. grown[k - 1] \in Nat /\ grown[k - 1] >= cap /\ (grown[k - 1] >= need \/ grown[k - 1] > k - 1)
    BY <1>8
  <2>2. CASE grown[k - 1] < need
    <3>1. grown[k] = 2 * grown[k - 1]
      BY <2>2, <1>6
    <3> QED BY <2>1, <2>2, <3>1
  <2>3. CASE ~(grown[k - 1] < need)
    <3>1. grown[k] = grown[k - 1]
      BY <2>3, <1>6
    <3> QED BY <2>1, <2>3, <3>1
  <2> QED BY <2>2, <2>3
<1>9. 0..need \subseteq S
  <2> HIDE DEF S
  <2> QED BY <1>7, <1>8, UpTo
<1>10. need \in S
  BY <1>9
<1> QED BY <1>5, <1>10

Wrote(x, w, bytes, off) ==
    /\ w \in Records
    /\ w.name = x.name /\ w.type = x.type /\ w.parent = x.parent /\ w.kids = x.kids
    /\ w.size = IF off + Len(bytes) > x.size THEN off + Len(bytes) ELSE x.size
    /\ w.size <= Len(w.data)
    /\ \A i \in (off + 1)..(off + Len(bytes)) : w.data[i] = bytes[i - off]
    /\ \A i \in 1..x.size : i \notin (off + 1)..(off + Len(bytes)) => w.data[i] = x.data[i]

LEMMA WriteIs ==
    ASSUME NEW x \in Records, x.size <= Len(x.data), NEW bytes \in Seq(Nat), NEW off \in Nat
    PROVE  Wrote(x, RamfsWrite(x, bytes, off), bytes, off)
<1> DEFINE need == off + Len(bytes)
           base == IF x.data = << >> THEN MinCap ELSE Len(x.data)
           cap  == Grow(base, need)
           room == IF need <= Len(x.data) THEN x.data ELSE Enlarged(x.data, x.size, cap)
           data == [i \in 1..Len(room) |-> IF i \in (off + 1)..need THEN bytes[i - off] ELSE room[i]]
           size == IF need > x.size THEN need ELSE x.size
           w    == RamfsWrite(x, bytes, off)
<1>0. /\ x.data \in Seq(Nat) /\ Len(x.data) \in Nat /\ x.size \in Nat /\ need \in Nat
      /\ \A i \in 1..Len(x.data) : x.data[i] \in Nat
      /\ \A i \in 1..Len(bytes) : bytes[i] \in Nat
      /\ Len(bytes) \in Nat
  BY DEF Records
<1>1. base \in Nat \ {0} /\ base >= Len(x.data)
  BY <1>0, NodeFacts
<1>2. cap \in Nat /\ cap >= need /\ cap >= Len(x.data)
  <2>1. \A b \in Nat \ {0}, n \in Nat : /\ Grow(b, n) \in Nat
                                          /\ Grow(b, n) >= n /\ Grow(b, n) >= b
    BY GrowIs
  <2> HIDE DEF base, need
  <2>2. cap \in Nat /\ cap >= need /\ cap >= base
    BY <1>0, <1>1, <2>1
  <2> QED BY <1>0, <1>1, <2>2
<1>3. w = [x EXCEPT !.data = data, !.size = size]
  BY DEF RamfsWrite
<1> HIDE DEF cap, w
<1>4. /\ room \in Seq(Nat) /\ Len(room) \in Nat /\ Len(room) >= need /\ Len(room) >= x.size
      /\ \A i \in 1..x.size : room[i] = x.data[i]
  <2>1. CASE need <= Len(x.data)
    BY <2>1, <1>0
  <2>2. CASE ~(need <= Len(x.data))
    <3> DEFINE en == Enlarged(x.data, x.size, cap)
    <3>1. room = en
      BY <2>2
    <3>2. en = [i \in 1..cap |-> IF i <= x.size THEN x.data[i] ELSE Junk]
      BY DEF Enlarged
    <3>3. \A i \in 1..cap : (IF i <= x.size THEN x.data[i] ELSE Junk) \in Nat
      BY <1>0, NodeFacts
    <3>4. en \in Seq(Nat) /\ Len(en) = cap /\ \A i \in 1..cap : i <= x.size => en[i] = x.data[i]
      BY <3>2, <3>3, <1>2
    <3>5. \A i \in 1..x.size : i \in 1..cap
      BY <1>0, <1>2
    <3> HIDE DEF en
    <3> QED BY <3>1, <3>4, <3>5, <1>0, <1>2
  <2> QED BY <2>1, <2>2
<1> HIDE DEF room
<1>5. \A i \in 1..Len(room) : (IF i \in (off + 1)..need THEN bytes[i - off] ELSE room[i]) \in Nat
  <2> TAKE i \in 1..Len(room)
  <2>1. i \in (off + 1)..need => i - off \in 1..Len(bytes)
    BY <1>0
  <2>2. room[i] \in Nat
    BY <1>4
  <2> QED BY <1>0, <2>1, <2>2
<1>6. data \in Seq(Nat) /\ Len(data) = Len(room)
  <2> DEFINE e(i) == IF i \in (off + 1)..need THEN bytes[i - off] ELSE room[i]
  <2>1. \A i \in 1..Len(room) : e(i) \in Nat
    BY <1>5
  <2>2. Len(room) \in Nat
    BY <1>4
  <2> HIDE DEF e
  <2>3. [i \in 1..Len(room) |-> e(i)] \in Seq(Nat) /\ Len([i \in 1..Len(room) |-> e(i)]) = Len(room)
    BY <2>1, <2>2
  <2> QED BY <2>3 DEF e
<1>7. /\ \A i \in (off + 1)..need : i \in 1..Len(room) /\ data[i] = bytes[i - off]
      /\ \A i \in 1..x.size : i \notin (off + 1)..need => i \in 1..Len(room) /\ data[i] = x.data[i]
  <2>1. \A i \in (off + 1)..need : i \in 1..Len(room)
    BY <1>0, <1>4
  <2>2. \A i \in 1..x.size : i \in 1..Len(room) /\ room[i] = x.data[i]
    <3>1. x.size \in Nat /\ Len(room) \in Nat /\ Len(room) >= x.size
      BY <1>0, <1>4
    <3>2. \A i \in 1..x.size : i \in 1..Len(room)
      BY <3>1
    <3> QED BY <1>4, <3>2
  <2>3. \A i \in 1..Len(room) : data[i] = IF i \in (off + 1)..need THEN bytes[i - off] ELSE room[i]
    OBVIOUS
  <2> HIDE DEF data
  <2> QED BY <2>1, <2>2, <2>3
<1>8. size \in Nat /\ size <= Len(data)
  BY <1>0, <1>4, <1>6
<1> HIDE DEF data, size
<1>9. /\ w \in Records /\ w.data = data /\ w.size = size
      /\ w.name = x.name /\ w.type = x.type /\ w.parent = x.parent /\ w.kids = x.kids
  BY <1>3, <1>6, <1>8 DEF Records
<1>10. Wrote(x, w, bytes, off)
  BY <1>7, <1>8, <1>9 DEF Wrote, size
<1> QED BY <1>10 DEF w

Puts(tab, new, n, x) == new = [tab EXCEPT ![n] = x]

LEMMA WrittenTyped ==
    ASSUME NEW tab, Typed(tab), NEW n \in Nodes, tab[n].type = NODE_FILE, NEW bytes, NEW off, NEW w,
           Wrote(tab[n], w, bytes, off), NEW new, Puts(tab, new, n, w)
    PROVE  /\ Typed(new) /\ SameShape(tab, new)
           /\ new[n] = w /\ \A x \in Nodes \ {n} : new[x] = tab[x]
<1>1. tab \in [Nodes -> Records]
  BY DEF Typed
<1>2. w \in Records /\ w.type # NODE_DIR /\ w.size <= Len(w.data)
  BY NodeFacts DEF Wrote
<1>3. new \in [Nodes -> Records]
  BY <1>1, <1>2 DEF Puts
<1>4. \A x \in Nodes : new[x] = IF x = n THEN w ELSE tab[x]
  BY <1>1 DEF Puts
<1>5. Typed(new)
  BY <1>2, <1>3, <1>4 DEF Typed
<1>6. SameShape(tab, new)
  BY <1>4 DEF SameShape, Wrote
<1> QED BY <1>4, <1>5, <1>6

-----------------------------------------------------------------------------
(***************************************************************************)
(* The invariant of Ramfs.  Inside: the positions in the file x lie in its *)
(* s bytes.  Ahead: what a listing has yet to return is behind its         *)
(* position in the list.                                                   *)
(***************************************************************************)
Entries   == [node : Nodes \cup {Null}, pos : Nat, dir : BOOLEAN]
Redirects == [0..1 -> [node : Nodes \cup {Null}, pos : Nat]]

Tables(F, R, O) ==
    /\ F \in [FDs -> Entries] /\ R \in [Tasks -> Redirects] /\ O \in [FDs -> SUBSET Nodes]

Inside(x, s, F, R) ==
    /\ \A f \in FDs : F[f].node = x /\ ~F[f].dir => F[f].pos <= s
    /\ \A t \in Tasks, w \in 0..1 : R[t][w].node = x => R[t][w].pos <= s

Clean(x) == \A i \in 1..x.size : x.data[i] # Junk

Gapless(tab, in, F, R) ==
    \A n \in in : tab[n].type = NODE_FILE => Inside(n, tab[n].size, F, R) /\ Clean(tab[n])

Ahead(kids, pos, S) == \A x \in S : \E i \in 1..Len(kids) : i > pos /\ kids[i] = x

Listing(tab, in, F, O) ==
    \A f \in FDs : /\ ~F[f].dir \/ F[f].node \notin in => O[f] = {}
                   /\ F[f].dir /\ F[f].node \in in => Ahead(tab[F[f].node].kids, F[f].pos, O[f])

RInv ==
    /\ Tree(node, live) /\ Tables(fd, redir, owed)
    /\ cwd \in Nodes /\ wild \in BOOLEAN /\ cut \subseteq Nodes
    /\ Gapless(node, live \ cut, fd, redir)
    /\ Listing(node, live, fd, owed)

LEMMA EntryTypes ==
    ASSUME NEW F, NEW R, NEW O, Tables(F, R, O)
    PROVE  /\ \A f \in FDs : /\ F[f] \in Entries /\ F[f].node \in Nodes \cup {Null}
                             /\ F[f].pos \in Nat /\ F[f].dir \in BOOLEAN /\ O[f] \subseteq Nodes
           /\ \A t \in Tasks : R[t] \in Redirects
           /\ \A t \in Tasks, w \in 0..1 : R[t][w].node \in Nodes \cup {Null} /\ R[t][w].pos \in Nat
           /\ DOMAIN F = FDs /\ DOMAIN R = Tasks /\ DOMAIN O = FDs
<1>1. \A f \in FDs : F[f] \in Entries /\ O[f] \subseteq Nodes
  BY DEF Tables
<1>2. \A f \in FDs : F[f].node \in Nodes \cup {Null} /\ F[f].pos \in Nat /\ F[f].dir \in BOOLEAN
  BY <1>1 DEF Entries
<1>3. \A t \in Tasks : R[t] \in Redirects
  BY DEF Tables
<1>4. \A t \in Tasks, w \in 0..1 : R[t][w] \in [node : Nodes \cup {Null}, pos : Nat]
  BY <1>3 DEF Redirects
<1>5. \A t \in Tasks, w \in 0..1 : R[t][w].node \in Nodes \cup {Null} /\ R[t][w].pos \in Nat
  BY <1>4
<1> QED BY <1>1, <1>2, <1>3, <1>5 DEF Tables

LEMMA NothingOpen ==
    LET F == [f \in FDs |-> NoFd]
        R == [t \in Tasks |-> Nothing]
        O == [f \in FDs |-> {}]
    IN  /\ Tables(F, R, O)
        /\ \A tab, in : Listing(tab, in, F, O)
        /\ \A n \in Nodes, s \in Nat : Inside(n, s, F, R)
<1>1. NoFd \in Entries /\ NoFd.node = Null /\ NoFd.dir = FALSE
  BY DEF NoFd, Entries
<1>2. Nothing \in Redirects /\ \A w \in 0..1 : Nothing[w].node = Null
  BY DEF Nothing, Redirects
<1>3. Tables([f \in FDs |-> NoFd], [t \in Tasks |-> Nothing], [f \in FDs |-> {}])
  BY <1>1, <1>2 DEF Tables
<1>4. \A tab, in : Listing(tab, in, [f \in FDs |-> NoFd], [f \in FDs |-> {}])
  BY <1>1 DEF Listing
<1>5. \A n \in Nodes, s \in Nat : Inside(n, s, [f \in FDs |-> NoFd], [t \in Tasks |-> Nothing])
  BY <1>1, <1>2, NodeFacts DEF Inside
<1> QED BY <1>3, <1>4, <1>5

LEMMA InitInv == RInit => RInv
<1> SUFFICES ASSUME RInit PROVE RInv
  OBVIOUS
<1>1. /\ node = Empty /\ live = {Root} /\ cwd = Root /\ wild = FALSE /\ cut = {}
      /\ fd = [f \in FDs |-> NoFd] /\ redir = [t \in Tasks |-> Nothing] /\ owed = [f \in FDs |-> {}]
  BY DEF RInit
<1>2. Empty[Root].type = NODE_DIR
  BY EmptyTree DEF Tree
<1>3. Gapless(node, live \ cut, fd, redir)
  BY <1>1, <1>2, NodeFacts DEF Gapless
<1>4. Tables(fd, redir, owed) /\ Listing(node, live, fd, owed)
  BY <1>1, NothingOpen
<1>5. Tree(node, live) /\ cwd \in Nodes /\ wild \in BOOLEAN /\ cut \subseteq Nodes
  BY <1>1, EmptyTree, NodeFacts
<1> QED BY <1>3, <1>4, <1>5 DEF RInv

-----------------------------------------------------------------------------
(***************************************************************************)
(* The descriptor table.                                                   *)
(***************************************************************************)
LEMMA OpenStep ==
    ASSUME RInv, NEW n \in Nodes, OpenAt(n)
    PROVE  /\ Tables(fd', redir', owed') /\ redir' = redir /\ owed' = owed /\ cwd' = cwd /\ wild' = wild
           /\ \A f \in FDs : \/ fd'[f] = fd[f]
                             \/ fd[f].node = Null /\ fd'[f].node = n /\ fd'[f].pos = 0 /\ ~fd'[f].dir
<1>1. redir' = redir /\ owed' = owed /\ cwd' = cwd /\ wild' = wild
  BY DEF OpenAt
<1>2. Tables(fd, redir, owed)
  BY DEF RInv
<1>3. CASE TableFull /\ UNCHANGED fd
  BY <1>1, <1>2, <1>3
<1>4. CASE \E f \in FDs : LowestFree(f) /\ fd' = [fd EXCEPT ![f] = [NoFd EXCEPT !.node = n]]
  <2>1. PICK f \in FDs : LowestFree(f) /\ fd' = [fd EXCEPT ![f] = [NoFd EXCEPT !.node = n]]
    BY <1>4
  <2> DEFINE e == [NoFd EXCEPT !.node = n]
  <2>2. NoFd \in Entries /\ NoFd.pos = 0 /\ NoFd.dir = FALSE
    BY DEF NoFd, Entries
  <2>3. e \in Entries /\ e.node = n /\ e.pos = 0 /\ ~e.dir
    <3>1. \A r \in Entries : /\ [r EXCEPT !.node = n] \in Entries
                              /\ [r EXCEPT !.node = n].node = n
                              /\ [r EXCEPT !.node = n].pos = r.pos
                              /\ [r EXCEPT !.node = n].dir = r.dir
      BY DEF Entries
    <3>2. e \in Entries /\ e.node = n /\ e.pos = NoFd.pos /\ e.dir = NoFd.dir
      BY <2>2, <3>1
    <3> HIDE DEF e
    <3> QED BY <2>2, <3>2
  <2>4. fd \in [FDs -> Entries] /\ fd[f].node = Null
    BY <1>2, <2>1 DEF Tables, LowestFree, Free
  <2> HIDE DEF e
  <2>5. fd' = [fd EXCEPT ![f] = e]
    BY <2>1 DEF e
  <2>6. fd' \in [FDs -> Entries] /\ fd'[f] = e /\ \A g \in FDs \ {f} : fd'[g] = fd[g]
    BY <2>3, <2>4, <2>5
  <2>7. Tables(fd', redir', owed')
    BY <1>1, <1>2, <2>6 DEF Tables
  <2> QED BY <1>1, <2>3, <2>4, <2>6, <2>7
<1> QED BY <1>3, <1>4 DEF OpenAt

(***************************************************************************)
(* SYS_OPEN of a file that is there.                                       *)
(***************************************************************************)
LEMMA FileOpenStep ==
    ASSUME RInv, NEW p \in FilePaths, FileOpen(p)
    PROVE  RInv'
<1>1. Tree(node, live) /\ live \subseteq Nodes /\ cut \subseteq Nodes /\ cwd \in Nodes /\ wild \in BOOLEAN
  BY DEF RInv, Tree
<1>2. Lookup(p) \in live /\ Lookup(p) \in Nodes /\ OpenAt(Lookup(p))
      /\ node' = node /\ live' = live /\ cut' = cut
  BY <1>1, LookupStays DEF FileOpen, Reaches
<1> DEFINE n == Lookup(p)
<1> HIDE DEF n
<1>3. /\ Tables(fd', redir', owed') /\ redir' = redir /\ owed' = owed /\ cwd' = cwd /\ wild' = wild
      /\ \A f \in FDs : \/ fd'[f] = fd[f]
                        \/ fd[f].node = Null /\ fd'[f].node = n /\ fd'[f].pos = 0 /\ ~fd'[f].dir
  BY <1>2, OpenStep DEF n
<1>4. Gapless(node, live \ cut, fd', redir')
  <2> SUFFICES ASSUME NEW x \in live \ cut, node[x].type = NODE_FILE
               PROVE  Inside(x, node[x].size, fd', redir') /\ Clean(node[x])
    BY DEF Gapless
  <2>1. Inside(x, node[x].size, fd, redir) /\ Clean(node[x])
    BY DEF RInv, Gapless
  <2>2. node[x].size \in Nat
    BY <1>1, FieldTypes DEF Tree
  <2> QED BY <1>3, <2>1, <2>2 DEF Inside
<1>5. Listing(node, live, fd', owed')
  <2> SUFFICES ASSUME NEW f \in FDs
               PROVE  /\ ~fd'[f].dir \/ fd'[f].node \notin live => owed[f] = {}
                      /\ fd'[f].dir /\ fd'[f].node \in live
                            => Ahead(node[fd'[f].node].kids, fd'[f].pos, owed[f])
    BY <1>3 DEF Listing
  <2>1. /\ ~fd[f].dir \/ fd[f].node \notin live => owed[f] = {}
        /\ fd[f].dir /\ fd[f].node \in live => Ahead(node[fd[f].node].kids, fd[f].pos, owed[f])
    BY DEF RInv, Listing
  <2>2. CASE fd'[f] = fd[f]
    BY <2>1, <2>2
  <2>3. CASE fd[f].node = Null /\ ~fd'[f].dir
    <3>1. owed[f] = {}
      BY <1>1, <2>1, <2>3, NodeFacts
    <3> QED BY <2>3, <3>1
  <2> QED BY <1>3, <2>2, <2>3
<1>6. /\ Tree(node, live)' /\ Tables(fd, redir, owed)'
      /\ cwd' \in Nodes /\ wild' \in BOOLEAN /\ cut' \subseteq Nodes
      /\ Gapless(node, live \ cut, fd, redir)' /\ Listing(node, live, fd, owed)'
  BY <1>1, <1>2, <1>3, <1>4, <1>5
<1> QED BY <1>6 DEF RInv

(***************************************************************************)
(* A new node: FileOpenNew, Mkdir and RedirNew.  Those that point to its   *)
(* address, F and R after the call, were there before or start at 0.       *)
(***************************************************************************)
LEMMA AllocateStep ==
    ASSUME RInv, NEW n, NEW type \in Types, NEW d \in live, NEW name \in Names,
           MayCreate(d, name), Allocate(n, type, name, d)
    PROVE  /\ n \in Nodes \ live /\ live' = live \cup {n} /\ Tree(node', live')
           /\ cut' \subseteq Nodes /\ cut' \ {n} = cut \ {n}
           /\ n \notin cut' => ~Passed(n, redir)
           /\ IsCreated(node, node', n, type, Cut(name), d)
<1>1. Tree(node, live) /\ cut \subseteq Nodes
  BY DEF RInv
<1>2. n \in Nodes \ live
  BY RamfsAssumption DEF RamfsAssumption, Allocate, Addresses
<1>3. node' = Created(node, n, type, name, d) /\ live' = live \cup {n}
      /\ cut' = IF Passed(n, redir) THEN cut \cup {n} ELSE cut \ {n}
  BY DEF Allocate
<1>4. name \in Nat /\ node[d].type = NODE_DIR /\ FindChild(node, d, name) = Null
  BY NodeFacts DEF MayCreate
<1>5. Tree(node', live')
  BY <1>1, <1>2, <1>3, <1>4, CreatedTree
<1>6. IsCreated(node, node', n, type, Cut(name), d)
  <2>1. Typed(node) /\ d \in Nodes /\ n # d /\ n \in Nodes
    BY <1>1, <1>2 DEF Tree
  <2> QED BY <1>3, <1>4, <2>1, CreatedFields
<1> QED BY <1>1, <1>2, <1>3, <1>5, <1>6

LEMMA NewGap ==
    ASSUME RInv, NEW n, NEW type, NEW d \in live, NEW name, NEW tab, NEW F, NEW R, NEW now, NEW cut2,
           n \in Nodes \ live, now = live \cup {n},
           IsCreated(node, tab, n, type, name, d),
           cut2 \ {n} = cut \ {n}, n \notin cut2 => ~Passed(n, redir),
           Tables(fd, redir, owed),
           \A f \in FDs : F[f] = fd[f] \/ (F[f].node = n /\ F[f].pos = 0),
           \A t \in Tasks, w \in 0..1 : R[t][w] = redir[t][w] \/ (R[t][w].node = n /\ R[t][w].pos = 0)
    PROVE  Gapless(tab, now \ cut2, F, R)
<1>0. Tree(node, live) /\ live \subseteq Nodes /\ Typed(node)
  BY DEF RInv, Tree
<1> SUFFICES ASSUME NEW x \in now \ cut2, tab[x].type = NODE_FILE
             PROVE  Inside(x, tab[x].size, F, R) /\ Clean(tab[x])
  BY DEF Gapless
<1>1. CASE x = n
  <2>1. tab[n].size = 0 /\ Clean(tab[n])
    BY DEF IsCreated, Clean
  <2>2. /\ \A f \in FDs : fd[f].node = n => ~(fd[f].pos > 0)
        /\ \A t \in Tasks, w \in 0..1 : redir[t][w].node = n => ~(redir[t][w].pos > 0)
    BY <1>1 DEF Passed
  <2>3. /\ \A f \in FDs : fd[f].node = n => fd[f].pos <= 0
        /\ \A t \in Tasks, w \in 0..1 : redir[t][w].node = n => redir[t][w].pos <= 0
    BY <2>2, EntryTypes
  <2>4. /\ \A f \in FDs : F[f].node = n => F[f].pos <= 0
        /\ \A t \in Tasks, w \in 0..1 : R[t][w].node = n => R[t][w].pos <= 0
    BY <2>3
  <2> QED BY <1>1, <2>1, <2>4 DEF Inside
<1>2. CASE x # n
  <2>1. x \in live \ cut /\ x \in Nodes \ {n}
    BY <1>0, <1>2
  <2>2. tab[x].type = node[x].type /\ tab[x].size = node[x].size /\ tab[x].data = node[x].data
    BY <2>1 DEF IsCreated
  <2>3. Inside(x, node[x].size, fd, redir) /\ Clean(node[x])
    BY <2>1, <2>2 DEF RInv, Gapless
  <2>4. Inside(x, node[x].size, F, R)
    BY <1>2, <2>3 DEF Inside
  <2> QED BY <2>2, <2>3, <2>4 DEF Clean
<1> QED BY <1>1, <1>2

(***************************************************************************)
(* An entry that is put in front moves the ones a listing has yet to       *)
(* return away from its position.                                          *)
(***************************************************************************)
LEMMA NewListing ==
    ASSUME RInv, NEW n, NEW type, NEW d \in live, NEW name, NEW tab, NEW F, NEW now,
           n \in Nodes \ live, now = live \cup {n},
           IsCreated(node, tab, n, type, name, d),
           \A f \in FDs : F[f] = fd[f] \/ (fd[f].node = Null /\ ~F[f].dir)
    PROVE  Listing(tab, now, F, owed)
<1>0. Tree(node, live) /\ live \subseteq Nodes /\ Typed(node) /\ Tables(fd, redir, owed)
  BY DEF RInv, Tree
<1> SUFFICES ASSUME NEW f \in FDs
             PROVE  /\ ~F[f].dir \/ F[f].node \notin now => owed[f] = {}
                    /\ F[f].dir /\ F[f].node \in now => Ahead(tab[F[f].node].kids, F[f].pos, owed[f])
  BY DEF Listing
<1>1. /\ ~fd[f].dir \/ fd[f].node \notin live => owed[f] = {}
      /\ fd[f].dir /\ fd[f].node \in live => Ahead(node[fd[f].node].kids, fd[f].pos, owed[f])
  BY DEF RInv, Listing
<1>2. CASE ~F[f].dir
  <2>1. owed[f] = {}
    BY <1>0, <1>1, <1>2, NodeFacts
  <2> QED BY <1>2, <2>1
<1>3. CASE F[f].dir
  <2>1. F[f] = fd[f] /\ fd[f].dir
    BY <1>3
  <2>2. CASE fd[f].node \notin live
    BY <1>1, <2>1, <2>2 DEF Ahead
  <2>3. CASE fd[f].node \in live \ {d}
    <3>1. tab[fd[f].node] = node[fd[f].node]
      BY <1>0, <2>3 DEF IsCreated
    <3> QED BY <1>1, <2>1, <2>3, <3>1
  <2>4. CASE fd[f].node = d
    <3>1. Ahead(node[d].kids, fd[f].pos, owed[f])
      BY <1>1, <2>1, <2>4
    <3>2. Len(node[d].kids) \in Nat /\ fd[f].pos \in Nat
      BY <1>0, FieldTypes, EntryTypes
    <3>3. /\ Len(tab[d].kids) = Len(node[d].kids) + 1
          /\ \A i \in 1..Len(node[d].kids) : tab[d].kids[i + 1] = node[d].kids[i]
      BY DEF IsCreated
    <3>4. Ahead(tab[d].kids, fd[f].pos, owed[f])
      <4> SUFFICES ASSUME NEW x \in owed[f]
                   PROVE  \E i \in 1..Len(tab[d].kids) : i > fd[f].pos /\ tab[d].kids[i] = x
        BY DEF Ahead
      <4>1. PICK i \in 1..Len(node[d].kids) : i > fd[f].pos /\ node[d].kids[i] = x
        BY <3>1 DEF Ahead
      <4>2. i + 1 \in 1..Len(tab[d].kids) /\ i + 1 > fd[f].pos /\ tab[d].kids[i + 1] = x
        BY <3>2, <3>3, <4>1
      <4> QED BY <4>2
    <3> QED BY <2>1, <2>4, <3>4
  <2> QED BY <2>2, <2>3, <2>4
<1> QED BY <1>2, <1>3

LEMMA CreateIn ==
    ASSUME RInv, NEW p \in FilePaths \cup DirPaths, Reaches(p), MayCreate(ParentOf(p), Last(p.comps))
    PROVE  ParentOf(p) \in live /\ Last(p.comps) \in Names
<1>1. Tree(node, live) /\ (p.abs \/ cwd \in live)
  BY DEF RInv, Reaches
<1> QED BY <1>1, LookupStays DEF MayCreate

LEMMA FileOpenNewStep ==
    ASSUME RInv, NEW p \in FilePaths, FileOpenNew(p)
    PROVE  RInv'
<1> DEFINE d == ParentOf(p)
           name == Last(p.comps)
<1>1. d \in live /\ name \in Names /\ MayCreate(d, name)
  BY CreateIn DEF FileOpenNew
<1>2. PICK n \in Nodes : Allocate(n, NODE_FILE, name, d) /\ OpenAt(n)
  BY DEF FileOpenNew
<1> HIDE DEF d, name
<1>3. /\ n \in Nodes \ live /\ live' = live \cup {n} /\ Tree(node', live')
      /\ cut' \subseteq Nodes /\ cut' \ {n} = cut \ {n} /\ (n \notin cut' => ~Passed(n, redir))
      /\ IsCreated(node, node', n, NODE_FILE, Cut(name), d)
  <2>1. NODE_FILE \in Types
    BY DEF Types
  <2> QED BY <1>1, <1>2, <2>1, AllocateStep
<1>4. /\ Tables(fd', redir', owed') /\ redir' = redir /\ owed' = owed /\ cwd' = cwd /\ wild' = wild
      /\ \A f \in FDs : \/ fd'[f] = fd[f]
                        \/ fd[f].node = Null /\ fd'[f].node = n /\ fd'[f].pos = 0 /\ ~fd'[f].dir
  BY <1>2, OpenStep
<1>5. Tables(fd, redir, owed) /\ cwd \in Nodes /\ wild \in BOOLEAN
  BY DEF RInv
<1>6. Gapless(node', live' \ cut', fd', redir')
  BY <1>1, <1>3, <1>4, <1>5, NewGap
<1>7. Listing(node', live', fd', owed')
  <2>1. \A f \in FDs : fd'[f] = fd[f] \/ (fd[f].node = Null /\ ~fd'[f].dir)
    BY <1>4
  <2>2. Listing(node', live', fd', owed)
    BY <1>1, <1>3, <2>1, NewListing
  <2> QED BY <1>4, <2>2
<1>8. /\ Tree(node, live)' /\ Tables(fd, redir, owed)'
      /\ cwd' \in Nodes /\ wild' \in BOOLEAN /\ cut' \subseteq Nodes
      /\ Gapless(node, live \ cut, fd, redir)' /\ Listing(node, live, fd, owed)'
  BY <1>3, <1>4, <1>5, <1>6, <1>7
<1> QED BY <1>8 DEF RInv

LEMMA MkdirStep ==
    ASSUME RInv, NEW p \in DirPaths, Mkdir(p)
    PROVE  RInv'
<1> DEFINE d == ParentOf(p)
           name == Last(p.comps)
<1>1. d \in live /\ name \in Names /\ MayCreate(d, name)
  BY CreateIn DEF Mkdir
<1>2. PICK n \in Nodes : Allocate(n, NODE_DIR, name, d)
  BY DEF Mkdir
<1> HIDE DEF d, name
<1>3. /\ n \in Nodes \ live /\ live' = live \cup {n} /\ Tree(node', live')
      /\ cut' \subseteq Nodes /\ cut' \ {n} = cut \ {n} /\ (n \notin cut' => ~Passed(n, redir))
      /\ IsCreated(node, node', n, NODE_DIR, Cut(name), d)
  <2>1. NODE_DIR \in Types
    BY DEF Types
  <2> QED BY <1>1, <1>2, <2>1, AllocateStep
<1>4. fd' = fd /\ redir' = redir /\ owed' = owed /\ cwd' = cwd /\ wild' = wild
  BY DEF Mkdir
<1>5. Tables(fd, redir, owed) /\ cwd \in Nodes /\ wild \in BOOLEAN
  BY DEF RInv
<1>6. Gapless(node', live' \ cut', fd, redir)
  BY <1>1, <1>3, <1>5, NewGap
<1>7. Listing(node', live', fd, owed)
  BY <1>1, <1>3, NewListing
<1>8. /\ Tree(node, live)' /\ Tables(fd, redir, owed)'
      /\ cwd' \in Nodes /\ wild' \in BOOLEAN /\ cut' \subseteq Nodes
      /\ Gapless(node, live \ cut, fd, redir)' /\ Listing(node, live, fd, owed)'
  BY <1>3, <1>4, <1>5, <1>6, <1>7
<1> QED BY <1>8 DEF RInv

LEMMA RedirectedStep ==
    ASSUME RInv, NEW t \in Tasks, NEW w \in 0..1, NEW n \in Nodes, Redirected(t, w, n)
    PROVE  /\ redir' \in [Tasks -> Redirects]
           /\ \A u \in Tasks, v \in 0..1 : \/ redir'[u][v] = redir[u][v]
                                           \/ redir'[u][v].node = n /\ redir'[u][v].pos = 0
<1>1. redir \in [Tasks -> Redirects] /\ redir' = [redir EXCEPT ![t][w] = [node |-> n, pos |-> 0]]
  BY DEF RInv, Tables, Redirected
<1> DEFINE e == [node |-> n, pos |-> 0]
           r == [redir[t] EXCEPT ![w] = e]
<1>2. e \in [node : Nodes \cup {Null}, pos : Nat] /\ e.node = n /\ e.pos = 0
  OBVIOUS
<1> HIDE DEF e
<1>3. redir[t] \in Redirects
  BY <1>1
<1>4. r \in Redirects /\ r[w] = e /\ \A v \in 0..1 : v # w => r[v] = redir[t][v]
  BY <1>2, <1>3 DEF Redirects
<1>5. redir' = [redir EXCEPT ![t] = r]
  BY <1>1 DEF e
<1> HIDE DEF r
<1>6. redir' \in [Tasks -> Redirects] /\ redir'[t] = r /\ \A u \in Tasks \ {t} : redir'[u] = redir[u]
  BY <1>1, <1>4, <1>5
<1> QED BY <1>2, <1>4, <1>6

LEMMA RedirNewStep ==
    ASSUME RInv, NEW t \in Tasks, NEW w \in 0..1, NEW p \in FilePaths, RedirNew(t, w, p)
    PROVE  RInv'
<1> DEFINE d == ParentOf(p)
           name == Last(p.comps)
<1>1. d \in live /\ name \in Names /\ MayCreate(d, name)
  BY CreateIn DEF RedirNew
<1>2. PICK n \in Nodes : Allocate(n, NODE_FILE, name, d) /\ Redirected(t, w, n)
  BY DEF RedirNew
<1> HIDE DEF d, name
<1>3. /\ n \in Nodes \ live /\ live' = live \cup {n} /\ Tree(node', live')
      /\ cut' \subseteq Nodes /\ cut' \ {n} = cut \ {n} /\ (n \notin cut' => ~Passed(n, redir))
      /\ IsCreated(node, node', n, NODE_FILE, Cut(name), d)
  <2>1. NODE_FILE \in Types
    BY DEF Types
  <2> QED BY <1>1, <1>2, <2>1, AllocateStep
<1>4. fd' = fd /\ owed' = owed /\ cwd' = cwd /\ wild' = wild
  BY DEF RedirNew
<1>5. Tables(fd, redir, owed) /\ cwd \in Nodes /\ wild \in BOOLEAN
  BY DEF RInv
<1>6. /\ redir' \in [Tasks -> Redirects]
      /\ \A u \in Tasks, v \in 0..1 : \/ redir'[u][v] = redir[u][v]
                                      \/ redir'[u][v].node = n /\ redir'[u][v].pos = 0
  BY <1>2, RedirectedStep
<1>7. Gapless(node', live' \ cut', fd, redir')
  BY <1>1, <1>3, <1>5, <1>6, NewGap
<1>8. Listing(node', live', fd, owed)
  BY <1>1, <1>3, NewListing
<1>9. Tables(fd', redir', owed')
  BY <1>4, <1>5, <1>6 DEF Tables
<1>10. /\ Tree(node, live)' /\ Tables(fd, redir, owed)'
       /\ cwd' \in Nodes /\ wild' \in BOOLEAN /\ cut' \subseteq Nodes
       /\ Gapless(node, live \ cut, fd, redir)' /\ Listing(node, live, fd, owed)'
  BY <1>3, <1>4, <1>5, <1>7, <1>8, <1>9
<1> QED BY <1>10 DEF RInv

-----------------------------------------------------------------------------
(***************************************************************************)
(* Calls that leave the nodes alone.                                       *)
(***************************************************************************)
LEMMA SameNodes ==
    ASSUME RInv, node' = node, live' = live, wild' = wild, cut' = cut, cwd' \in Nodes,
           Tables(fd', redir', owed'),
           Gapless(node, live \ cut, fd', redir'), Listing(node, live, fd', owed')
    PROVE  RInv'
<1>1. Tree(node, live) /\ wild \in BOOLEAN /\ cut \subseteq Nodes
  BY DEF RInv
<1>2. /\ Tree(node, live)' /\ Tables(fd, redir, owed)'
      /\ cwd' \in Nodes /\ wild' \in BOOLEAN /\ cut' \subseteq Nodes
      /\ Gapless(node, live \ cut, fd, redir)' /\ Listing(node, live, fd, owed)'
  BY <1>1
<1> QED BY <1>2 DEF RInv

LEMMA DirOpenStep ==
    ASSUME RInv, NEW p \in DirPaths, DirOpen(p)
    PROVE  RInv'
<1>0. Tree(node, live) /\ live \subseteq Nodes /\ Typed(node) /\ Tables(fd, redir, owed) /\ cwd \in Nodes
  BY DEF RInv, Tree
<1> DEFINE d == Lookup(p)
<1>1. d \in live /\ d \in Nodes
  BY <1>0, LookupStays DEF DirOpen, Reaches
<1> DEFINE e == [node |-> d, pos |-> 0, dir |-> TRUE]
<1>2. PICK f \in FDs : /\ LowestFree(f) /\ fd' = [fd EXCEPT ![f] = e]
                       /\ owed' = [owed EXCEPT ![f] = ToSet(node[d].kids)]
  BY DEF DirOpen
<1>3. /\ node' = node /\ live' = live /\ cwd' = cwd /\ redir' = redir /\ wild' = wild /\ cut' = cut
  BY DEF DirOpen
<1> HIDE DEF d
<1>4. e \in Entries /\ e.node = d /\ e.pos = 0 /\ e.dir
  BY <1>1 DEF Entries
<1> HIDE DEF e
<1>5. /\ fd' \in [FDs -> Entries] /\ fd'[f] = e /\ \A g \in FDs \ {f} : fd'[g] = fd[g]
  BY <1>0, <1>2, <1>4 DEF Tables
<1>6. /\ ToSet(node[d].kids) \subseteq Nodes
      /\ \A x \in ToSet(node[d].kids) : \E i \in 1..Len(node[d].kids) : node[d].kids[i] = x
  BY <1>0, <1>1, FieldTypes DEF ToSet
<1>7. /\ owed' \in [FDs -> SUBSET Nodes] /\ owed'[f] = ToSet(node[d].kids)
      /\ \A g \in FDs \ {f} : owed'[g] = owed[g]
  BY <1>0, <1>2, <1>6 DEF Tables
<1>8. Tables(fd', redir', owed')
  BY <1>0, <1>3, <1>5, <1>7 DEF Tables
<1>9. Gapless(node, live \ cut, fd', redir')
  <2> SUFFICES ASSUME NEW x \in live \ cut, node[x].type = NODE_FILE
               PROVE  Inside(x, node[x].size, fd', redir') /\ Clean(node[x])
    BY DEF Gapless
  <2>1. Inside(x, node[x].size, fd, redir) /\ Clean(node[x])
    BY DEF RInv, Gapless
  <2> QED BY <1>3, <1>4, <1>5, <2>1 DEF Inside
<1>10. Listing(node, live, fd', owed')
  <2> SUFFICES ASSUME NEW g \in FDs
               PROVE  /\ ~fd'[g].dir \/ fd'[g].node \notin live => owed'[g] = {}
                      /\ fd'[g].dir /\ fd'[g].node \in live
                            => Ahead(node[fd'[g].node].kids, fd'[g].pos, owed'[g])
    BY DEF Listing
  <2>1. CASE g # f
    <3>1. fd'[g] = fd[g] /\ owed'[g] = owed[g]
      BY <1>5, <1>7, <2>1
    <3> QED BY <3>1 DEF RInv, Listing
  <2>2. CASE g = f
    <3>1. \A i \in 1..Len(node[d].kids) : i > 0
      OBVIOUS
    <3>2. owed'[g] = ToSet(node[d].kids)
      BY <1>7, <2>2
    <3>3. Ahead(node[d].kids, 0, owed'[g])
      BY <1>6, <3>1, <3>2 DEF Ahead
    <3> QED BY <1>1, <1>4, <1>5, <2>2, <3>3
  <2> QED BY <2>1, <2>2
<1> QED BY <1>0, <1>3, <1>8, <1>9, <1>10, SameNodes

LEMMA FileCloseStep ==
    ASSUME RInv, NEW f \in FDs, FileClose(f)
    PROVE  RInv'
<1>0. live \subseteq Nodes /\ Tables(fd, redir, owed) /\ cwd \in Nodes
  BY DEF RInv, Tree
<1>1. /\ node' = node /\ live' = live /\ cwd' = cwd /\ redir' = redir /\ wild' = wild /\ cut' = cut
      /\ fd' = [fd EXCEPT ![f] = NoFd] /\ owed' = [owed EXCEPT ![f] = {}]
  BY DEF FileClose
<1>2. NoFd \in Entries /\ NoFd.node = Null /\ NoFd.dir = FALSE
  BY DEF NoFd, Entries
<1>3. /\ fd' \in [FDs -> Entries] /\ fd'[f] = NoFd /\ \A g \in FDs \ {f} : fd'[g] = fd[g]
      /\ owed' \in [FDs -> SUBSET Nodes] /\ owed'[f] = {} /\ \A g \in FDs \ {f} : owed'[g] = owed[g]
  BY <1>0, <1>1, <1>2 DEF Tables
<1>4. Tables(fd', redir', owed')
  BY <1>0, <1>1, <1>3 DEF Tables
<1>5. Gapless(node, live \ cut, fd', redir')
  <2> SUFFICES ASSUME NEW x \in live \ cut, node[x].type = NODE_FILE
               PROVE  Inside(x, node[x].size, fd', redir') /\ Clean(node[x])
    BY DEF Gapless
  <2>1. Inside(x, node[x].size, fd, redir) /\ Clean(node[x]) /\ x # Null
    BY <1>0, NodeFacts DEF RInv, Gapless
  <2> QED BY <1>1, <1>2, <1>3, <2>1 DEF Inside
<1>6. Listing(node, live, fd', owed')
  <2> SUFFICES ASSUME NEW g \in FDs
               PROVE  /\ ~fd'[g].dir \/ fd'[g].node \notin live => owed'[g] = {}
                      /\ fd'[g].dir /\ fd'[g].node \in live
                            => Ahead(node[fd'[g].node].kids, fd'[g].pos, owed'[g])
    BY DEF Listing
  <2>1. CASE g # f
    <3>1. fd'[g] = fd[g] /\ owed'[g] = owed[g]
      BY <1>3, <2>1
    <3> QED BY <3>1 DEF RInv, Listing
  <2>2. CASE g = f
    BY <1>2, <1>3, <2>2
  <2> QED BY <2>1, <2>2
<1> QED BY <1>0, <1>1, <1>4, <1>5, <1>6, SameNodes

(***************************************************************************)
(* A position that moves on by k.                                          *)
(***************************************************************************)
Moves(F, G, f, q) == G = [F EXCEPT ![f].pos = q]

LEMMA MovedOn ==
    ASSUME NEW F \in [FDs -> Entries], NEW f \in FDs, NEW G, NEW q \in Nat, Moves(F, G, f, q)
    PROVE  /\ G \in [FDs -> Entries] /\ \A g \in FDs \ {f} : G[g] = F[g]
           /\ G[f].node = F[f].node /\ G[f].dir = F[f].dir /\ G[f].pos = q
<1>1. F[f] \in Entries
  OBVIOUS
<1> DEFINE e == [F[f] EXCEPT !.pos = q]
<1>2. \A x \in Entries : /\ [x EXCEPT !.pos = q] \in Entries /\ [x EXCEPT !.pos = q].node = x.node
                         /\ [x EXCEPT !.pos = q].dir = x.dir /\ [x EXCEPT !.pos = q].pos = q
  BY DEF Entries
<1>3. e \in Entries /\ e.node = F[f].node /\ e.dir = F[f].dir /\ e.pos = q
  BY <1>1, <1>2
<1>4. G = [F EXCEPT ![f] = e]
  BY DEF Moves
<1> HIDE DEF e
<1>5. G \in [FDs -> Entries] /\ G[f] = e /\ \A g \in FDs \ {f} : G[g] = F[g]
  BY <1>3, <1>4
<1> QED BY <1>3, <1>5

OutMoves(R, Q, t, w, q) == Q = [R EXCEPT ![t][w].pos = q]

LEMMA OutMovedOn ==
    ASSUME NEW R \in [Tasks -> Redirects], NEW t \in Tasks, NEW w \in 0..1, NEW q \in Nat, NEW Q,
           OutMoves(R, Q, t, w, q)
    PROVE  /\ Q \in [Tasks -> Redirects]
           /\ \A u \in Tasks, v \in 0..1 : u # t \/ v # w => Q[u][v] = R[u][v]
           /\ Q[t][w].node = R[t][w].node /\ Q[t][w].pos = q
<1> DEFINE P == [node : Nodes \cup {Null}, pos : Nat]
           e == [R[t][w] EXCEPT !.pos = q]
           r == [R[t] EXCEPT ![w] = e]
<1>1. R[t] \in Redirects /\ R[t][w] \in P
  BY DEF Redirects
<1>2. \A x \in P : /\ [x EXCEPT !.pos = q] \in P /\ [x EXCEPT !.pos = q].node = x.node
                   /\ [x EXCEPT !.pos = q].pos = q
  OBVIOUS
<1>3. e \in P /\ e.node = R[t][w].node /\ e.pos = q
  <2> HIDE DEF P
  <2> QED BY <1>1, <1>2
<1>4. Q = [R EXCEPT ![t] = r]
  BY DEF OutMoves
<1> HIDE DEF e
<1>5. r \in Redirects /\ r[w] = e /\ \A v \in 0..1 : v # w => r[v] = R[t][v]
  BY <1>1, <1>3 DEF Redirects
<1> HIDE DEF r
<1>6. Q \in [Tasks -> Redirects] /\ Q[t] = r /\ \A u \in Tasks \ {t} : Q[u] = R[u]
  BY <1>4, <1>5
<1> QED BY <1>3, <1>5, <1>6

LEMMA ReadBound ==
    ASSUME NEW x, x.size \in Nat, NEW off \in Nat
    PROVE  /\ RamfsRead(x, 1, off) \in Nat
           /\ off <= x.size => off + RamfsRead(x, 1, off) <= x.size
  BY DEF RamfsRead

LEMMA FileReadStep ==
    ASSUME RInv, NEW f \in FDs, FileRead(f, 1)
    PROVE  RInv'
<1>0. /\ live \subseteq Nodes /\ Tables(fd, redir, owed) /\ cwd \in Nodes /\ Typed(node)
      /\ fd \in [FDs -> Entries]
  BY DEF RInv, Tree, Tables
<1> DEFINE n == fd[f].node
           k == RamfsRead(node[n], 1, fd[f].pos)
<1>1. /\ node' = node /\ live' = live /\ cwd' = cwd /\ redir' = redir /\ wild' = wild /\ cut' = cut
      /\ owed' = owed /\ fd' = [fd EXCEPT ![f].pos = fd[f].pos + k]
      /\ n \in live /\ ~fd[f].dir
  BY DEF FileRead, OnFile
<1>2. fd[f].pos \in Nat /\ n \in Nodes /\ node[n].size \in Nat
  BY <1>0, <1>1, EntryTypes, FieldTypes
<1>3. k \in Nat /\ (fd[f].pos <= node[n].size => fd[f].pos + k <= node[n].size)
  BY <1>2, ReadBound
<1> HIDE DEF k
<1>4. /\ fd' \in [FDs -> Entries] /\ \A g \in FDs \ {f} : fd'[g] = fd[g]
      /\ fd'[f].node = fd[f].node /\ fd'[f].dir = fd[f].dir /\ fd'[f].pos = fd[f].pos + k
  <2>1. fd[f].pos + k \in Nat /\ Moves(fd, fd', f, fd[f].pos + k)
    BY <1>1, <1>2, <1>3 DEF Moves
  <2> QED BY <1>0, <2>1, MovedOn
<1>5. Tables(fd', redir', owed')
  BY <1>0, <1>1, <1>4 DEF Tables
<1>6. Gapless(node, live \ cut, fd', redir')
  <2> SUFFICES ASSUME NEW x \in live \ cut, node[x].type = NODE_FILE
               PROVE  Inside(x, node[x].size, fd', redir') /\ Clean(node[x])
    BY DEF Gapless
  <2>1. Inside(x, node[x].size, fd, redir) /\ Clean(node[x])
    BY DEF RInv, Gapless
  <2>2. \A g \in FDs : fd'[g].node = x /\ ~fd'[g].dir => fd'[g].pos <= node[x].size
    <3> TAKE g \in FDs
    <3>1. CASE g = f
      BY <1>3, <1>4, <2>1, <3>1 DEF Inside
    <3>2. CASE g # f
      BY <1>4, <2>1, <3>2 DEF Inside
    <3> QED BY <3>1, <3>2
  <2> QED BY <1>1, <2>1, <2>2 DEF Inside
<1>7. Listing(node, live, fd', owed')
  <2> SUFFICES ASSUME NEW g \in FDs
               PROVE  /\ ~fd'[g].dir \/ fd'[g].node \notin live => owed[g] = {}
                      /\ fd'[g].dir /\ fd'[g].node \in live
                            => Ahead(node[fd'[g].node].kids, fd'[g].pos, owed[g])
    BY <1>1 DEF Listing
  <2>1. CASE g # f
    <3>1. fd'[g] = fd[g]
      BY <1>4, <2>1
    <3> QED BY <3>1 DEF RInv, Listing
  <2>2. CASE g = f
    <3>1. ~fd'[g].dir /\ owed[g] = {}
      BY <1>1, <1>4, <2>2 DEF RInv, Listing
    <3> QED BY <3>1
  <2> QED BY <2>1, <2>2
<1> QED BY <1>0, <1>1, <1>5, <1>6, <1>7, SameNodes

LEMMA ReadInStep ==
    ASSUME RInv, NEW t \in Tasks, ReadIn(t, 1)
    PROVE  RInv'
<1>0. /\ live \subseteq Nodes /\ Tables(fd, redir, owed) /\ cwd \in Nodes /\ Typed(node)
      /\ redir \in [Tasks -> Redirects] /\ 0 \in 0..1
  BY DEF RInv, Tree, Tables
<1> DEFINE n == redir[t][0].node
           k == RamfsRead(node[n], 1, redir[t][0].pos)
<1>1. /\ node' = node /\ live' = live /\ cwd' = cwd /\ fd' = fd /\ wild' = wild /\ cut' = cut
      /\ owed' = owed /\ redir' = [redir EXCEPT ![t][0].pos = redir[t][0].pos + k]
      /\ n \in live
  BY DEF ReadIn, OnRedirected
<1>2. redir[t][0].pos \in Nat /\ n \in Nodes /\ node[n].size \in Nat
  BY <1>0, <1>1, EntryTypes, FieldTypes
<1>3. k \in Nat /\ (redir[t][0].pos <= node[n].size => redir[t][0].pos + k <= node[n].size)
  BY <1>2, ReadBound
<1> HIDE DEF k
<1>4. /\ redir' \in [Tasks -> Redirects]
      /\ \A u \in Tasks, v \in 0..1 : u # t \/ v # 0 => redir'[u][v] = redir[u][v]
      /\ redir'[t][0].node = redir[t][0].node /\ redir'[t][0].pos = redir[t][0].pos + k
  <2>1. PICK q \in Nat : q = redir[t][0].pos + k
    BY <1>2, <1>3
  <2>2. OutMoves(redir, redir', t, 0, q)
    BY <1>1, <2>1 DEF OutMoves
  <2>3. /\ redir' \in [Tasks -> Redirects]
        /\ \A u \in Tasks, v \in 0..1 : u # t \/ v # 0 => redir'[u][v] = redir[u][v]
        /\ redir'[t][0].node = redir[t][0].node /\ redir'[t][0].pos = q
    BY <1>0, <2>2, OutMovedOn
  <2> QED BY <2>1, <2>3
<1>5. Tables(fd', redir', owed')
  BY <1>0, <1>1, <1>4 DEF Tables
<1>6. Gapless(node, live \ cut, fd', redir')
  <2> SUFFICES ASSUME NEW x \in live \ cut, node[x].type = NODE_FILE
               PROVE  Inside(x, node[x].size, fd', redir') /\ Clean(node[x])
    BY DEF Gapless
  <2>1. Inside(x, node[x].size, fd, redir) /\ Clean(node[x])
    BY DEF RInv, Gapless
  <2>2. \A u \in Tasks, v \in 0..1 : redir'[u][v].node = x => redir'[u][v].pos <= node[x].size
    <3> TAKE u \in Tasks, v \in 0..1
    <3>1. CASE u = t /\ v = 0
      BY <1>0, <1>3, <1>4, <2>1, <3>1 DEF Inside
    <3>2. CASE ~(u = t /\ v = 0)
      <4>1. redir'[u][v] = redir[u][v]
        BY <1>4, <3>2
      <4> QED BY <2>1, <4>1 DEF Inside
    <3> QED BY <3>1, <3>2
  <2> QED BY <1>1, <2>1, <2>2 DEF Inside
<1>7. Listing(node, live, fd', owed')
  BY <1>1 DEF RInv
<1> QED BY <1>0, <1>1, <1>5, <1>6, <1>7, SameNodes

(***************************************************************************)
(* ramfs_write of a byte at off of the file n.                             *)
(***************************************************************************)
LEMMA WroteIn ==
    ASSUME RInv, NEW n \in live, node[n].type = NODE_FILE, NEW b \in Bytes, NEW off \in Nat, NEW tab,
           Puts(node, tab, n, RamfsWrite(node[n], <<b>>, off))
    PROVE  /\ Tree(tab, live) /\ SameShape(node, tab)
           /\ tab[n].size = IF off + 1 > node[n].size THEN off + 1 ELSE node[n].size
           /\ \A x \in Nodes \ {n} : tab[x] = node[x]
           /\ Clean(node[n]) /\ off <= node[n].size => Clean(tab[n])
<1>0. Tree(node, live) /\ live \subseteq Nodes /\ Typed(node) /\ n \in Nodes
  BY DEF RInv, Tree
<1>1. /\ node[n] \in Records /\ node[n].size <= Len(node[n].data) /\ node[n].size \in Nat
      /\ b \in Nat /\ b # Junk
  BY <1>0, FieldTypes, NodeFacts
<1> DEFINE w == RamfsWrite(node[n], <<b>>, off)
<1>2. <<b>> \in Seq(Nat) /\ Len(<<b>>) = 1 /\ <<b>>[1] = b
  BY <1>1
<1>3. Wrote(node[n], w, <<b>>, off)
  BY <1>1, <1>2, WriteIs
<1> HIDE DEF w
<1>4. Puts(node, tab, n, w)
  BY DEF w
<1>5. Typed(tab) /\ SameShape(node, tab)
  BY <1>0, <1>3, <1>4, WrittenTyped
<1>6. tab[n] = w /\ \A x \in Nodes \ {n} : tab[x] = node[x]
  BY <1>0, <1>4 DEF Typed, Puts
<1>7. Tree(tab, live)
  BY <1>0, <1>5, ShapeKept
<1>8. /\ w.size = IF off + 1 > node[n].size THEN off + 1 ELSE node[n].size
      /\ \A i \in (off + 1)..(off + 1) : w.data[i] = <<b>>[i - off]
      /\ \A i \in 1..node[n].size : i \notin (off + 1)..(off + 1) => w.data[i] = node[n].data[i]
  BY <1>2, <1>3 DEF Wrote
<1>9. ASSUME Clean(node[n]), off <= node[n].size
      PROVE  Clean(w)
  <2> SUFFICES ASSUME NEW i \in 1..w.size PROVE w.data[i] # Junk
    BY DEF Clean
  <2>1. CASE i = off + 1
    <3>1. i \in (off + 1)..(off + 1) /\ i - off = 1
      BY <2>1
    <3> QED BY <3>1, <1>1, <1>2, <1>8
  <2>2. CASE i # off + 1
    <3>1. i \in 1..node[n].size /\ i \notin (off + 1)..(off + 1)
      BY <2>2, <1>1, <1>8, <1>9
    <3> QED BY <3>1, <1>8, <1>9 DEF Clean
  <2> QED BY <2>1, <2>2
<1> QED BY <1>5, <1>6, <1>7, <1>8, <1>9

(***************************************************************************)
(* The positions after a write: those that have moved are at its end.      *)
(***************************************************************************)
LEMMA WriteStep ==
    ASSUME RInv, NEW n \in live, node[n].type = NODE_FILE, NEW b \in Bytes, NEW off \in Nat,
           Puts(node, node', n, RamfsWrite(node[n], <<b>>, off)),
           live' = live, cwd' = cwd, wild' = wild, cut' = cut, owed' = owed,
           n \notin cut => off <= node[n].size,
           Tables(fd', redir', owed'),
           \A f \in FDs : /\ fd'[f].node = fd[f].node /\ fd'[f].dir = fd[f].dir
                          /\ \/ fd'[f] = fd[f]
                             \/ ~fd[f].dir /\ fd[f].node = n /\ fd'[f].pos = off + 1,
           \A t \in Tasks, w \in 0..1 :
                \/ redir'[t][w] = redir[t][w]
                \/ redir'[t][w].node = n /\ redir'[t][w].pos = off + 1
    PROVE  RInv'
<1>0. /\ Tree(node, live) /\ live \subseteq Nodes /\ Typed(node) /\ n \in Nodes
      /\ cwd \in Nodes /\ wild \in BOOLEAN /\ cut \subseteq Nodes /\ Tables(fd, redir, owed)
  BY DEF RInv, Tree
<1>1. /\ Tree(node', live) /\ SameShape(node, node')
      /\ node'[n].size = IF off + 1 > node[n].size THEN off + 1 ELSE node[n].size
      /\ \A x \in Nodes \ {n} : node'[x] = node[x]
      /\ Clean(node[n]) /\ off <= node[n].size => Clean(node'[n])
  BY WroteIn
<1>2. Gapless(node', live \ cut, fd', redir')
  <2> SUFFICES ASSUME NEW x \in live \ cut, node'[x].type = NODE_FILE
               PROVE  Inside(x, node'[x].size, fd', redir') /\ Clean(node'[x])
    BY DEF Gapless
  <2>1. x \in Nodes /\ node[x].type = NODE_FILE
    BY <1>0, <1>1 DEF SameShape
  <2>2. Inside(x, node[x].size, fd, redir) /\ Clean(node[x])
    BY <2>1 DEF RInv, Gapless
  <2>3. node[x].size \in Nat /\ node[n].size \in Nat
    BY <1>0, <2>1, FieldTypes
  <2>4. /\ \A f \in FDs : fd[f].pos \in Nat
        /\ \A t \in Tasks, w \in 0..1 : redir[t][w].pos \in Nat
    BY <1>0, EntryTypes
  <2>5. CASE x = n
    <3>1. off <= node[n].size /\ Clean(node'[n])
      BY <1>1, <2>2, <2>5
    <3>2. \A f \in FDs : fd'[f].node = n /\ ~fd'[f].dir => fd'[f].pos <= node'[n].size
      BY <1>1, <2>2, <2>3, <2>4, <2>5 DEF Inside
    <3>3. \A t \in Tasks, w \in 0..1 : redir'[t][w].node = n => redir'[t][w].pos <= node'[n].size
      BY <1>1, <2>2, <2>3, <2>4, <2>5 DEF Inside
    <3> QED BY <2>5, <3>1, <3>2, <3>3 DEF Inside
  <2>6. CASE x # n
    <3>1. node'[x] = node[x]
      BY <1>1, <2>1, <2>6
    <3>2. \A f \in FDs : fd'[f].node = x => fd'[f] = fd[f]
      BY <2>6
    <3>3. \A t \in Tasks, w \in 0..1 : redir'[t][w].node = x => redir'[t][w] = redir[t][w]
      BY <2>6
    <3> QED BY <2>2, <3>1, <3>2, <3>3 DEF Inside
  <2> QED BY <2>5, <2>6
<1>3. Listing(node', live, fd', owed)
  <2> SUFFICES ASSUME NEW f \in FDs
               PROVE  /\ ~fd'[f].dir \/ fd'[f].node \notin live => owed[f] = {}
                      /\ fd'[f].dir /\ fd'[f].node \in live
                            => Ahead(node'[fd'[f].node].kids, fd'[f].pos, owed[f])
    BY DEF Listing
  <2>1. /\ ~fd[f].dir \/ fd[f].node \notin live => owed[f] = {}
        /\ fd[f].dir /\ fd[f].node \in live => Ahead(node[fd[f].node].kids, fd[f].pos, owed[f])
    BY DEF RInv, Listing
  <2>2. fd'[f].node = fd[f].node /\ fd'[f].dir = fd[f].dir /\ (fd[f].dir => fd'[f] = fd[f])
    OBVIOUS
  <2>3. fd[f].node \in live => node'[fd[f].node].kids = node[fd[f].node].kids
    BY <1>0, <1>1 DEF SameShape
  <2> QED BY <2>1, <2>2, <2>3
<1>4. /\ Tree(node, live)' /\ Tables(fd, redir, owed)'
      /\ cwd' \in Nodes /\ wild' \in BOOLEAN /\ cut' \subseteq Nodes
      /\ Gapless(node, live \ cut, fd, redir)' /\ Listing(node, live, fd, owed)'
  BY <1>0, <1>1, <1>2, <1>3
<1> QED BY <1>4 DEF RInv

LEMMA FileWriteStep ==
    ASSUME RInv, NEW f \in FDs, NEW b \in Bytes, FileWrite(f, <<b>>)
    PROVE  RInv'
<1>0. /\ live \subseteq Nodes /\ Tables(fd, redir, owed) /\ fd \in [FDs -> Entries]
  BY DEF RInv, Tree, Tables
<1> DEFINE n == fd[f].node
           off == fd[f].pos
<1>1. /\ live' = live /\ cwd' = cwd /\ redir' = redir /\ wild' = wild /\ cut' = cut /\ owed' = owed
      /\ fd' = [fd EXCEPT ![f].pos = off + 1]
      /\ Puts(node, node', n, RamfsWrite(node[n], <<b>>, off))
      /\ n \in live /\ ~fd[f].dir /\ node[n].type = NODE_FILE
  BY DEF FileWrite, OnFile, Puts
<1>2. off \in Nat
  BY <1>0, EntryTypes
<1>3. /\ fd' \in [FDs -> Entries] /\ \A g \in FDs \ {f} : fd'[g] = fd[g]
      /\ fd'[f].node = n /\ fd'[f].dir = fd[f].dir /\ fd'[f].pos = off + 1
  <2>1. off + 1 \in Nat /\ Moves(fd, fd', f, off + 1)
    BY <1>1, <1>2 DEF Moves
  <2> QED BY <1>0, <2>1, MovedOn
<1>4. Tables(fd', redir', owed')
  BY <1>0, <1>1, <1>3 DEF Tables
<1>5. n \notin cut => off <= node[n].size
  BY <1>1 DEF RInv, Gapless, Inside
<1>6. \A g \in FDs : /\ fd'[g].node = fd[g].node /\ fd'[g].dir = fd[g].dir
                     /\ \/ fd'[g] = fd[g]
                        \/ ~fd[g].dir /\ fd[g].node = n /\ fd'[g].pos = off + 1
  <2> TAKE g \in FDs
  <2>1. CASE g = f
    BY <1>1, <1>3, <2>1
  <2>2. CASE g # f
    BY <1>3, <2>2
  <2> QED BY <2>1, <2>2
<1>7. \A t \in Tasks, w \in 0..1 :
        \/ redir'[t][w] = redir[t][w]
        \/ redir'[t][w].node = n /\ redir'[t][w].pos = off + 1
  BY <1>1
<1> HIDE DEF n, off
<1> QED BY <1>1, <1>2, <1>4, <1>5, <1>6, <1>7, WriteStep

(***************************************************************************)
(* SYS_WRITE of a redirected task.                                         *)
(***************************************************************************)
LEMMA WriteOutStep ==
    ASSUME RInv, NEW t \in Tasks, NEW b \in Bytes, WriteOut(t, <<b>>)
    PROVE  RInv'
<1>0. /\ live \subseteq Nodes /\ Tables(fd, redir, owed) /\ Typed(node)
      /\ redir \in [Tasks -> Redirects] /\ 1 \in 0..1
      /\ Tree(node, live) /\ cwd \in Nodes /\ wild \in BOOLEAN /\ cut \subseteq Nodes
  BY DEF RInv, Tree, Tables
<1> DEFINE n == redir[t][1].node
           off == redir[t][1].pos
<1>1. /\ live' = live /\ cwd' = cwd /\ fd' = fd /\ wild' = wild /\ owed' = owed
      /\ redir' = [redir EXCEPT ![t][1].pos = redir[t][1].pos + 1]
      /\ n \in live /\ node[n].type = NODE_FILE
      /\ \/ Puts(node, node', n, RamfsWrite(node[n], <<b>>, off)) /\ cut' = cut
         \/ cut' = cut \cup {n} /\ node' = node
  BY DEF WriteOut, OnRedirected, Puts
<1>2. off \in Nat /\ n \in Nodes
  BY <1>0, <1>1, EntryTypes
<1>3. /\ redir' \in [Tasks -> Redirects]
      /\ \A u \in Tasks, v \in 0..1 : u # t \/ v # 1 => redir'[u][v] = redir[u][v]
      /\ redir'[t][1].node = n /\ redir'[t][1].pos = off + 1
  <2>1. PICK q \in Nat : q = off + 1
    BY <1>2
  <2>2. OutMoves(redir, redir', t, 1, q)
    BY <1>1, <2>1 DEF OutMoves
  <2>3. PICK w \in 0..1 : w = 1
    BY <1>0
  <2>4. /\ redir' \in [Tasks -> Redirects]
        /\ \A u \in Tasks, v \in 0..1 : u # t \/ v # w => redir'[u][v] = redir[u][v]
        /\ redir'[t][w].node = redir[t][w].node /\ redir'[t][w].pos = q
    BY <1>0, <2>2, <2>3, OutMovedOn
  <2> QED BY <2>1, <2>3, <2>4
<1>4. Tables(fd', redir', owed')
  BY <1>0, <1>1, <1>3 DEF Tables
<1>5. n \notin cut => off <= node[n].size
  BY <1>0, <1>1 DEF RInv, Gapless, Inside
<1>6. \A u \in Tasks, v \in 0..1 :
        \/ redir'[u][v] = redir[u][v]
        \/ redir'[u][v].node = n /\ redir'[u][v].pos = off + 1
  <2> TAKE u \in Tasks, v \in 0..1
  <2>1. CASE u = t /\ v = 1
    BY <1>3, <2>1
  <2>2. CASE ~(u = t /\ v = 1)
    BY <1>3, <2>2
  <2> QED BY <2>1, <2>2
<1>7. CASE Puts(node, node', n, RamfsWrite(node[n], <<b>>, off)) /\ cut' = cut
  <2>1. \A g \in FDs : /\ fd'[g].node = fd[g].node /\ fd'[g].dir = fd[g].dir
                       /\ \/ fd'[g] = fd[g]
                          \/ ~fd[g].dir /\ fd[g].node = n /\ fd'[g].pos = off + 1
    BY <1>1
  <2> HIDE DEF n, off
  <2> QED BY <1>1, <1>2, <1>4, <1>5, <1>6, <1>7, <2>1, WriteStep
<1>8. CASE cut' = cut \cup {n} /\ node' = node
  <2>1. Gapless(node, live \ cut', fd, redir')
    <3> SUFFICES ASSUME NEW x \in live \ cut', node[x].type = NODE_FILE
                 PROVE  Inside(x, node[x].size, fd, redir') /\ Clean(node[x])
      BY DEF Gapless
    <3>1. x # n /\ x \in live \ cut
      BY <1>8
    <3>2. Inside(x, node[x].size, fd, redir) /\ Clean(node[x])
      BY <3>1 DEF RInv, Gapless
    <3>3. \A u \in Tasks, v \in 0..1 : redir'[u][v].node = x => redir'[u][v] = redir[u][v]
      BY <1>6, <3>1
    <3> QED BY <3>2, <3>3 DEF Inside
  <2>2. /\ Tree(node, live)' /\ Tables(fd, redir, owed)'
        /\ cwd' \in Nodes /\ wild' \in BOOLEAN /\ cut' \subseteq Nodes
        /\ Gapless(node, live \ cut, fd, redir)' /\ Listing(node, live, fd, owed)'
    <3>1. Listing(node, live, fd, owed)
      BY DEF RInv
    <3> QED BY <1>0, <1>1, <1>2, <1>4, <1>8, <2>1, <3>1
  <2> QED BY <2>2 DEF RInv
<1> QED BY <1>1, <1>7, <1>8

(***************************************************************************)
(* SYS_READDIR: what is returned is the entry at the position.             *)
(***************************************************************************)
LEMMA DirReadStep ==
    ASSUME RInv, NEW f \in FDs, DirRead(f)
    PROVE  RInv'
<1>0. /\ live \subseteq Nodes /\ Tables(fd, redir, owed) /\ cwd \in Nodes /\ Typed(node)
      /\ fd \in [FDs -> Entries] /\ owed \in [FDs -> SUBSET Nodes]
  BY DEF RInv, Tree, Tables
<1> DEFINE n == fd[f].node
           pos == fd[f].pos
           kids == node[n].kids
           left == owed[f] \ {kids[pos + 1]}
<1>1. /\ node' = node /\ live' = live /\ cwd' = cwd /\ redir' = redir /\ wild' = wild /\ cut' = cut
      /\ fd' = [fd EXCEPT ![f].pos = pos + 1] /\ owed' = [owed EXCEPT ![f] = left]
      /\ n \in live /\ fd[f].dir /\ pos < Len(kids)
  BY DEF DirRead, NextEntry
<1>2. pos \in Nat /\ Len(kids) \in Nat
  BY <1>0, <1>1, EntryTypes, FieldTypes
<1>3. /\ fd' \in [FDs -> Entries] /\ \A g \in FDs \ {f} : fd'[g] = fd[g]
      /\ fd'[f].node = n /\ fd'[f].dir = fd[f].dir /\ fd'[f].pos = pos + 1
  <2>1. pos + 1 \in Nat /\ Moves(fd, fd', f, pos + 1)
    BY <1>1, <1>2 DEF Moves
  <2> QED BY <1>0, <2>1, MovedOn
<1>4. owed' \in [FDs -> SUBSET Nodes] /\ owed'[f] = left /\ \A g \in FDs \ {f} : owed'[g] = owed[g]
  BY <1>0, <1>1
<1>5. Tables(fd', redir', owed')
  BY <1>0, <1>1, <1>3, <1>4 DEF Tables
<1>6. Gapless(node, live \ cut, fd', redir')
  <2> SUFFICES ASSUME NEW x \in live \ cut, node[x].type = NODE_FILE
               PROVE  Inside(x, node[x].size, fd', redir') /\ Clean(node[x])
    BY DEF Gapless
  <2>1. Inside(x, node[x].size, fd, redir) /\ Clean(node[x])
    BY DEF RInv, Gapless
  <2>2. \A g \in FDs : ~fd'[g].dir => fd'[g] = fd[g]
    BY <1>1, <1>3
  <2> QED BY <1>1, <2>1, <2>2 DEF Inside
<1>7. Listing(node, live, fd', owed')
  <2> SUFFICES ASSUME NEW g \in FDs
               PROVE  /\ ~fd'[g].dir \/ fd'[g].node \notin live => owed'[g] = {}
                      /\ fd'[g].dir /\ fd'[g].node \in live
                            => Ahead(node[fd'[g].node].kids, fd'[g].pos, owed'[g])
    BY DEF Listing
  <2>1. CASE g # f
    <3>1. fd'[g] = fd[g] /\ owed'[g] = owed[g]
      BY <1>3, <1>4, <2>1
    <3> QED BY <3>1 DEF RInv, Listing
  <2>2. CASE g = f
    <3>1. Ahead(kids, pos, owed[f])
      BY <1>1 DEF RInv, Listing
    <3>2. Ahead(kids, pos + 1, left)
      <4> SUFFICES ASSUME NEW x \in left PROVE \E i \in 1..Len(kids) : i > pos + 1 /\ kids[i] = x
        BY DEF Ahead
      <4>1. PICK i \in 1..Len(kids) : i > pos /\ kids[i] = x
        BY <3>1 DEF Ahead
      <4>2. i # pos + 1
        BY <4>1
      <4>3. i > pos + 1
        BY <1>2, <4>1, <4>2
      <4> QED BY <4>1, <4>3
    <3> HIDE DEF left
    <3> QED BY <1>1, <1>3, <1>4, <2>2, <3>2
  <2> QED BY <2>1, <2>2
<1> QED BY <1>0, <1>1, <1>5, <1>6, <1>7, SameNodes
LEMMA ChdirStep ==
    ASSUME RInv, NEW p \in DirPaths, Chdir(p)
    PROVE  RInv'
<1>0. Tree(node, live) /\ live \subseteq Nodes
  BY DEF RInv, Tree
<1>1. Lookup(p) \in live
  BY <1>0, LookupStays DEF Chdir, Reaches
<1>2. /\ cwd' \in Nodes /\ node' = node /\ live' = live /\ fd' = fd /\ redir' = redir /\ wild' = wild
      /\ cut' = cut /\ owed' = owed
  BY <1>0, <1>1 DEF Chdir
<1> QED BY <1>2, SameNodes DEF RInv

LEMMA InheritStep ==
    ASSUME RInv, NEW t \in Tasks, NEW u \in Tasks, Inherit(t, u)
    PROVE  RInv'
<1>0. Tables(fd, redir, owed) /\ redir \in [Tasks -> Redirects] /\ cwd \in Nodes
  BY DEF RInv, Tables
<1>1. /\ cwd' = cwd /\ node' = node /\ live' = live /\ fd' = fd /\ wild' = wild
      /\ cut' = cut /\ owed' = owed /\ redir' = [redir EXCEPT ![u] = redir[t]]
  BY DEF Inherit
<1>2. redir' \in [Tasks -> Redirects] /\ \A v \in Tasks : redir'[v] = IF v = u THEN redir[t] ELSE redir[v]
  BY <1>0, <1>1
<1>3. Gapless(node, live \ cut, fd', redir')
  <2> SUFFICES ASSUME NEW x \in live \ cut, node[x].type = NODE_FILE
               PROVE  Inside(x, node[x].size, fd', redir') /\ Clean(node[x])
    BY DEF Gapless
  <2>1. Inside(x, node[x].size, fd, redir) /\ Clean(node[x])
    BY DEF RInv, Gapless
  <2> QED BY <1>1, <1>2, <2>1 DEF Inside
<1>4. Tables(fd', redir', owed') /\ Listing(node, live, fd', owed')
  BY <1>0, <1>1, <1>2 DEF RInv, Tables
<1> QED BY <1>0, <1>1, <1>3, <1>4, SameNodes

LEMMA UseRemovedStep == ASSUME UseRemoved PROVE RInv'
<1>1. /\ node' = Empty /\ live' = {Root} /\ cwd' = Root /\ wild' = TRUE /\ cut' = {}
      /\ fd' = [f \in FDs |-> NoFd] /\ redir' = [t \in Tasks |-> Nothing] /\ owed' = [f \in FDs |-> {}]
  BY DEF UseRemoved
<1>2. Empty[Root].type = NODE_DIR
  BY EmptyTree DEF Tree
<1>3. Gapless(node', live' \ cut', fd', redir')
  BY <1>1, <1>2, NodeFacts DEF Gapless
<1>4. Tables(fd', redir', owed') /\ Listing(node', live', fd', owed')
  BY <1>1, NothingOpen
<1>5. Tree(node', live') /\ cwd' \in Nodes /\ wild' \in BOOLEAN /\ cut' \subseteq Nodes
  BY <1>1, EmptyTree, NodeFacts
<1>6. /\ Tree(node, live)' /\ Tables(fd, redir, owed)'
      /\ cwd' \in Nodes /\ wild' \in BOOLEAN /\ cut' \subseteq Nodes
      /\ Gapless(node, live \ cut, fd, redir)' /\ Listing(node, live, fd, owed)'
  BY <1>3, <1>4, <1>5
<1> QED BY <1>6 DEF RInv

(***************************************************************************)
(* SYS_REDIR of a file that is there; stdout empties it.                   *)
(***************************************************************************)
Emptied(tab, new, n) == new = [tab EXCEPT ![n].size = 0]

LEMMA EmptiedIs ==
    ASSUME NEW tab, Typed(tab), NEW n \in Nodes, NEW new, Emptied(tab, new, n)
    PROVE  /\ Typed(new) /\ SameShape(tab, new)
           /\ new[n].size = 0 /\ \A x \in Nodes \ {n} : new[x] = tab[x]
<1> DEFINE e == [tab[n] EXCEPT !.size = 0]
<1>1. tab[n] \in Records /\ tab \in [Nodes -> Records] /\ Len(tab[n].data) \in Nat
  BY FieldTypes DEF Typed
<1>2. \A r \in Records : /\ [r EXCEPT !.size = 0] \in Records /\ [r EXCEPT !.size = 0].size = 0
                         /\ [r EXCEPT !.size = 0].name = r.name /\ [r EXCEPT !.size = 0].type = r.type
                         /\ [r EXCEPT !.size = 0].parent = r.parent /\ [r EXCEPT !.size = 0].kids = r.kids
                         /\ [r EXCEPT !.size = 0].data = r.data
  BY DEF Records
<1>3. /\ e \in Records /\ e.size = 0 /\ e.name = tab[n].name /\ e.type = tab[n].type
      /\ e.parent = tab[n].parent /\ e.kids = tab[n].kids /\ e.data = tab[n].data
  BY <1>1, <1>2
<1>4. new = [tab EXCEPT ![n] = e]
  BY DEF Emptied
<1> HIDE DEF e
<1>5. new \in [Nodes -> Records] /\ new[n] = e /\ \A x \in Nodes \ {n} : new[x] = tab[x]
  BY <1>1, <1>3, <1>4
<1>6. Typed(new)
  BY <1>1, <1>3, <1>5 DEF Typed
<1>7. SameShape(tab, new)
  BY <1>3, <1>5 DEF SameShape
<1> QED BY <1>3, <1>5, <1>6, <1>7

LEMMA RedirStep ==
    ASSUME RInv, NEW t \in Tasks, NEW w \in 0..1, NEW p \in FilePaths, Redir(t, w, p)
    PROVE  RInv'
<1>0. /\ Tree(node, live) /\ live \subseteq Nodes /\ Typed(node) /\ Tables(fd, redir, owed)
      /\ cwd \in Nodes /\ wild \in BOOLEAN /\ cut \subseteq Nodes
  BY DEF RInv, Tree
<1> DEFINE n == Lookup(p)
<1>1. n \in live /\ n \in Nodes
  BY <1>0, LookupStays DEF Redir, Reaches
<1>2. /\ live' = live /\ cwd' = cwd /\ fd' = fd /\ wild' = wild /\ owed' = owed
      /\ Redirected(t, w, n) /\ node[n].type = NODE_FILE
      /\ \/ w = 1 /\ Emptied(node, node', n)
         \/ w # 1 /\ node' = node
      /\ cut' = IF w = 1 /\ Passed(n, redir') THEN cut \cup {n} ELSE cut
  BY DEF Redir, Emptied
<1> HIDE DEF n
<1>3. /\ redir' \in [Tasks -> Redirects]
      /\ \A u \in Tasks, v \in 0..1 : \/ redir'[u][v] = redir[u][v]
                                      \/ redir'[u][v].node = n /\ redir'[u][v].pos = 0
  BY <1>0, <1>1, <1>2, RedirectedStep
<1>4. Tables(fd', redir', owed')
  BY <1>0, <1>2, <1>3 DEF Tables
<1>5. Typed(node') /\ SameShape(node, node') /\ \A x \in Nodes \ {n} : node'[x] = node[x]
  <2>1. SameShape(node, node)
    BY DEF SameShape
  <2> QED BY <1>0, <1>1, <1>2, <2>1, EmptiedIs
<1>6. Tree(node', live)
  BY <1>0, <1>5, ShapeKept
<1>7. Gapless(node', live \ cut', fd, redir')
  <2> SUFFICES ASSUME NEW x \in live \ cut', node'[x].type = NODE_FILE
               PROVE  Inside(x, node'[x].size, fd, redir') /\ Clean(node'[x])
    BY DEF Gapless
  <2>1. x \in live \ cut /\ x \in Nodes /\ node[x].type = NODE_FILE
    BY <1>0, <1>2, <1>5 DEF SameShape
  <2>2. Inside(x, node[x].size, fd, redir) /\ Clean(node[x]) /\ node[x].size \in Nat
    BY <1>0, <2>1, FieldTypes DEF RInv, Gapless
  <2>3. CASE x # n \/ w # 1
    <3>1. node'[x] = node[x]
      BY <1>2, <1>5, <2>1, <2>3
    <3>2. \A u \in Tasks, v \in 0..1 : redir'[u][v].node = x => redir'[u][v].pos <= node[x].size
      BY <1>3, <2>2 DEF Inside
    <3> QED BY <2>2, <3>1, <3>2 DEF Inside
  <2>4. CASE x = n /\ w = 1
    <3>1. node'[x].size = 0 /\ ~Passed(n, redir')
      BY <1>0, <1>1, <1>2, <2>4, EmptiedIs
    <3>2. /\ \A f \in FDs : fd[f].node = n => ~(fd[f].pos > 0)
          /\ \A u \in Tasks, v \in 0..1 : redir'[u][v].node = n => ~(redir'[u][v].pos > 0)
      BY <3>1 DEF Passed
    <3>3. /\ \A f \in FDs : fd[f].pos \in Nat
          /\ \A u \in Tasks, v \in 0..1 : redir'[u][v].pos \in Nat
      BY <1>2, <1>4, EntryTypes
    <3>4. /\ \A f \in FDs : fd[f].node = n => fd[f].pos <= 0
          /\ \A u \in Tasks, v \in 0..1 : redir'[u][v].node = n => redir'[u][v].pos <= 0
      BY <3>2, <3>3
    <3>5. Clean(node'[x])
      BY <3>1 DEF Clean
    <3> QED BY <2>4, <3>1, <3>4, <3>5 DEF Inside
  <2> QED BY <2>3, <2>4
<1>8. Listing(node', live, fd, owed)
  <2>1. \A x \in live : node'[x].kids = node[x].kids
    BY <1>0, <1>5 DEF SameShape
  <2> QED BY <2>1 DEF RInv, Listing
<1>9. /\ Tree(node, live)' /\ Tables(fd, redir, owed)'
      /\ cwd' \in Nodes /\ wild' \in BOOLEAN /\ cut' \subseteq Nodes
      /\ Gapless(node, live \ cut, fd, redir)' /\ Listing(node, live, fd, owed)'
  BY <1>0, <1>1, <1>2, <1>4, <1>6, <1>7, <1>8
<1> QED BY <1>9 DEF RInv
(***************************************************************************)
(* SYS_UNLINK.  Of the entries that a listing has yet to return only the   *)
(* one that is removed, and the one that slips under its position, are     *)
(* lost to it.                                                             *)
(***************************************************************************)
LEMMA SlipsUnder ==
    ASSUME NEW kids, NEW less, Len(kids) \in Nat, Len(less) = Len(kids) - 1, NEW at \in 1..Len(kids),
           NEW n, kids[at] = n,
           \A i \in 1..(Len(kids) - 1) : /\ i < at => less[i] = kids[i]
                                         /\ i >= at => less[i] = kids[i + 1],
           NEW pos \in Nat, NEW S, Ahead(kids, pos, S), NEW T, T \subseteq S, n \notin T,
           at <= pos /\ pos < Len(kids) => kids[pos + 1] \notin T
    PROVE  Ahead(less, pos, T)
<1> SUFFICES ASSUME NEW x \in T PROVE \E i \in 1..Len(less) : i > pos /\ less[i] = x
  BY DEF Ahead
<1>1. PICK i \in 1..Len(kids) : i > pos /\ kids[i] = x
  BY DEF Ahead
<1>2. i # at
  BY <1>1
<1>3. CASE i < at
  BY <1>1, <1>3
<1>4. CASE i > at
  <2>1. ASSUME at <= pos PROVE i # pos + 1
    <3>1. pos < Len(kids)
      BY <1>1
    <3>2. kids[pos + 1] # x
      BY <2>1, <3>1
    <3> QED BY <1>1, <3>2
  <2>2. i - 1 \in 1..Len(less) /\ i - 1 > pos /\ i - 1 >= at /\ (i - 1) + 1 = i
    BY <1>1, <1>4, <2>1
  <2>3. less[i - 1] = kids[i]
    BY <2>2
  <2> QED BY <1>1, <2>2, <2>3
<1> QED BY <1>2, <1>3, <1>4

LEMMA UnlinkStep ==
    ASSUME RInv, NEW p \in FilePaths \cup DirPaths, Unlink(p)
    PROVE  RInv'
<1>0. /\ Tree(node, live) /\ live \subseteq Nodes /\ Typed(node) /\ Tables(fd, redir, owed)
      /\ cwd \in Nodes /\ wild \in BOOLEAN /\ cut \subseteq Nodes
  BY DEF RInv, Tree
<1> DEFINE n == Lookup(p)
           dir == node[n].parent
           kids == node[dir].kids
           at == PlaceOf(kids, n)
           Lost(f) == {n} \cup IF at <= fd[f].pos /\ fd[f].pos < Len(kids)
                               THEN {kids[fd[f].pos + 1]} ELSE {}
           Owes(f) == IF fd[f].dir /\ fd[f].node = dir THEN owed[f] \ Lost(f)
                      ELSE IF fd[f].node = n THEN {} ELSE owed[f]
<1>1. n \in live /\ n \in Nodes
  BY <1>0, LookupStays DEF Unlink, Reaches
<1>2. /\ cwd' = cwd /\ fd' = fd /\ redir' = redir /\ wild' = wild /\ cut' = cut
      /\ node[n].parent # Null /\ (node[n].type = NODE_DIR => node[n].kids = << >>)
      /\ live' = live \ {n}
  BY DEF Unlink, Removable
<1>3. node' = Removed(node, n)
  BY DEF Unlink, Removed, PlaceOf
<1>4. owed' = [f \in FDs |-> Owes(f)]
  BY DEF Unlink, PlaceOf
<1> HIDE DEF n
<1>5. Tree(node', live')
  BY <1>0, <1>1, <1>2, <1>3, RemovedTree
<1>6. /\ n # Root /\ dir \in live /\ dir # n /\ at \in 1..Len(kids) /\ kids[at] = n
  BY <1>0, <1>1, <1>2, RemovalFacts
<1>7. IsRemoved(node, node', n, dir, at)
  <2>1. dir \in Nodes
    BY <1>0, <1>6
  <2> HIDE DEF at
  <2> QED BY <1>0, <1>1, <1>3, <1>6, <2>1, RemovedFields DEF at
<1> HIDE DEF at, dir, Lost
<1>8. owed' \in [FDs -> SUBSET Nodes] /\ \A f \in FDs : owed'[f] = Owes(f)
  <2>1. \A f \in FDs : Owes(f) \subseteq Nodes
    BY <1>0, EntryTypes
  <2> HIDE DEF Owes
  <2> QED BY <1>4, <2>1
<1>9. Tables(fd', redir', owed')
  BY <1>0, <1>2, <1>8 DEF Tables
<1>10. Gapless(node', live' \ cut', fd, redir)
  <2> SUFFICES ASSUME NEW x \in live' \ cut', node'[x].type = NODE_FILE
               PROVE  Inside(x, node'[x].size, fd, redir) /\ Clean(node'[x])
    BY DEF Gapless
  <2>1. x \in live \ cut /\ x \in Nodes \ {n}
    BY <1>0, <1>2
  <2>2. node'[x].size = node[x].size /\ node'[x].type = node[x].type /\ node'[x].data = node[x].data
    BY <1>7, <2>1 DEF IsRemoved
  <2> QED BY <2>1, <2>2 DEF RInv, Gapless, Clean
<1>11. Listing(node', live', fd, owed')
  <2> SUFFICES ASSUME NEW f \in FDs
               PROVE  /\ ~fd[f].dir \/ fd[f].node \notin live' => owed'[f] = {}
                      /\ fd[f].dir /\ fd[f].node \in live'
                            => Ahead(node'[fd[f].node].kids, fd[f].pos, owed'[f])
    BY DEF Listing
  <2>1. /\ ~fd[f].dir \/ fd[f].node \notin live => owed[f] = {}
        /\ fd[f].dir /\ fd[f].node \in live => Ahead(node[fd[f].node].kids, fd[f].pos, owed[f])
    BY DEF RInv, Listing
  <2>2. owed'[f] = Owes(f)
    BY <1>8
  <2>3. CASE fd[f].dir /\ fd[f].node = dir
    <3>1. owed'[f] = owed[f] \ Lost(f) /\ Ahead(kids, fd[f].pos, owed[f]) /\ dir \in live'
      BY <1>2, <1>6, <2>1, <2>2, <2>3
    <3>2. /\ Len(kids) \in Nat /\ fd[f].pos \in Nat
      BY <1>0, <1>6, EntryTypes, FieldTypes
    <3>3. /\ Len(node'[dir].kids) = Len(kids) - 1
          /\ \A i \in 1..(Len(kids) - 1) : /\ i < at => node'[dir].kids[i] = kids[i]
                                           /\ i >= at => node'[dir].kids[i] = kids[i + 1]
      BY <1>7 DEF IsRemoved
    <3>4. /\ owed'[f] \subseteq owed[f] /\ n \notin owed'[f]
          /\ at <= fd[f].pos /\ fd[f].pos < Len(kids) => kids[fd[f].pos + 1] \notin owed'[f]
      BY <3>1 DEF Lost
    <3> HIDE DEF kids
    <3>5. Ahead(node'[dir].kids, fd[f].pos, owed'[f])
      BY <1>6, <3>1, <3>2, <3>3, <3>4, SlipsUnder
    <3> QED BY <2>3, <3>1, <3>5
  <2>4. CASE ~(fd[f].dir /\ fd[f].node = dir) /\ fd[f].node = n
    <3>1. owed'[f] = {} /\ n \notin live'
      BY <1>2, <2>2, <2>4
    <3> QED BY <2>4, <3>1
  <2>5. CASE ~(fd[f].dir /\ fd[f].node = dir) /\ fd[f].node # n
    <3>1. owed'[f] = owed[f]
      BY <2>2, <2>5
    <3>2. fd[f].dir /\ fd[f].node \in live => node'[fd[f].node] = node[fd[f].node]
      BY <1>0, <1>7, <2>5 DEF IsRemoved
    <3> QED BY <1>2, <2>1, <2>5, <3>1, <3>2
  <2> QED BY <2>3, <2>4, <2>5
<1>12. /\ Tree(node, live)' /\ Tables(fd, redir, owed)'
       /\ cwd' \in Nodes /\ wild' \in BOOLEAN /\ cut' \subseteq Nodes
       /\ Gapless(node, live \ cut, fd, redir)' /\ Listing(node, live, fd, owed)'
  BY <1>0, <1>2, <1>5, <1>9, <1>10, <1>11
<1> QED BY <1>12 DEF RInv

LEMMA CallInv == ASSUME RInv, RNext PROVE RInv'
<1>1. ASSUME NEW p \in FilePaths, FileOpen(p) \/ FileOpenNew(p) PROVE RInv'
  BY <1>1, FileOpenStep, FileOpenNewStep
<1>2. ASSUME NEW p \in DirPaths, DirOpen(p) \/ Mkdir(p) \/ Chdir(p) PROVE RInv'
  BY <1>2, DirOpenStep, MkdirStep, ChdirStep
<1>3. ASSUME NEW p \in FilePaths \cup DirPaths, Unlink(p) PROVE RInv'
  BY <1>3, UnlinkStep
<1>4. ASSUME NEW f \in FDs, FileClose(f) \/ FileRead(f, 1) \/ DirRead(f) PROVE RInv'
  BY <1>4, FileCloseStep, FileReadStep, DirReadStep
<1>5. ASSUME NEW f \in FDs, NEW b \in Bytes, FileWrite(f, <<b>>) PROVE RInv'
  BY <1>5, FileWriteStep
<1>6. ASSUME NEW t \in Tasks, NEW w \in 0..1, NEW p \in FilePaths, Redir(t, w, p) \/ RedirNew(t, w, p)
      PROVE  RInv'
  BY <1>6, RedirStep, RedirNewStep
<1>7. ASSUME NEW t \in Tasks, NEW b \in Bytes, WriteOut(t, <<b>>) PROVE RInv'
  BY <1>7, WriteOutStep
<1>8. ASSUME NEW t \in Tasks, ReadIn(t, 1) PROVE RInv'
  BY <1>8, ReadInStep
<1>9. ASSUME NEW t \in Tasks, NEW u \in Tasks, Inherit(t, u) PROVE RInv'
  BY <1>9, InheritStep
<1>10. ASSUME UseRemoved PROVE RInv'
  BY <1>10, UseRemovedStep
<1> QED BY <1>1, <1>2, <1>3, <1>4, <1>5, <1>6, <1>7, <1>8, <1>9, <1>10 DEF RNext
-----------------------------------------------------------------------------
(***************************************************************************)
(* ramfs_deserialize, for whatever is on the disk: at every turn of the    *)
(* loop there is a tree, and the open directories are in it.               *)
(***************************************************************************)
Images == [1..BlobUnits -> Nat]

States == [pos : Nat, dirs : Seq(Nodes), tab : [Nodes -> Records], in : SUBSET Nodes, on : BOOLEAN]

Walks == {r \in States : /\ Tree(r.tab, r.in) /\ r.dirs # << >>
                         /\ \A i \in 1..Len(r.dirs) : /\ r.dirs[i] \in r.in
                                                      /\ r.tab[r.dirs[i]].type = NODE_DIR}

Start0 == [pos |-> 2, dirs |-> <<Root>>, tab |-> Empty, in |-> {Root}, on |-> TRUE]

Same(r, s) == s.dirs = r.dirs /\ s.tab = r.tab /\ s.in = r.in

LEMMA WalkTypes ==
    ASSUME NEW r \in Walks
    PROVE  /\ r \in States /\ r.pos \in Nat /\ r.dirs \in Seq(Nodes) /\ r.in \subseteq Nodes /\ r.on \in BOOLEAN
           /\ Tree(r.tab, r.in) /\ Typed(r.tab)
           /\ Len(r.dirs) \in Nat \ {0} /\ Last(r.dirs) = r.dirs[Len(r.dirs)]
           /\ \A i \in 1..Len(r.dirs) : r.dirs[i] \in r.in /\ r.tab[r.dirs[i]].type = NODE_DIR
           /\ Last(r.dirs) \in r.in /\ r.tab[Last(r.dirs)].type = NODE_DIR
<1>1. r \in States /\ Tree(r.tab, r.in) /\ r.dirs # << >>
  BY DEF Walks
<1>2. r.pos \in Nat /\ r.dirs \in Seq(Nodes) /\ r.in \subseteq Nodes /\ r.on \in BOOLEAN
  BY <1>1 DEF States
<1>3. Len(r.dirs) \in Nat \ {0} /\ Last(r.dirs) = r.dirs[Len(r.dirs)]
  BY <1>1, <1>2 DEF Last
<1>4. \A i \in 1..Len(r.dirs) : r.dirs[i] \in r.in /\ r.tab[r.dirs[i]].type = NODE_DIR
  BY DEF Walks
<1>5. Len(r.dirs) \in 1..Len(r.dirs)
  BY <1>3
<1> QED BY <1>1, <1>2, <1>3, <1>4, <1>5 DEF Tree

LEMMA WalkStarts ==
    /\ Start0 \in Walks /\ Start0.pos = 2 /\ Start0.dirs = <<Root>> /\ Start0.tab = Empty
    /\ Start0.in = {Root} /\ Start0.on = TRUE
<1>1. Start0.pos = 2 /\ Start0.dirs = <<Root>> /\ Start0.tab = Empty /\ Start0.in = {Root} /\ Start0.on = TRUE
  BY DEF Start0
<1>2. Tree(Empty, {Root}) /\ Empty \in [Nodes -> Records] /\ Empty[Root].type = NODE_DIR
  BY EmptyTree DEF Tree, Typed
<1>3. Start0 \in States
  BY <1>2, NodeFacts DEF Start0, States
<1>4. /\ <<Root>> # << >> /\ Len(<<Root>>) = 1
      /\ \A i \in 1..1 : <<Root>>[i] = Root
  OBVIOUS
<1> QED BY <1>1, <1>2, <1>3, <1>4 DEF Walks

(***************************************************************************)
(* What the turns of the loop do.                                          *)
(***************************************************************************)
LEMMA StopIs ==
    ASSUME NEW r \in Walks
    PROVE  Stop(r) \in Walks /\ Stop(r).on = FALSE /\ Stop(r).pos = r.pos /\ Same(r, Stop(r))
<1>1. \A x \in States : /\ [x EXCEPT !.on = FALSE] \in States
                        /\ [x EXCEPT !.on = FALSE].on = FALSE /\ [x EXCEPT !.on = FALSE].pos = x.pos
                        /\ [x EXCEPT !.on = FALSE].dirs = x.dirs /\ [x EXCEPT !.on = FALSE].tab = x.tab
                        /\ [x EXCEPT !.on = FALSE].in = x.in
  BY DEF States
<1>2. /\ Stop(r) \in States /\ Stop(r).on = FALSE /\ Stop(r).pos = r.pos
      /\ Stop(r).dirs = r.dirs /\ Stop(r).tab = r.tab /\ Stop(r).in = r.in
  BY <1>1, WalkTypes DEF Stop
<1> QED BY <1>2 DEF Walks, Same

(***************************************************************************)
(* The position and the open directories have changed.                     *)
(***************************************************************************)
Turned(r, s, p, e) == s = [r EXCEPT !.pos = p, !.dirs = e]

LEMMA TurnedIs ==
    ASSUME NEW r \in States, NEW s, NEW p \in Nat, NEW e \in Seq(Nodes), Turned(r, s, p, e)
    PROVE  s \in States /\ s.pos = p /\ s.dirs = e /\ s.tab = r.tab /\ s.in = r.in /\ s.on = r.on
<1>1. s = [r EXCEPT !.pos = p, !.dirs = e]
  BY DEF Turned
<1>2. r \in [pos : Nat, dirs : Seq(Nodes), tab : [Nodes -> Records], in : SUBSET Nodes, on : BOOLEAN]
  BY DEF States
<1> QED BY <1>1, <1>2 DEF States

Skipped(r) == [r EXCEPT !.pos = @ + 2]
Closed(r)  == [r EXCEPT !.pos = @ + 2, !.dirs = Front(@)]

LEMMA SkipIs ==
    ASSUME NEW r \in Walks
    PROVE  Skipped(r) \in Walks /\ Skipped(r).on = r.on /\ Skipped(r).pos = r.pos + 2 /\ Same(r, Skipped(r))
<1>1. \A x \in States : /\ [x EXCEPT !.pos = @ + 2] \in States
                        /\ [x EXCEPT !.pos = @ + 2].on = x.on /\ [x EXCEPT !.pos = @ + 2].pos = x.pos + 2
                        /\ [x EXCEPT !.pos = @ + 2].dirs = x.dirs /\ [x EXCEPT !.pos = @ + 2].tab = x.tab
                        /\ [x EXCEPT !.pos = @ + 2].in = x.in
  BY DEF States
<1>2. /\ Skipped(r) \in States /\ Skipped(r).on = r.on /\ Skipped(r).pos = r.pos + 2
      /\ Skipped(r).dirs = r.dirs /\ Skipped(r).tab = r.tab /\ Skipped(r).in = r.in
  BY <1>1, WalkTypes DEF Skipped
<1> QED BY <1>2 DEF Walks, Same

LEMMA CloseIs ==
    ASSUME NEW r \in Walks, Len(r.dirs) # 1
    PROVE  /\ Closed(r) \in Walks /\ Closed(r).on = r.on /\ Closed(r).pos = r.pos + 2
           /\ Closed(r).tab = r.tab /\ Closed(r).in = r.in
           /\ Len(Closed(r).dirs) = Len(r.dirs) - 1 /\ Len(r.dirs) > 1
           /\ \A i \in 1..(Len(r.dirs) - 1) : Closed(r).dirs[i] = r.dirs[i]
<1> DEFINE d == Front(r.dirs)
<1>0. r \in States /\ r.dirs \in Seq(Nodes) /\ Len(r.dirs) \in Nat /\ Len(r.dirs) > 1
  <2>1. r \in States /\ r.dirs \in Seq(Nodes) /\ Len(r.dirs) \in Nat \ {0}
    BY WalkTypes
  <2>2. \A k \in Nat \ {0} : k # 1 => k > 1 /\ k \in Nat
    OBVIOUS
  <2>3. Len(r.dirs) > 1 /\ Len(r.dirs) \in Nat
    BY <2>1, <2>2
  <2> QED BY <2>1, <2>3
<1>1. /\ d \in Seq(Nodes) /\ Len(d) = Len(r.dirs) - 1
      /\ \A i \in 1..(Len(r.dirs) - 1) : d[i] = r.dirs[i]
  BY <1>0, FrontIs
<1>2. Turned(r, Closed(r), r.pos + 2, d) /\ r.pos + 2 \in Nat
  <2>1. r.pos + 2 \in Nat
    BY WalkTypes
  <2>2. Turned(r, Closed(r), r.pos + 2, d)
    BY Zenon DEF Closed, Turned
  <2> QED BY <2>1, <2>2
<1> HIDE DEF d
<1>3. /\ Closed(r) \in States /\ Closed(r).on = r.on /\ Closed(r).pos = r.pos + 2
      /\ Closed(r).dirs = d /\ Closed(r).tab = r.tab /\ Closed(r).in = r.in
  BY <1>0, <1>1, <1>2, TurnedIs
<1>4. d # << >> /\ \A i \in 1..Len(d) : i \in 1..Len(r.dirs) /\ d[i] = r.dirs[i]
  <2>1. Len(d) # 0 /\ \A i \in 1..Len(d) : i \in 1..Len(r.dirs) /\ i \in 1..(Len(r.dirs) - 1)
    BY <1>0, <1>1
  <2>2. d # << >>
    BY <2>1
  <2> QED BY <1>1, <2>1, <2>2
<1>5. \A i \in 1..Len(d) : d[i] \in r.in /\ r.tab[d[i]].type = NODE_DIR
  BY <1>4, WalkTypes
<1>6. Closed(r) \in Walks
  BY <1>3, <1>4, <1>5, WalkTypes DEF Walks
<1> QED BY <1>0, <1>1, <1>3, <1>6

(***************************************************************************)
(* A node n has been built in the innermost directory.                     *)
(***************************************************************************)
CanBuild(r, name) == FindChild(r.tab, Last(r.dirs), name) = Null /\ r.in # Nodes

NewOf(r) == Lowest(Nodes \ r.in)

LEMMA BuildIs ==
    ASSUME NEW r \in Walks, NEW type \in Types, NEW name \in Stems, CanBuild(r, name)
    PROVE  /\ NewOf(r) \in Nodes \ r.in
           /\ Build(r, type, name) \in States
           /\ Build(r, type, name).tab = Created(r.tab, NewOf(r), type, name, Last(r.dirs))
           /\ Build(r, type, name).in = r.in \cup {NewOf(r)}
           /\ Build(r, type, name).pos = r.pos /\ Build(r, type, name).dirs = r.dirs
           /\ Build(r, type, name).on = r.on
           /\ Tree(Build(r, type, name).tab, Build(r, type, name).in)
           /\ IsCreated(r.tab, Build(r, type, name).tab, NewOf(r), type, name, Last(r.dirs))
<1> DEFINE n == NewOf(r)
           t == Created(r.tab, n, type, name, Last(r.dirs))
           i == r.in \cup {n}
<1>0. r \in States /\ r.in \subseteq Nodes /\ Last(r.dirs) \in r.in /\ r.tab[Last(r.dirs)].type = NODE_DIR
      /\ Tree(r.tab, r.in) /\ Typed(r.tab) /\ name \in Nat /\ Cut(name) = name
  BY WalkTypes, StemIs
<1>1. n \in Nodes \ r.in
  <2>1. Nodes \ r.in # {}
    BY <1>0 DEF CanBuild
  <2> QED BY <2>1, LowestIs DEF NewOf
<1>2. Tree(t, i)
  BY <1>0, <1>1, CreatedTree DEF CanBuild
<1>3. IsCreated(r.tab, t, n, type, name, Last(r.dirs))
  <2>1. IsCreated(r.tab, t, n, type, Cut(name), Last(r.dirs))
    BY <1>0, <1>1, CreatedFields
  <2> QED BY <1>0, <2>1
<1>4. t \in [Nodes -> Records] /\ i \in SUBSET Nodes
  BY <1>0, <1>1, <1>2 DEF Tree, Typed
<1>5. Build(r, type, name) = [r EXCEPT !.tab = t, !.in = i]
  BY DEF Build, NewOf
<1> HIDE DEF n, t, i
<1>6. /\ Build(r, type, name) \in States /\ Build(r, type, name).tab = t /\ Build(r, type, name).in = i
      /\ Build(r, type, name).pos = r.pos /\ Build(r, type, name).dirs = r.dirs
      /\ Build(r, type, name).on = r.on
  BY <1>0, <1>4, <1>5 DEF States
<1> QED BY <1>1, <1>2, <1>3, <1>6 DEF n, t, i

Opened(r, name) ==
    [Build(r, NODE_DIR, name) EXCEPT !.pos = @ + 2, !.dirs = Append(@, Lowest(Nodes \ r.in))]

LEMMA OpenedIs ==
    ASSUME NEW r \in Walks, NEW name \in Stems, CanBuild(r, name)
    PROVE  /\ Opened(r, name) \in Walks
           /\ NewOf(r) \in Nodes \ r.in
           /\ Opened(r, name).in = r.in \cup {NewOf(r)}
           /\ IsCreated(r.tab, Opened(r, name).tab, NewOf(r), NODE_DIR, name, Last(r.dirs))
           /\ Opened(r, name).pos = r.pos + 2 /\ Opened(r, name).on = r.on
           /\ Len(Opened(r, name).dirs) = Len(r.dirs) + 1
           /\ Opened(r, name).dirs[Len(r.dirs) + 1] = NewOf(r)
           /\ \A i \in 1..Len(r.dirs) : Opened(r, name).dirs[i] = r.dirs[i]
<1> DEFINE b == Build(r, NODE_DIR, name)
           n == NewOf(r)
           d == Append(r.dirs, n)
           s == Opened(r, name)
<1>0. /\ NODE_DIR \in Types /\ r.dirs \in Seq(Nodes) /\ Len(r.dirs) \in Nat /\ r.pos \in Nat
      /\ \A i \in 1..Len(r.dirs) : r.dirs[i] \in r.in /\ r.tab[r.dirs[i]].type = NODE_DIR
  BY WalkTypes DEF Types
<1>1. /\ n \in Nodes \ r.in /\ b \in States /\ b.in = r.in \cup {n} /\ b.pos = r.pos /\ b.dirs = r.dirs
      /\ b.on = r.on /\ Tree(b.tab, b.in) /\ IsCreated(r.tab, b.tab, n, NODE_DIR, name, Last(r.dirs))
  BY <1>0, BuildIs
<1>2. s = [b EXCEPT !.pos = b.pos + 2, !.dirs = Append(b.dirs, n)]
  BY DEF Opened, NewOf
<1>3. /\ d \in Seq(Nodes) /\ Len(d) = Len(r.dirs) + 1 /\ d[Len(r.dirs) + 1] = n
      /\ \A i \in 1..Len(r.dirs) : d[i] = r.dirs[i]
  BY <1>0, <1>1
<1> HIDE DEF s, b, n
<1>4. s \in States /\ s.pos = r.pos + 2 /\ s.dirs = d /\ s.tab = b.tab /\ s.in = b.in /\ s.on = r.on
  <2>1. Turned(b, s, b.pos + 2, Append(b.dirs, n))
    BY <1>2, Zenon DEF Turned
  <2>2. Append(b.dirs, n) = d /\ b.pos + 2 = r.pos + 2
    BY <1>1
  <2>3. Turned(b, s, r.pos + 2, d) /\ r.pos + 2 \in Nat
    BY <1>0, <2>1, <2>2
  <2> HIDE DEF d
  <2> QED BY <1>1, <1>3, <2>3, TurnedIs
<1>5. \A i \in 1..Len(d) : d[i] \in s.in /\ s.tab[d[i]].type = NODE_DIR
  <2>2. b.tab[n].type = NODE_DIR /\ \A x \in Nodes \ {n} : b.tab[x].type = r.tab[x].type
    BY <1>1 DEF IsCreated
  <2>3. \A i \in 1..Len(r.dirs) : r.dirs[i] \in Nodes \ {n}
    BY <1>0, <1>1
  <2> TAKE i \in 1..Len(d)
  <2> HIDE DEF d
  <2>4. CASE i = Len(r.dirs) + 1
    BY <1>1, <1>3, <1>4, <2>2, <2>4
  <2>5. CASE i \in 1..Len(r.dirs)
    <3>1. d[i] = r.dirs[i] /\ r.dirs[i] \in Nodes \ {n} /\ r.dirs[i] \in r.in
      BY <1>0, <1>3, <2>3, <2>5
    <3>2. b.tab[r.dirs[i]].type = r.tab[r.dirs[i]].type /\ r.tab[r.dirs[i]].type = NODE_DIR
      BY <1>0, <2>2, <2>5, <3>1
    <3> QED BY <1>1, <1>4, <3>1, <3>2
  <2> QED BY <1>0, <1>3, <2>4, <2>5
<1>6. s \in Walks
  <2> HIDE DEF d
  <2>1. Len(d) # 0
    BY <1>0, <1>3
  <2>2. Len(<< >>) = 0
    OBVIOUS
  <2>3. d # << >>
    BY <2>1, <2>2, Zenon
  <2> QED BY <1>1, <1>4, <1>5, <2>3 DEF Walks
<1> HIDE DEF d
<1> QED BY <1>1, <1>3, <1>4, <1>6 DEF s, n
(***************************************************************************)
(* A file has been built, and its bytes written.                           *)
(***************************************************************************)
Filled(b, s, n, p, x) == s = [b EXCEPT !.pos = p, !.tab[n] = x]

LEMMA FilledIs ==
    ASSUME NEW b \in States, NEW s, NEW n \in Nodes, NEW p \in Nat, NEW x \in Records, Filled(b, s, n, p, x)
    PROVE  /\ s \in States /\ s.pos = p /\ s.dirs = b.dirs /\ s.in = b.in /\ s.on = b.on
           /\ s.tab = [b.tab EXCEPT ![n] = x]
<1> DEFINE t == [b.tab EXCEPT ![n] = x]
<1>1. b \in [pos : Nat, dirs : Seq(Nodes), tab : [Nodes -> Records], in : SUBSET Nodes, on : BOOLEAN]
  BY DEF States
<1>2. s = [b EXCEPT !.pos = p, !.tab = t]
  BY <1>1 DEF Filled
<1>3. t \in [Nodes -> Records]
  BY <1>1
<1> HIDE DEF t
<1>4. /\ s \in States /\ s.pos = p /\ s.dirs = b.dirs /\ s.in = b.in /\ s.on = b.on /\ s.tab = t
  BY <1>1, <1>2, <1>3 DEF States
<1> QED BY <1>4 DEF t

FileData(img, pos, size) == SubSeq(img, pos + 4, pos + 3 + size)

LEMMA DataIs ==
    ASSUME NEW img \in Images, NEW pos \in Nat, NEW size \in Nat, pos + 3 + size <= BlobUnits
    PROVE  /\ FileData(img, pos, size) \in Seq(Nat) /\ Len(FileData(img, pos, size)) = size
           /\ \A i \in 1..size : FileData(img, pos, size)[i] = img[pos + 3 + i]
<1>1. BlobUnits \in Nat /\ img \in Seq(Nat) /\ Len(img) = BlobUnits
  BY PersistAssumption DEF PersistAssumption, Images
<1>2. \A i \in 1..size : pos + 3 + i \in 1..BlobUnits
  BY <1>1
<1>3. FileData(img, pos, size) = [i \in 1..size |-> img[pos + 3 + i]]
  BY <1>1 DEF FileData
<1>4. \A i \in 1..size : img[pos + 3 + i] \in Nat
  BY <1>2 DEF Images
<1> QED BY <1>3, <1>4

Made(r, img, name, size) ==
    LET b == Build(r, NODE_FILE, name)
        n == Lowest(Nodes \ r.in)
    IN  [b EXCEPT !.pos = @ + 3 + size,
                  !.tab[n] = IF size = 0 THEN @ ELSE RamfsWrite(@, SubSeq(img, r.pos + 4, r.pos + 3 + size), 0)]

IsMade(r, s, img, name, size) ==
    LET n == NewOf(r)
    IN  /\ s \in Walks /\ n \in Nodes \ r.in /\ s.in = r.in \cup {n}
        /\ s.pos = r.pos + 3 + size /\ s.on = r.on /\ s.dirs = r.dirs
        /\ s.tab[n].name = name /\ s.tab[n].type = NODE_FILE /\ s.tab[n].parent = Last(r.dirs)
        /\ s.tab[n].size = size
        /\ \A i \in 1..size : s.tab[n].data[i] = img[r.pos + 3 + i]
        /\ \A x \in Nodes \ {n} : /\ s.tab[x].name = r.tab[x].name /\ s.tab[x].type = r.tab[x].type
                                  /\ s.tab[x].parent = r.tab[x].parent
                                  /\ s.tab[x].data = r.tab[x].data /\ s.tab[x].size = r.tab[x].size

LEMMA MadeIs ==
    ASSUME NEW r \in Walks, NEW img \in Images, NEW name \in Stems, NEW size \in Nat,
           r.pos + 3 + size <= BlobUnits, CanBuild(r, name)
    PROVE  IsMade(r, Made(r, img, name, size), img, name, size)
<1> DEFINE b == Build(r, NODE_FILE, name)
           n == NewOf(r)
           data == FileData(img, r.pos, size)
           x == IF size = 0 THEN b.tab[n] ELSE RamfsWrite(b.tab[n], data, 0)
           s == Made(r, img, name, size)
<1>0. /\ NODE_FILE \in Types /\ r.pos \in Nat /\ Tree(r.tab, r.in) /\ Typed(r.tab)
      /\ \A i \in 1..Len(r.dirs) : r.dirs[i] \in r.in /\ r.tab[r.dirs[i]].type = NODE_DIR
      /\ Last(r.dirs) \in r.in /\ r.in \subseteq Nodes /\ r.dirs # << >>
  BY WalkTypes DEF Types, Walks
<1>1. /\ n \in Nodes \ r.in /\ b \in States /\ b.in = r.in \cup {n} /\ b.pos = r.pos /\ b.dirs = r.dirs
      /\ b.on = r.on /\ Tree(b.tab, b.in) /\ IsCreated(r.tab, b.tab, n, NODE_FILE, name, Last(r.dirs))
  BY <1>0, BuildIs
<1>2. /\ data \in Seq(Nat) /\ Len(data) = size /\ \A i \in 1..size : data[i] = img[r.pos + 3 + i]
  BY <1>0, DataIs
<1>3. Filled(b, s, n, b.pos + 3 + size, x)
  BY Zenon DEF Filled, Made, NewOf, FileData
<1> HIDE DEF b, n, data, s
<1>4. Typed(b.tab) /\ b.tab[n] \in Records /\ b.tab[n].size = 0 /\ b.tab[n].size <= Len(b.tab[n].data)
      /\ b.tab[n].type = NODE_FILE /\ b.tab[n].name = name /\ b.tab[n].parent = Last(r.dirs)
      /\ b.tab[n].data = << >>
  BY <1>1, FieldTypes DEF Tree, IsCreated
<1>5. /\ x \in Records /\ x.name = name /\ x.type = NODE_FILE /\ x.parent = Last(r.dirs)
      /\ x.kids = b.tab[n].kids /\ x.size = size /\ x.size <= Len(x.data)
      /\ \A i \in 1..size : x.data[i] = data[i]
  <2>1. CASE size = 0
    BY <1>4, <2>1
  <2>2. CASE size # 0
    <3>1. Wrote(b.tab[n], RamfsWrite(b.tab[n], data, 0), data, 0)
      BY <1>2, <1>4, WriteIs
    <3>2. x = RamfsWrite(b.tab[n], data, 0)
      BY <2>2
    <3> HIDE DEF x
    <3>3. Wrote(b.tab[n], x, data, 0)
      BY <3>1, <3>2
    <3>4. /\ x \in Records /\ x.name = name /\ x.type = NODE_FILE /\ x.parent = Last(r.dirs)
          /\ x.kids = b.tab[n].kids /\ x.size <= Len(x.data)
      BY <1>4, <3>3 DEF Wrote
    <3>5. x.size = size
      BY <1>2, <1>4, <2>2, <3>3 DEF Wrote
    <3>6. \A i \in (0 + 1)..(0 + size) : x.data[i] = data[i - 0]
      BY <1>2, <3>3 DEF Wrote
    <3>7. \A i \in 1..size : x.data[i] = data[i]
      <4> TAKE i \in 1..size
      <4>1. i \in (0 + 1)..(0 + size) /\ i - 0 = i
        OBVIOUS
      <4> QED BY <3>6, <4>1
    <3> QED BY <3>4, <3>5, <3>7
  <2> QED BY <2>1, <2>2
<1> HIDE DEF x
<1>6. /\ s \in States /\ s.pos = r.pos + 3 + size /\ s.dirs = r.dirs /\ s.in = b.in /\ s.on = r.on
      /\ s.tab = [b.tab EXCEPT ![n] = x]
  <2>1. b.pos + 3 + size \in Nat /\ b.pos = r.pos
    BY <1>0, <1>1
  <2> QED BY <1>1, <1>3, <1>5, <2>1, FilledIs
<1>7. s.tab[n] = x /\ \A y \in Nodes \ {n} : s.tab[y] = b.tab[y]
  BY <1>1, <1>4, <1>6 DEF Typed
<1>8. Typed(s.tab)
  <2>1. s.tab \in [Nodes -> Records]
    BY <1>6 DEF States
  <2>2. \A y \in Nodes : /\ s.tab[y].size <= Len(s.tab[y].data)
                         /\ s.tab[y].type = NODE_DIR => s.tab[y].size = 0
    <3> TAKE y \in Nodes
    <3>1. CASE y = n
      BY <1>5, <1>7, <3>1, NodeFacts
    <3>2. CASE y # n
      BY <1>4, <1>7, <3>2 DEF Typed
    <3> QED BY <3>1, <3>2
  <2> QED BY <2>1, <2>2 DEF Typed
<1>9. SameShape(b.tab, s.tab)
  BY <1>4, <1>5, <1>7 DEF SameShape
<1>10. Tree(s.tab, s.in)
  BY <1>1, <1>6, <1>8, <1>9, ShapeKept
<1>11. \A y \in Nodes \ {n} : /\ s.tab[y].name = r.tab[y].name /\ s.tab[y].type = r.tab[y].type
                              /\ s.tab[y].parent = r.tab[y].parent
                              /\ s.tab[y].data = r.tab[y].data /\ s.tab[y].size = r.tab[y].size
  BY <1>1, <1>7 DEF IsCreated
<1>12. \A i \in 1..Len(r.dirs) : r.dirs[i] \in s.in /\ s.tab[r.dirs[i]].type = NODE_DIR
  <2> TAKE i \in 1..Len(r.dirs)
  <2>1. r.dirs[i] \in r.in /\ r.tab[r.dirs[i]].type = NODE_DIR /\ r.dirs[i] \in Nodes \ {n}
    BY <1>0, <1>1
  <2> QED BY <1>1, <1>6, <1>11, <2>1
<1>13. s \in Walks
  BY <1>0, <1>6, <1>10, <1>12 DEF Walks
<1>14. \A i \in 1..size : s.tab[n].data[i] = img[r.pos + 3 + i]
  BY <1>2, <1>5, <1>7
<1> QED BY <1>1, <1>5, <1>6, <1>7, <1>11, <1>13, <1>14 DEF IsMade, s, n
Totals == {t \in Nat : t <= BlobUnits}

LEMMA TurnIs ==
    ASSUME NEW r, NEW img, NEW total
    PROVE  LET type == img[r.pos + 1]
               mark == img[r.pos + 2]
               name == Cut(mark)
               size == img[r.pos + 3]
               s == DeserStep(r, img, total)
           IN  /\ ~r.on \/ r.pos + 2 > total => s = Stop(r)
               /\ r.on /\ ~(r.pos + 2 > total) =>
                    /\ type = 255 /\ mark # 0 => s = Skipped(r)
                    /\ type = 255 /\ mark = 0 /\ Len(r.dirs) = 1 => s = Stop(r)
                    /\ type = 255 /\ mark = 0 /\ Len(r.dirs) # 1 => s = Closed(r)
                    /\ type = NODE_FILE =>
                        IF r.pos + 3 > total \/ r.pos + 3 + size > total \/ ~CanBuild(r, name)
                        THEN s = Stop(r) ELSE s = Made(r, img, name, size)
                    /\ type = NODE_DIR => IF ~CanBuild(r, name) THEN s = Stop(r) ELSE s = Opened(r, name)
                    /\ type \notin {255, NODE_FILE, NODE_DIR} => s = Stop(r)
<1> DEFINE type == img[r.pos + 1]
           mark == img[r.pos + 2]
           name == Cut(mark)
           size == img[r.pos + 3]
           s == DeserStep(r, img, total)
<1>1. ASSUME ~r.on \/ r.pos + 2 > total PROVE s = Stop(r)
  BY <1>1, Zenon DEF DeserStep
<1>2. ASSUME ~(~r.on \/ r.pos + 2 > total)
      PROVE  s = IF type = 255
                 THEN IF mark # 0 THEN Skipped(r)
                      ELSE IF Len(r.dirs) = 1 THEN Stop(r)
                      ELSE Closed(r)
                 ELSE IF type = NODE_FILE THEN DeserFile(r, img, total)
                 ELSE IF type = NODE_DIR THEN DeserDir(r, img)
                 ELSE Stop(r)
  BY <1>2, Zenon DEF DeserStep, Skipped, Closed
<1>3. DeserFile(r, img, total)
        = IF r.pos + 3 > total \/ r.pos + 3 + size > total \/ FindChild(r.tab, Last(r.dirs), name) # Null
             \/ r.in = Nodes
          THEN Stop(r) ELSE Made(r, img, name, size)
  BY Zenon DEF DeserFile, Made
<1>4. DeserDir(r, img)
        = IF FindChild(r.tab, Last(r.dirs), name) # Null \/ r.in = Nodes THEN Stop(r) ELSE Opened(r, name)
  BY Zenon DEF DeserDir, Opened
<1>5. CanBuild(r, name) <=> ~(FindChild(r.tab, Last(r.dirs), name) # Null \/ r.in = Nodes)
  BY Zenon DEF CanBuild
<1>6. NODE_FILE # 255 /\ NODE_DIR # 255 /\ NODE_FILE # NODE_DIR
  BY NodeFacts
<1> HIDE DEF type, mark, name, size, s
<1>7. DeserFile(r, img, total)
        = IF r.pos + 3 > total \/ r.pos + 3 + size > total \/ ~CanBuild(r, name)
          THEN Stop(r) ELSE Made(r, img, name, size)
  BY <1>3, <1>5
<1>8. DeserDir(r, img) = IF ~CanBuild(r, name) THEN Stop(r) ELSE Opened(r, name)
  BY <1>4, <1>5
<1>9. /\ ~r.on \/ r.pos + 2 > total => s = Stop(r)
      /\ r.on /\ ~(r.pos + 2 > total) =>
            /\ type = 255 /\ mark # 0 => s = Skipped(r)
            /\ type = 255 /\ mark = 0 /\ Len(r.dirs) = 1 => s = Stop(r)
            /\ type = 255 /\ mark = 0 /\ Len(r.dirs) # 1 => s = Closed(r)
            /\ type = NODE_FILE =>
                IF r.pos + 3 > total \/ r.pos + 3 + size > total \/ ~CanBuild(r, name)
                THEN s = Stop(r) ELSE s = Made(r, img, name, size)
            /\ type = NODE_DIR => IF ~CanBuild(r, name) THEN s = Stop(r) ELSE s = Opened(r, name)
            /\ type \notin {255, NODE_FILE, NODE_DIR} => s = Stop(r)
  BY <1>1, <1>2, <1>6, <1>7, <1>8
<1> QED BY <1>9 DEF type, mark, name, size, s

LEMMA TurnStays ==
    ASSUME NEW r \in Walks, NEW img \in Images, NEW total \in Totals
    PROVE  DeserStep(r, img, total) \in Walks
<1> DEFINE type == img[r.pos + 1]
           mark == img[r.pos + 2]
           name == Cut(mark)
           size == img[r.pos + 3]
           s == DeserStep(r, img, total)
<1>0. Stop(r) \in Walks /\ Skipped(r) \in Walks /\ (Len(r.dirs) # 1 => Closed(r) \in Walks)
  BY StopIs, SkipIs, CloseIs
<1>1. CASE ~r.on \/ r.pos + 2 > total
  <2>1. s = Stop(r)
    BY <1>1, TurnIs
  <2> QED BY <1>0, <2>1
<1>2. CASE r.on /\ ~(r.pos + 2 > total)
  <2>0. r.pos \in Nat /\ total \in Nat /\ BlobUnits \in Nat /\ total <= BlobUnits
    BY WalkTypes, PersistAssumption DEF PersistAssumption, Totals
  <2>1. /\ type = 255 /\ mark # 0 => s = Skipped(r)
        /\ type = 255 /\ mark = 0 /\ Len(r.dirs) = 1 => s = Stop(r)
        /\ type = 255 /\ mark = 0 /\ Len(r.dirs) # 1 => s = Closed(r)
        /\ type = NODE_FILE =>
            IF r.pos + 3 > total \/ r.pos + 3 + size > total \/ ~CanBuild(r, name)
            THEN s = Stop(r) ELSE s = Made(r, img, name, size)
        /\ type = NODE_DIR => IF ~CanBuild(r, name) THEN s = Stop(r) ELSE s = Opened(r, name)
        /\ type \notin {255, NODE_FILE, NODE_DIR} => s = Stop(r)
    BY <1>2, TurnIs
  <2>2. name \in Stems
    <3>1. r.pos + 2 \in 1..BlobUnits
      BY <1>2, <2>0
    <3>2. mark \in Nat
      BY <3>1 DEF Images
    <3> QED BY <3>2, CutIs
  <2>3. ~(r.pos + 3 > total) => size \in Nat
    <3>1. ~(r.pos + 3 > total) => r.pos + 3 \in 1..BlobUnits
      BY <2>0
    <3> QED BY <3>1 DEF Images
  <2> HIDE DEF type, mark, name, size, s
  <2>4. s \in Walks
    <3>1. CASE type = NODE_DIR
      <4>1. CASE ~CanBuild(r, name)
        BY <1>0, <2>1, <3>1, <4>1
      <4>2. CASE CanBuild(r, name)
        <5>1. Opened(r, name) \in Walks
          BY <2>2, <4>2, OpenedIs
        <5> QED BY <2>1, <3>1, <4>2, <5>1
      <4> QED BY <4>1, <4>2
    <3>2. CASE type = NODE_FILE
      <4>1. CASE r.pos + 3 > total \/ r.pos + 3 + size > total \/ ~CanBuild(r, name)
        BY <1>0, <2>1, <3>2, <4>1
      <4>2. CASE ~(r.pos + 3 > total \/ r.pos + 3 + size > total \/ ~CanBuild(r, name))
        <5>1. size \in Nat /\ r.pos + 3 + size <= BlobUnits /\ CanBuild(r, name)
          BY <2>0, <2>3, <4>2
        <5>2. IsMade(r, Made(r, img, name, size), img, name, size)
          BY <2>2, <5>1, MadeIs
        <5>3. Made(r, img, name, size) \in Walks
          BY <5>2 DEF IsMade
        <5> QED BY <2>1, <3>2, <4>2, <5>3
      <4> QED BY <4>1, <4>2
    <3>3. CASE type \notin {NODE_DIR, NODE_FILE}
      BY <1>0, <2>1, <3>3
    <3> QED BY <3>1, <3>2, <3>3
  <2> QED BY <2>4 DEF s
<1> QED BY <1>1, <1>2

(***************************************************************************)
(* The whole loop: w is the sequence of its states.                        *)
(***************************************************************************)
IsWalk(w, img, total) ==
    /\ w[0] = Start0
    /\ \A k \in 0..BlobUnits : w[k] \in Walks
    /\ \A k \in 1..BlobUnits : w[k] = DeserStep(w[k - 1], img, total)

LEMMA WalkIs ==
    ASSUME NEW img \in Images, NEW total \in Totals
    PROVE  \E w : IsWalk(w, img, total) /\ Deserialized(img, total) = w[BlobUnits]
<1> DEFINE N == BlobUnits
           h == [k \in 1..N |-> [r \in Walks |-> DeserStep(r, img, total)]]
           E(g) == [k \in 0..N |-> IF k = 0 THEN Start0 ELSE DeserStep(g[k - 1], img, total)]
           walk == CHOOSE g : g = E(g)
<1>0. N \in Nat /\ Start0 \in Walks
  BY PersistAssumption, WalkStarts DEF PersistAssumption
<1>1. h \in [1..N -> [Walks -> Walks]]
  BY TurnStays
<1>2. PICK g : Iterates(g, Walks, Start0, h, N)
  <2> HIDE DEF h
  <2> QED BY <1>0, <1>1, IterateExists
<1>3. g = E(g)
  <2>0. \A i \in 1..N, x \in Walks : h[i][x] = DeserStep(x, img, total)
    OBVIOUS
  <2> HIDE DEF h
  <2>1. \A i \in 1..N : g[i - 1] \in Walks /\ g[i] = h[i][g[i - 1]]
    BY <1>0, <1>2 DEF Iterates
  <2>2. \A i \in 1..N : g[i] = DeserStep(g[i - 1], img, total)
    BY <2>0, <2>1
  <2>3. g = [i \in 0..N |-> g[i]] /\ g[0] = Start0
    BY <1>2 DEF Iterates
  <2>4. \A i \in 0..N : g[i] = IF i = 0 THEN Start0 ELSE DeserStep(g[i - 1], img, total)
    <3>1. g[0] = Start0 /\ \A i \in 0..N : i = 0 \/ i \in 1..N
      BY <1>0, <2>3
    <3> QED BY <2>2, <3>1
  <2> QED BY <2>3, <2>4
<1>4. walk = E(walk)
  <2> HIDE DEF E
  <2> QED BY <1>3
<1>5. Deserialized(img, total) = walk[N]
  BY DEF Deserialized, Start0
<1> HIDE DEF walk
<1>6. walk[0] = Start0 /\ \A i \in 1..N : walk[i] = DeserStep(walk[i - 1], img, total)
  BY <1>0, <1>4
<1> DEFINE S == {i \in Nat : walk[i] \in Walks}
<1>7. 0 \in S
  BY <1>0, <1>6
<1>8. \A i \in 1..N : i - 1 \in S => i \in S
  <2> TAKE i \in 1..N
  <2> HAVE i - 1 \in S
  <2>1. walk[i - 1] \in Walks /\ walk[i] = DeserStep(walk[i - 1], img, total)
    BY <1>6
  <2>2. walk[i] \in Walks
    BY <2>1, TurnStays
  <2> QED BY <1>0, <2>2
<1>9. 0..N \subseteq S
  <2> HIDE DEF S
  <2> QED BY <1>0, <1>7, <1>8, UpTo
<1>10. IsWalk(walk, img, total)
  BY <1>6, <1>9 DEF IsWalk
<1> QED BY <1>5, <1>10
-----------------------------------------------------------------------------
(***************************************************************************)
(* No node is further down than there are nodes.                           *)
(***************************************************************************)
LEMMA RankBound ==
    ASSUME NEW tab, NEW in, Tree(tab, in), NEW rank, Ranks(tab, in, rank), NEW n \in in
    PROVE  rank[n] < Cardinality(Nodes)
<1> DEFINE K == Cardinality(Nodes)
           R == rank[n]
           S == {j \in Nat : j <= R => \E x \in in : rank[x] = R - j}
<1>0. /\ in \subseteq Nodes /\ rank \in [Nodes -> Nat] /\ rank[Root] = 0 /\ R \in Nat
      /\ K \in Nat /\ IsFiniteSet(Nodes)
  BY Count DEF Tree, Ranks
<1>1. \A x \in in \ {Root} : rank[x] = rank[tab[x].parent] + 1 /\ tab[x].parent \in in
  BY DEF Tree, Ranks, Listed
<1>2. 0 \in S
  BY <1>0
<1>3. \A j \in 1..R : j - 1 \in S => j \in S
  <2> TAKE j \in 1..R
  <2> HAVE j - 1 \in S
  <2>1. PICK x \in in : rank[x] = R - (j - 1)
    BY <1>0
  <2>2. x # Root /\ rank[x] \in Nat
    BY <1>0, <2>1
  <2>3. rank[tab[x].parent] = R - j /\ tab[x].parent \in in
    <3>1. rank[x] = rank[tab[x].parent] + 1 /\ tab[x].parent \in in /\ rank[tab[x].parent] \in Nat
      BY <1>0, <1>1, <2>2
    <3> QED BY <1>0, <2>1, <3>1
  <2> QED BY <1>0, <2>3
<1>4. 0..R \subseteq S
  <2> HIDE DEF S
  <2> QED BY <1>0, <1>2, <1>3, UpTo
<1> DEFINE f == [j \in 0..R |-> CHOOSE x \in in : rank[x] = R - j]
<1>5. \A j \in 0..R : f[j] \in in /\ rank[f[j]] = R - j
  <2> TAKE j \in 0..R
  <2>1. \E x \in in : rank[x] = R - j
    BY <1>0, <1>4
  <2> QED BY <2>1
<1>6. f \in [0..R -> Nodes]
  BY <1>0, <1>5
<1> HIDE DEF f, S
<1>7. IsFiniteSet(0..R) /\ Cardinality(0..R) = R + 1
  <2>1. R \in Int /\ 0 \in Int /\ ~(0 > R) /\ R - 0 + 1 = R + 1
    BY <1>0
  <2> HIDE DEF R
  <2> QED BY <2>1, FS_Interval
<1>8. ~(K < R + 1)
  <2> SUFFICES ASSUME K < R + 1 PROVE FALSE
    OBVIOUS
  <2>1. \E x, y \in 0..R : x # y /\ f[x] = f[y]
    BY <1>0, <1>6, <1>7, FS_PigeonHole
  <2>2. PICK x \in 0..R, y \in 0..R : x # y /\ f[x] = f[y]
    BY <2>1
  <2>3. R - x = R - y
    BY <1>5, <2>2
  <2> QED BY <1>0, <2>2, <2>3
<1> QED BY <1>0, <1>8

-----------------------------------------------------------------------------
(***************************************************************************)
(* ser_node: the image of a file and of a directory, unit by unit.         *)
(***************************************************************************)
IsCat(c, s, t) ==
    /\ c \in Seq(Nat) /\ Len(c) = Len(s) + Len(t)
    /\ \A i \in 1..Len(s) : c[i] = s[i]
    /\ \A j \in 1..Len(t) : c[Len(s) + j] = t[j]

LEMMA CatIs ==
    ASSUME NEW s \in Seq(Nat), NEW t \in Seq(Nat), NEW c, c = s \o t
    PROVE  IsCat(c, s, t)
<1>1. c \in Seq(Nat) /\ Len(c) = Len(s) + Len(t)
  OBVIOUS
<1>2. \A i \in 1..Len(s) : c[i] = s[i]
  OBVIOUS
<1>3. \A j \in 1..Len(t) : c[Len(s) + j] = t[j]
  OBVIOUS
<1> QED BY <1>1, <1>2, <1>3 DEF IsCat

LEMMA FileImageIs ==
    ASSUME Typed(node), NEW n \in Nodes
    PROVE  /\ FileImage(n) \in Seq(Nat) /\ Len(FileImage(n)) = 3 + node[n].size
           /\ FileImage(n)[1] = NODE_FILE /\ FileImage(n)[2] = node[n].name
           /\ FileImage(n)[3] = node[n].size
           /\ \A j \in 1..node[n].size : FileImage(n)[3 + j] = node[n].data[j]
<1> DEFINE size == node[n].size
           head == <<NODE_FILE, node[n].name, size>>
           data == SubSeq(node[n].data, 1, size)
<1>0. /\ node[n].name \in Nat /\ size \in Nat /\ node[n].data \in Seq(Nat) /\ size <= Len(node[n].data)
      /\ Len(node[n].data) \in Nat /\ NODE_FILE \in Nat
      /\ \A i \in 1..Len(node[n].data) : node[n].data[i] \in Nat
  BY FieldTypes, NodeFacts
<1> HIDE DEF size
<1>1. data = [i \in 1..size |-> node[n].data[i]]
  BY <1>0
<1>2. \A i \in 1..size : node[n].data[i] \in Nat
  BY <1>0
<1>3. data \in Seq(Nat) /\ Len(data) = size /\ \A i \in 1..size : data[i] = node[n].data[i]
  BY <1>0, <1>1, <1>2
<1> HIDE DEF data
<1>4. head \in Seq(Nat) /\ Len(head) = 3 /\ head[1] = NODE_FILE /\ head[2] = node[n].name /\ head[3] = size
  BY <1>0
<1> HIDE DEF head
<1> DEFINE c == FileImage(n)
<1>5. c = head \o data
  BY DEF FileImage, head, data, size
<1> HIDE DEF c
<1>6. IsCat(c, head, data)
  BY <1>3, <1>4, <1>5, CatIs
<1>7. /\ c \in Seq(Nat) /\ Len(c) = 3 + size
      /\ \A i \in 1..3 : c[i] = head[i]
      /\ \A j \in 1..size : c[3 + j] = data[j]
  BY <1>3, <1>4, <1>6 DEF IsCat
<1>8. c[1] = head[1] /\ c[2] = head[2] /\ c[3] = head[3]
  BY <1>7
<1> QED BY <1>3, <1>4, <1>7, <1>8 DEF size, c

LEMMA DirImageIs ==
    ASSUME Typed(node), NEW n \in Nodes, NEW rest \in Seq(Nat)
    PROVE  /\ DirImage(n, rest) \in Seq(Nat) /\ Len(DirImage(n, rest)) = 4 + Len(rest)
           /\ DirImage(n, rest)[1] = NODE_DIR /\ DirImage(n, rest)[2] = node[n].name
           /\ \A j \in 1..Len(rest) : DirImage(n, rest)[2 + j] = rest[j]
           /\ DirImage(n, rest)[3 + Len(rest)] = 255 /\ DirImage(n, rest)[4 + Len(rest)] = 0
<1> DEFINE head == <<NODE_DIR, node[n].name>>
           most == head \o rest
<1>0. node[n].name \in Nat /\ NODE_DIR \in Nat /\ Len(rest) \in Nat
  BY FieldTypes, NodeFacts
<1>1. head \in Seq(Nat) /\ Len(head) = 2 /\ head[1] = NODE_DIR /\ head[2] = node[n].name
  BY <1>0
<1>2. End \in Seq(Nat) /\ Len(End) = 2 /\ End[1] = 255 /\ End[2] = 0
  BY DEF End
<1> HIDE DEF head
<1>3. /\ most \in Seq(Nat) /\ Len(most) = 2 + Len(rest) /\ most[1] = head[1] /\ most[2] = head[2]
      /\ \A j \in 1..Len(rest) : most[2 + j] = rest[j]
  <2>1. IsCat(most, head, rest)
    BY <1>1, CatIs
  <2> HIDE DEF most
  <2>2. /\ most \in Seq(Nat) /\ Len(most) = 2 + Len(rest) /\ \A i \in 1..2 : most[i] = head[i]
        /\ \A j \in 1..Len(rest) : most[2 + j] = rest[j]
    BY <1>1, <2>1 DEF IsCat
  <2> QED BY <2>2
<1> HIDE DEF most
<1> DEFINE c == DirImage(n, rest)
<1>4. c = most \o End
  BY DEF DirImage, most, head
<1> HIDE DEF c
<1>5. /\ c \in Seq(Nat) /\ Len(c) = 4 + Len(rest)
      /\ \A i \in 1..(2 + Len(rest)) : c[i] = most[i]
      /\ c[3 + Len(rest)] = End[1] /\ c[4 + Len(rest)] = End[2]
  <2>0. IsCat(c, most, End)
    BY <1>2, <1>3, <1>4, CatIs
  <2>1. /\ c \in Seq(Nat) /\ Len(c) = Len(most) + Len(End)
        /\ \A i \in 1..Len(most) : c[i] = most[i]
        /\ \A j \in 1..Len(End) : c[Len(most) + j] = End[j]
    BY <2>0 DEF IsCat
  <2>2. /\ Len(most) + Len(End) = 4 + Len(rest) /\ Len(most) + 1 = 3 + Len(rest)
        /\ Len(most) + 2 = 4 + Len(rest) /\ 1 \in 1..Len(End) /\ 2 \in 1..Len(End)
    BY <1>0, <1>2, <1>3
  <2>3. c[Len(most) + 1] = End[1] /\ c[Len(most) + 2] = End[2]
    BY <2>1, <2>2
  <2> QED BY <1>3, <2>1, <2>2, <2>3
<1>6. 1 \in 1..(2 + Len(rest)) /\ 2 \in 1..(2 + Len(rest)) /\ \A j \in 1..Len(rest) : 2 + j \in 1..(2 + Len(rest))
  BY <1>0
<1> QED BY <1>1, <1>2, <1>3, <1>5, <1>6 DEF c

(***************************************************************************)
(* The recursion of ser_node, k levels of it.                              *)
(***************************************************************************)
KidImages(n, g) == [i \in 1..Len(node[n].kids) |-> g[node[n].kids[i]]]

NodeImage(n, g) ==
    IF node[n].type = NODE_FILE THEN FileImage(n) ELSE DirImage(n, Flat(KidImages(n, g)))

ImageTable == [Nodes -> Seq(Nat)]

LEMMA NodeImageType ==
    ASSUME Typed(node), NEW g \in ImageTable, NEW n \in Nodes
    PROVE  /\ KidImages(n, g) \in [1..Len(node[n].kids) -> Seq(Nat)]
           /\ Flat(KidImages(n, g)) \in Seq(Nat) /\ NodeImage(n, g) \in Seq(Nat)
<1>1. Len(node[n].kids) \in Nat /\ \A i \in 1..Len(node[n].kids) : node[n].kids[i] \in Nodes
  BY FieldTypes
<1>2. KidImages(n, g) \in [1..Len(node[n].kids) -> Seq(Nat)]
  <2>1. \A i \in 1..Len(node[n].kids) : g[node[n].kids[i]] \in Seq(Nat)
    BY <1>1 DEF ImageTable
  <2> QED BY <2>1 DEF KidImages
<1>3. Flat(KidImages(n, g)) \in Seq(Nat)
  BY <1>1, <1>2, FlatIs
<1>4. DirImage(n, Flat(KidImages(n, g))) \in Seq(Nat) /\ FileImage(n) \in Seq(Nat)
  BY <1>3, DirImageIs, FileImageIs
<1> QED BY <1>2, <1>3, <1>4 DEF NodeImage

LEMMA SerIs ==
    ASSUME Typed(node)
    PROVE  \E ser : /\ SerNode = ser[Cardinality(Nodes)]
                    /\ \A k \in 0..Cardinality(Nodes) : ser[k] \in ImageTable
                    /\ \A k \in 1..Cardinality(Nodes), n \in Nodes : ser[k][n] = NodeImage(n, ser[k - 1])
<1> DEFINE K == Cardinality(Nodes)
           T == ImageTable
           a == [n \in Nodes |-> << >>]
           U(x) == [n \in Nodes |-> NodeImage(n, x)]
           h == [k \in 1..K |-> [x \in T |-> U(x)]]
           E(g) == [k \in 0..K |-> [n \in Nodes |-> IF k = 0 THEN << >> ELSE NodeImage(n, g[k - 1])]]
           ser == CHOOSE g : g = E(g)
<1>0. K \in Nat
  BY Count
<1>1. a \in T
  BY DEF ImageTable
<1>2. \A x \in T : U(x) \in T
  BY NodeImageType DEF ImageTable
<1>3. h \in [1..K -> [T -> T]]
  <2> HIDE DEF U, T
  <2> QED BY <1>2
<1>4. PICK g : Iterates(g, T, a, h, K)
  <2> HIDE DEF h, T, a, K
  <2> QED BY <1>0, <1>1, <1>3, IterateExists
<1>5. g = E(g)
  <2>0. \A i \in 1..K, x \in T : h[i][x] = U(x)
    OBVIOUS
  <2> HIDE DEF h, T, U, a, K
  <2>1. \A i \in 1..K : g[i - 1] \in T /\ g[i] = h[i][g[i - 1]]
    BY <1>0, <1>4 DEF Iterates
  <2>2. \A i \in 1..K : g[i] = U(g[i - 1])
    BY <2>0, <2>1
  <2>3. g = [i \in 0..K |-> g[i]] /\ g[0] = a
    BY <1>4 DEF Iterates
  <2> DEFINE V(i) == [n \in Nodes |-> IF i = 0 THEN << >> ELSE NodeImage(n, g[i - 1])]
  <2>4. \A i \in 0..K : g[i] = V(i)
    <3>1. V(0) = a
      BY DEF a
    <3>2. \A i \in 1..K : V(i) = U(g[i - 1])
      BY <1>0 DEF U
    <3>3. \A i \in 0..K : i = 0 \/ i \in 1..K
      BY <1>0
    <3> HIDE DEF V
    <3> QED BY <2>2, <2>3, <3>1, <3>2, <3>3
  <2> HIDE DEF V
  <2>5. g = [i \in 0..K |-> V(i)]
    BY <2>3, <2>4
  <2> QED BY <2>5 DEF V
<1>6. ser = E(ser)
  <2> HIDE DEF E
  <2> QED BY <1>5
<1>7. SerNode = ser[K]
  BY DEF SerNode, NodeImage, KidImages
<1> HIDE DEF ser, K
<1>8. /\ ser[0] = a
      /\ \A i \in 1..K : ser[i] = U(ser[i - 1])
  <2> DEFINE V(i) == [n \in Nodes |-> IF i = 0 THEN << >> ELSE NodeImage(n, ser[i - 1])]
  <2>1. ser = [i \in 0..K |-> V(i)]
    BY <1>6
  <2>2. V(0) = a /\ \A i \in 1..K : V(i) = U(ser[i - 1])
    BY <1>0
  <2> HIDE DEF V, U, a
  <2>3. \A i \in 0..K : ser[i] = V(i)
    BY <2>1
  <2>4. 0 \in 0..K /\ \A i \in 1..K : i \in 0..K
    BY <1>0
  <2> QED BY <2>2, <2>3, <2>4
<1> DEFINE S == {i \in Nat : ser[i] \in T}
<1>9. 0..K \subseteq S
  <2>1. 0 \in S
    BY <1>1, <1>8
  <2>2. \A i \in 1..K : i - 1 \in S => i \in S
    <3> HIDE DEF U, T
    <3> QED BY <1>0, <1>2, <1>8
  <2> HIDE DEF S
  <2> QED BY <1>0, <2>1, <2>2, UpTo
<1>10. \A k \in 0..K : ser[k] \in T
  BY <1>9
<1>11. \A k \in 1..K, n \in Nodes : ser[k][n] = NodeImage(n, ser[k - 1])
  BY <1>8
<1> HIDE DEF T
<1> QED BY <1>7, <1>10, <1>11 DEF K, T
(***************************************************************************)
(* There are as many levels as any node needs: the image of a directory is *)
(* made of the images of its entries.                                      *)
(***************************************************************************)
LEMMA SameKids ==
    ASSUME NEW n, NEW g, NEW h, \A i \in 1..Len(node[n].kids) : g[node[n].kids[i]] = h[node[n].kids[i]]
    PROVE  NodeImage(n, g) = NodeImage(n, h)
<1>1. KidImages(n, g) = KidImages(n, h)
  BY DEF KidImages
<1> QED BY <1>1, Zenon DEF NodeImage

LEMMA ImageIs ==
    ASSUME Tree(node, live)
    PROVE  SerNode \in ImageTable /\ \A n \in live : SerNode[n] = NodeImage(n, SerNode)
<1> DEFINE K == Cardinality(Nodes)
<1>0. Typed(node) /\ live \subseteq Nodes /\ Root \in live /\ K \in Nat
  BY Count DEF Tree
<1>1. PICK ser : /\ SerNode = ser[K]
                 /\ \A k \in 0..K : ser[k] \in ImageTable
                 /\ \A k \in 1..K, n \in Nodes : ser[k][n] = NodeImage(n, ser[k - 1])
  BY <1>0, SerIs
<1>2. PICK rank : Ranks(node, live, rank)
  BY DEF Tree
<1>3. \A n \in live : rank[n] \in Nat /\ rank[n] < K
  BY <1>0, <1>2, RankBound DEF Ranks
<1>4. \A n \in live : \A i \in 1..Len(node[n].kids) :
        node[n].kids[i] \in live /\ rank[node[n].kids[i]] = rank[n] + 1
  <2> TAKE n \in live
  <2> TAKE i \in 1..Len(node[n].kids)
  <2>1. node[n].kids[i] \in live \ {Root} /\ node[node[n].kids[i]].parent = n
    BY RootIsNoChild
  <2> QED BY <1>2, <2>1 DEF Ranks
<1> HIDE DEF K
<1> DEFINE Q(j) == \A n \in live : rank[n] >= K - j => \A k \in j..K : ser[k][n] = ser[K][n]
           S == {j \in Nat : Q(j)}
<1>5. 0 \in S
  <2>1. \A n \in live : ~(rank[n] >= K - 0)
    BY <1>0, <1>3
  <2> QED BY <2>1
<1>6. ASSUME NEW j \in 1..K, j - 1 \in S PROVE j \in S
  <2> SUFFICES ASSUME NEW n \in live, rank[n] >= K - j, NEW k \in j..K PROVE ser[k][n] = ser[K][n]
    OBVIOUS
  <2>1. k \in 1..K /\ K \in 1..K /\ k - 1 \in (j - 1)..K /\ K - 1 \in (j - 1)..K /\ n \in Nodes
    BY <1>0
  <2>2. \A i \in 1..Len(node[n].kids) : ser[k - 1][node[n].kids[i]] = ser[K - 1][node[n].kids[i]]
    <3> TAKE i \in 1..Len(node[n].kids)
    <3>1. node[n].kids[i] \in live /\ rank[node[n].kids[i]] >= K - (j - 1)
      BY <1>0, <1>3, <1>4
    <3>2. \A l \in (j - 1)..K : ser[l][node[n].kids[i]] = ser[K][node[n].kids[i]]
      BY <1>6, <3>1
    <3> QED BY <2>1, <3>2
  <2>3. NodeImage(n, ser[k - 1]) = NodeImage(n, ser[K - 1])
    BY <2>2, SameKids
  <2> QED BY <1>1, <2>1, <2>3
<1>7. 0..K \subseteq S
  <2> HIDE DEF S
  <2> QED BY <1>0, <1>5, <1>6, UpTo
<1>8. K - 1 \in 0..K /\ K \in 1..K
  BY <1>0, <1>3
<1>9. Q(K - 1)
  BY <1>7, <1>8
<1>10. ASSUME NEW n \in live PROVE SerNode[n] = NodeImage(n, SerNode)
  <2>1. \A i \in 1..Len(node[n].kids) : ser[K - 1][node[n].kids[i]] = ser[K][node[n].kids[i]]
    <3> TAKE i \in 1..Len(node[n].kids)
    <3>1. node[n].kids[i] \in live /\ rank[node[n].kids[i]] >= K - (K - 1) /\ K - 1 \in (K - 1)..K
      BY <1>0, <1>3, <1>4, <1>8
    <3> QED BY <1>9, <3>1
  <2>2. NodeImage(n, ser[K - 1]) = NodeImage(n, ser[K])
    BY <2>1, SameKids
  <2> QED BY <1>0, <1>1, <1>8, <2>2
<1>11. SerNode \in ImageTable
  BY <1>0, <1>1
<1> QED BY <1>10, <1>11

(***************************************************************************)
(* Where everything is in the image: b[n] units are in front of the node   *)
(* n; the header of the image stands for that of the root.                 *)
(***************************************************************************)
Body(d) == Flat(KidImages(d, SerNode))

Offs(d) == CHOOSE off : Placed(off, KidImages(d, SerNode), Len(node[d].kids), Body(d))

LEMMA BodyIs ==
    ASSUME Tree(node, live), NEW d \in live
    PROVE  /\ Body(d) \in Seq(Nat) /\ Len(Body(d)) \in Nat
           /\ Offs(d)[0] = 0 /\ Len(Body(d)) = Offs(d)[Len(node[d].kids)]
           /\ \A i \in 0..Len(node[d].kids) : Offs(d)[i] \in Nat
           /\ \A i \in 1..Len(node[d].kids) :
                /\ Offs(d)[i] = Offs(d)[i - 1] + Len(SerNode[node[d].kids[i]])
                /\ \A j \in 1..Len(SerNode[node[d].kids[i]]) :
                        /\ Offs(d)[i - 1] + j \in 1..Len(Body(d))
                        /\ Body(d)[Offs(d)[i - 1] + j] = SerNode[node[d].kids[i]][j]
<1> DEFINE n == Len(node[d].kids)
           seqs == KidImages(d, SerNode)
<1>1. Typed(node) /\ d \in Nodes /\ n \in Nat
  BY FieldTypes DEF Tree
<1>2. SerNode \in ImageTable
  BY ImageIs
<1>3. seqs \in [1..n -> Seq(Nat)] /\ \A i \in 1..n : seqs[i] = SerNode[node[d].kids[i]]
  BY <1>1, <1>2, NodeImageType DEF KidImages
<1> HIDE DEF seqs, n
<1>4. Flat(seqs) \in Seq(Nat) /\ \E off : Placed(off, seqs, n, Flat(seqs))
  BY <1>1, <1>3, FlatIs
<1>5. Body(d) = Flat(seqs)
  BY DEF Body, seqs
<1>6. Placed(Offs(d), seqs, n, Body(d))
  <2>1. Offs(d) = CHOOSE off : Placed(off, seqs, n, Body(d))
    BY DEF Offs, seqs, n
  <2> QED BY <1>4, <1>5, <2>1
<1>7. Body(d) \in Seq(Nat) /\ Len(Body(d)) \in Nat
  BY <1>4, <1>5
<1>8. /\ Offs(d)[0] = 0 /\ Len(Body(d)) = Offs(d)[n] /\ \A i \in 0..n : Offs(d)[i] \in Nat
      /\ \A i \in 1..n : /\ Offs(d)[i] = Offs(d)[i - 1] + Len(seqs[i])
                         /\ \A j \in 1..Len(seqs[i]) : /\ Offs(d)[i - 1] + j \in 1..Len(Body(d))
                                                       /\ Body(d)[Offs(d)[i - 1] + j] = seqs[i][j]
  BY <1>6 DEF Placed
<1> QED BY <1>3, <1>7, <1>8 DEF n

Spots(b) ==
    /\ b \in [Nodes -> Nat] /\ b[Root] = 0
    /\ \A d \in live : \A i \in 1..Len(node[d].kids) : b[node[d].kids[i]] = b[d] + 2 + Offs(d)[i - 1]

LEMMA SpotsExist == ASSUME Tree(node, live) PROVE \E b : Spots(b)
<1> DEFINE K == Cardinality(Nodes)
<1>0. Typed(node) /\ live \subseteq Nodes /\ Root \in live /\ Root \in Nodes /\ K \in Nat
  BY Count, NodeFacts DEF Tree
<1>1. PICK rank : Ranks(node, live, rank)
  BY DEF Tree
<1>2. \A n \in live : rank[n] \in Nat /\ rank[n] < K
  BY <1>0, <1>1, RankBound DEF Ranks
<1>3. rank[Root] = 0 /\ \A d \in live : \A i \in 1..Len(node[d].kids) :
        /\ node[d].kids[i] \in live \ {Root} /\ node[d].kids[i] \in Nodes
        /\ rank[node[d].kids[i]] = rank[d] + 1 /\ node[node[d].kids[i]].parent = d
        /\ PlaceOf(node[d].kids, node[d].kids[i]) = i
  <2>1. rank[Root] = 0
    BY <1>1 DEF Ranks
  <2>2. ASSUME NEW d \in live, NEW i \in 1..Len(node[d].kids)
        PROVE  /\ node[d].kids[i] \in live \ {Root} /\ node[d].kids[i] \in Nodes
               /\ rank[node[d].kids[i]] = rank[d] + 1 /\ node[node[d].kids[i]].parent = d
               /\ PlaceOf(node[d].kids, node[d].kids[i]) = i
    <3>1. node[d].kids[i] \in live \ {Root} /\ node[node[d].kids[i]].parent = d
      BY RootIsNoChild
    <3>2. rank[node[d].kids[i]] = rank[d] + 1
      BY <1>1, <3>1 DEF Ranks
    <3>3. PlaceOf(node[d].kids, node[d].kids[i]) = i
      <4> DEFINE j == PlaceOf(node[d].kids, node[d].kids[i])
      <4>1. j \in 1..Len(node[d].kids) /\ node[d].kids[j] = node[d].kids[i]
        BY DEF PlaceOf
      <4> HIDE DEF j
      <4>2. j = i
        BY <4>1, KidsDiffer
      <4> QED BY <4>2 DEF j
    <3> QED BY <1>0, <3>1, <3>2, <3>3
  <2> QED BY <2>1, <2>2
<1> HIDE DEF K
<1> DEFINE Spot(b, d, i) == b[d] + 2 + Offs(d)[i - 1]
           P(b, k) == /\ b \in [Nodes -> Nat] /\ b[Root] = 0
                      /\ \A d \in live : rank[d] < k =>
                            \A i \in 1..Len(node[d].kids) : b[node[d].kids[i]] = Spot(b, d, i)
           S == {k \in Nat : \E b : P(b, k)}
<1>4. 0 \in S
  <2> DEFINE b == [n \in Nodes |-> 0]
  <2>1. b \in [Nodes -> Nat] /\ b[Root] = 0 /\ \A d \in live : ~(rank[d] < 0)
    BY <1>0, <1>2
  <2>2. P(b, 0)
    BY <2>1
  <2> HIDE DEF b, P
  <2> QED BY <2>2
<1>5. ASSUME NEW k \in Nat, k \in S PROVE k + 1 \in S
  <2>1. PICK b : P(b, k)
    BY <1>5
  <2> DEFINE Kid(x) == Spot(b, node[x].parent, PlaceOf(node[node[x].parent].kids, x))
             c == [x \in Nodes |-> IF x \in live \ {Root} /\ rank[x] = k + 1 THEN Kid(x) ELSE b[x]]
  <2>2. \A d \in live : \A i \in 1..Len(node[d].kids) : Spot(b, d, i) \in Nat
    <3> TAKE d \in live
    <3> TAKE i \in 1..Len(node[d].kids)
    <3>1. b[d] \in Nat /\ Len(node[d].kids) \in Nat
      BY <1>0, <2>1, FieldTypes
    <3>2. i - 1 \in 0..Len(node[d].kids)
      BY <3>1
    <3>3. Offs(d)[i - 1] \in Nat
      BY <3>2, BodyIs
    <3> QED BY <3>1, <3>3
  <2>3. \A x \in live \ {Root} : Kid(x) \in Nat
    <3> TAKE x \in live \ {Root}
    <3>1. node[x].parent \in live
      BY DEF Tree, Listed
    <3>2. PICK i \in 1..Len(node[node[x].parent].kids) : node[node[x].parent].kids[i] = x
      BY DEF Tree, Listed
    <3>3. PlaceOf(node[node[x].parent].kids, x) \in 1..Len(node[node[x].parent].kids)
      BY <3>2 DEF PlaceOf
    <3> HIDE DEF Spot
    <3> QED BY <2>2, <3>1, <3>3
  <2> HIDE DEF Spot
  <2>4. c \in [Nodes -> Nat] /\ c[Root] = 0
    <3>1. \A x \in Nodes : b[x] \in Nat
      BY <2>1
    <3>2. b[Root] = 0
      BY <2>1
    <3> HIDE DEF Kid, P
    <3> QED BY <1>0, <2>3, <3>1, <3>2
  <2>5. ASSUME NEW d \in live, rank[d] < k + 1, NEW i \in 1..Len(node[d].kids)
        PROVE  c[node[d].kids[i]] = Spot(c, d, i)
    <3>1. c[d] = b[d]
      <4>1. d \in Nodes /\ rank[d] # k + 1
        BY <1>0, <1>2, <2>5
      <4> HIDE DEF Kid, P
      <4> QED BY <4>1
    <3>2. Spot(c, d, i) = Spot(b, d, i)
      BY <3>1 DEF Spot
    <3> DEFINE q == node[d].kids[i]
    <3>3. q \in live \ {Root} /\ q \in Nodes /\ rank[q] = rank[d] + 1 /\ node[q].parent = d
          /\ PlaceOf(node[d].kids, q) = i
      BY <1>3
    <3> HIDE DEF q
    <3>4. CASE rank[d] = k
      <4>1. c[q] = Kid(q)
        <5> HIDE DEF Kid, P
        <5> QED BY <3>3, <3>4
      <4>2. Kid(q) = Spot(b, d, i)
        BY <3>3
      <4> QED BY <3>2, <4>1, <4>2 DEF q
    <3>5. CASE rank[d] # k
      <4>1. rank[d] < k /\ rank[q] # k + 1
        BY <1>2, <2>5, <3>3, <3>5
      <4>2. c[q] = b[q]
        <5> HIDE DEF Kid, P
        <5> QED BY <3>3, <4>1
      <4>3. b[q] = Spot(b, d, i)
        BY <2>1, <4>1 DEF q
      <4> QED BY <3>2, <4>2, <4>3 DEF q
    <3> QED BY <3>4, <3>5
  <2> HIDE DEF c
  <2>6. P(c, k + 1)
    BY <2>4, <2>5
  <2> HIDE DEF P
  <2> QED BY <2>6
<1>6. Nat \subseteq S
  <2> HIDE DEF S
  <2> QED BY <1>4, <1>5, SetInduction
<1>7. PICK b : P(b, K)
  BY <1>0, <1>6
<1>8. Spots(b)
  BY <1>2, <1>7 DEF Spots
<1> QED BY <1>8

(***************************************************************************)
(* The header, and the image of every node in the image of the tree.       *)
(***************************************************************************)
LEMMA SerializedIs ==
    ASSUME Tree(node, live)
    PROVE  /\ Serialized \in Seq(Nat) /\ Len(Serialized) = 2 + Len(Body(Root))
           /\ Serialized[1] = Magic /\ Serialized[2] = Len(Serialized)
           /\ \A j \in 1..Len(Body(Root)) : Serialized[2 + j] = Body(Root)[j]
<1> DEFINE w == Body(Root)
           h == <<Magic, 2 + Len(w)>>
<1>1. w \in Seq(Nat) /\ Len(w) \in Nat
  BY BodyIs DEF Tree
<1>2. Serialized = h \o w
  BY Zenon DEF Serialized, Body, KidImages
<1> HIDE DEF w
<1>3. h \in Seq(Nat) /\ Len(h) = 2 /\ h[1] = Magic /\ h[2] = 2 + Len(w)
  BY <1>1 DEF Magic
<1> HIDE DEF h
<1>4. IsCat(Serialized, h, w)
  BY <1>1, <1>2, <1>3, CatIs
<1>5. /\ Serialized \in Seq(Nat) /\ Len(Serialized) = Len(h) + Len(w)
      /\ \A i \in 1..Len(h) : Serialized[i] = h[i]
      /\ \A j \in 1..Len(w) : Serialized[Len(h) + j] = w[j]
  BY <1>4 DEF IsCat
<1>6. 1 \in 1..Len(h) /\ 2 \in 1..Len(h)
  BY <1>3
<1> QED BY <1>3, <1>5, <1>6 DEF w

Copied(b, n) ==
    /\ b[n] + Len(SerNode[n]) <= Len(Serialized)
    /\ \A j \in 1..Len(SerNode[n]) : Serialized[b[n] + j] = SerNode[n][j]

Holds(b, d) ==
    /\ b[d] + 2 + Len(Body(d)) <= Len(Serialized)
    /\ \A j \in 1..Len(Body(d)) : Serialized[b[d] + 2 + j] = Body(d)[j]

LEMMA LaidOut ==
    ASSUME Tree(node, live), NEW b, Spots(b)
    PROVE  /\ \A n \in live \ {Root} : Copied(b, n)
           /\ \A d \in live : node[d].type = NODE_DIR => Holds(b, d)
<1>0. Typed(node) /\ live \subseteq Nodes /\ Root \in live /\ Root \in Nodes
  BY NodeFacts DEF Tree
<1>1. PICK rank : Ranks(node, live, rank)
  BY DEF Tree
<1>2. SerNode \in ImageTable /\ \A n \in live : SerNode[n] = NodeImage(n, SerNode)
  BY ImageIs
<1>3. b \in [Nodes -> Nat] /\ b[Root] = 0
  BY DEF Spots
<1>4. Holds(b, Root)
  <2>1. Len(Body(Root)) \in Nat
    BY <1>0, BodyIs
  <2>2. Len(Serialized) = 2 + Len(Body(Root)) /\ \A j \in 1..Len(Body(Root)) : Serialized[2 + j] = Body(Root)[j]
    BY SerializedIs
  <2> QED BY <1>3, <2>1, <2>2 DEF Holds
<1>5. ASSUME NEW n \in live \ {Root}, node[n].parent \in live, Holds(b, node[n].parent)
      PROVE  Copied(b, n)
  <2> DEFINE d == node[n].parent
             L == Len(SerNode[n])
  <2>1. PICK i \in 1..Len(node[d].kids) : node[d].kids[i] = n
    BY DEF Tree, Listed
  <2> HIDE DEF d
  <2>2. d \in live /\ Holds(b, d) /\ b[d] \in Nat /\ b[n] = b[d] + 2 + Offs(d)[i - 1]
    BY <1>0, <1>3, <1>5, <2>1 DEF Spots, d
  <2>3. /\ Len(Body(d)) \in Nat /\ Offs(d)[i - 1] \in Nat
        /\ \A j \in 1..L : Offs(d)[i - 1] + j \in 1..Len(Body(d)) /\ Body(d)[Offs(d)[i - 1] + j] = SerNode[n][j]
    <3>1. Len(node[d].kids) \in Nat
      BY <1>0, <2>2, FieldTypes
    <3>2. i - 1 \in 0..Len(node[d].kids)
      BY <3>1
    <3> QED BY <2>1, <2>2, <3>2, BodyIs
  <2>4. L \in Nat
    BY <1>0, <1>2 DEF ImageTable
  <2> HIDE DEF L
  <2>5. Offs(d)[i - 1] + L <= Len(Body(d)) \/ L = 0
    <3>1. CASE L # 0
      <4>1. L \in 1..L
        BY <2>4, <3>1
      <4> QED BY <2>3, <2>4, <4>1
    <3> QED BY <3>1
  <2>6. \A j \in 1..L : Serialized[b[n] + j] = SerNode[n][j]
    <3> TAKE j \in 1..L
    <3> DEFINE q == Offs(d)[i - 1] + j
    <3>0. \A x, o, z \in Nat : (x + 2 + o) + z = x + 2 + (o + z)
      OBVIOUS
    <3>1. q \in 1..Len(Body(d)) /\ Body(d)[q] = SerNode[n][j] /\ b[n] + j = b[d] + 2 + q
      <4>1. j \in Nat
        BY <2>4
      <4>2. (b[d] + 2 + Offs(d)[i - 1]) + j = b[d] + 2 + q
        BY <2>2, <2>3, <3>0, <4>1
      <4> QED BY <2>2, <2>3, <4>2
    <3>2. \A x \in 1..Len(Body(d)) : Serialized[b[d] + 2 + x] = Body(d)[x]
      BY <2>2 DEF Holds
    <3> HIDE DEF q
    <3> QED BY <3>1, <3>2
  <2>7. L # 0
    <3>1. SerNode[n] = NodeImage(n, SerNode) /\ n \in Nodes
      BY <1>0, <1>2
    <3>2. Len(FileImage(n)) # 0
      <4>1. Len(FileImage(n)) = 3 + node[n].size /\ node[n].size \in Nat
        BY <1>0, <3>1, FileImageIs, FieldTypes
      <4> QED BY <4>1
    <3>3. Body(n) \in Seq(Nat) /\ Len(Body(n)) \in Nat
      BY BodyIs
    <3>4. Len(DirImage(n, Body(n))) # 0
      BY <1>0, <3>3, DirImageIs
    <3>5. SerNode[n] = FileImage(n) \/ SerNode[n] = DirImage(n, Body(n))
      BY <3>1, Zenon DEF NodeImage, Body
    <3> QED BY <3>2, <3>4, <3>5 DEF L
  <2>8. b[d] + 2 + Len(Body(d)) <= Len(Serialized) /\ Len(Serialized) \in Nat
    BY <2>2, SerializedIs DEF Holds
  <2>9. b[n] + L <= Len(Serialized)
    <3>1. \A x, o, y, l, t \in Nat : x + 2 + y <= t /\ o + l <= y => (x + 2 + o) + l <= t
      OBVIOUS
    <3>2. Offs(d)[i - 1] + L <= Len(Body(d))
      BY <2>5, <2>7
    <3>3. (b[d] + 2 + Offs(d)[i - 1]) + L <= Len(Serialized)
      BY <2>2, <2>3, <2>4, <2>8, <3>1, <3>2
    <3> QED BY <2>2, <3>3
  <2> QED BY <2>6, <2>9 DEF Copied, L
<1>6. ASSUME NEW d \in live \ {Root}, node[d].type = NODE_DIR, Copied(b, d)
      PROVE  Holds(b, d)
  <2>1. SerNode[d] = DirImage(d, Body(d))
    <3>1. SerNode[d] = NodeImage(d, SerNode) /\ node[d].type # NODE_FILE
      BY <1>2, <1>6, NodeFacts
    <3> QED BY <3>1, Zenon DEF NodeImage, Body
  <2>2. Body(d) \in Seq(Nat) /\ Len(Body(d)) \in Nat /\ d \in Nodes /\ b[d] \in Nat
    BY <1>0, <1>3, BodyIs
  <2>3. Len(SerNode[d]) = 4 + Len(Body(d)) /\ \A j \in 1..Len(Body(d)) : SerNode[d][2 + j] = Body(d)[j]
    BY <1>0, <2>1, <2>2, DirImageIs
  <2>4. Len(Serialized) \in Nat
    BY SerializedIs
  <2>5. b[d] + 2 + Len(Body(d)) <= Len(Serialized)
    BY <1>6, <2>2, <2>3, <2>4 DEF Copied
  <2>6. \A j \in 1..Len(Body(d)) : Serialized[b[d] + 2 + j] = Body(d)[j]
    <3> TAKE j \in 1..Len(Body(d))
    <3>0. \A x, y \in Nat : \A z \in 1..y : 2 + z \in 1..(4 + y) /\ x + (2 + z) = x + 2 + z
      OBVIOUS
    <3>1. 2 + j \in 1..Len(SerNode[d]) /\ b[d] + (2 + j) = b[d] + 2 + j
      BY <2>2, <2>3, <3>0
    <3> QED BY <1>6, <2>3, <3>1 DEF Copied
  <2> QED BY <2>5, <2>6 DEF Holds
<1> DEFINE S == {k \in Nat : \A d \in live : rank[d] = k /\ node[d].type = NODE_DIR => Holds(b, d)}
<1>7. \A n \in live : rank[n] \in Nat
  BY <1>0, <1>1 DEF Ranks
<1>8. \A n \in live \ {Root} : /\ node[n].parent \in live /\ rank[n] = rank[node[n].parent] + 1
                              /\ node[node[n].parent].type = NODE_DIR
  BY <1>1 DEF Tree, Listed, Children, Ranks
<1>9. 0 \in S
  <2>1. \A d \in live : rank[d] = 0 => d = Root
    BY <1>7, <1>8
  <2> QED BY <1>4, <2>1
<1>10. ASSUME NEW k \in Nat, k \in S PROVE k + 1 \in S
  <2> SUFFICES ASSUME NEW d \in live, rank[d] = k + 1, node[d].type = NODE_DIR PROVE Holds(b, d)
    OBVIOUS
  <2>1. CASE d = Root
    BY <1>4, <2>1
  <2>2. CASE d # Root
    <3>1. node[d].parent \in live /\ rank[node[d].parent] = k /\ node[node[d].parent].type = NODE_DIR
      BY <1>7, <1>8, <2>2
    <3>2. Holds(b, node[d].parent)
      BY <1>10, <3>1
    <3> QED BY <1>5, <1>6, <2>2, <3>1, <3>2
  <2> QED BY <2>1, <2>2
<1>11. Nat \subseteq S
  <2> HIDE DEF S
  <2> QED BY <1>9, <1>10, SetInduction
<1>12. \A d \in live : node[d].type = NODE_DIR => Holds(b, d)
  BY <1>7, <1>11
<1>13. \A n \in live \ {Root} : Copied(b, n)
  BY <1>5, <1>8, <1>12
<1> QED BY <1>12, <1>13

(***************************************************************************)
(* What the reader finds where.  Agrees: img starts with the image of the  *)
(* tree.  At: the place after i entries of the directory d.                *)
(***************************************************************************)
Agrees(img, total) ==
    /\ img \in Images /\ total = Len(Serialized) /\ total <= BlobUnits
    /\ \A x \in 1..total : img[x] = Serialized[x]

At(b, d, i) == b[d] + 2 + Offs(d)[i]

FileAt(b, img, total, q) ==
    /\ Len(SerNode[q]) = 3 + node[q].size /\ b[q] + 3 + node[q].size <= total
    /\ img[b[q] + 1] = NODE_FILE /\ img[b[q] + 2] = node[q].name /\ img[b[q] + 3] = node[q].size
    /\ \A j \in 1..node[q].size : img[b[q] + 3 + j] = node[q].data[j]

DirAt(b, img, total, q) ==
    LET last == At(b, q, Len(node[q].kids))
    IN  /\ img[b[q] + 1] = NODE_DIR /\ img[b[q] + 2] = node[q].name /\ b[q] + 2 <= total
        /\ last + 2 = b[q] + Len(SerNode[q]) /\ last + 2 <= total
        /\ img[last + 1] = 255 /\ img[last + 2] = 0

Spread(b, d) ==
    /\ At(b, d, 0) = b[d] + 2
    /\ \A i \in 0..Len(node[d].kids) : At(b, d, i) \in Nat
    /\ \A i \in 1..Len(node[d].kids) :
            /\ b[node[d].kids[i]] = At(b, d, i - 1)
            /\ At(b, d, i) = b[node[d].kids[i]] + Len(SerNode[node[d].kids[i]])

LEMMA StepBack ==
    ASSUME NEW i \in Nat
    PROVE  (i + 1) - 1 = i
  OBVIOUS

LEMMA SpreadIs ==
    ASSUME Tree(node, live), NEW b, Spots(b), NEW d \in live
    PROVE  Spread(b, d)
<1>1. /\ Offs(d)[0] = 0 /\ \A i \in 0..Len(node[d].kids) : Offs(d)[i] \in Nat
      /\ \A i \in 1..Len(node[d].kids) : Offs(d)[i] = Offs(d)[i - 1] + Len(SerNode[node[d].kids[i]])
  BY BodyIs
<1>2. b[d] \in Nat /\ Len(node[d].kids) \in Nat /\ \A i \in 1..Len(node[d].kids) : node[d].kids[i] \in Nodes
  BY FieldTypes DEF Tree, Spots
<1>3. \A i \in 1..Len(node[d].kids) : b[node[d].kids[i]] = b[d] + 2 + Offs(d)[i - 1]
  BY DEF Spots
<1>4. \A i \in 1..Len(node[d].kids) : Len(SerNode[node[d].kids[i]]) \in Nat
  BY <1>2, ImageIs DEF ImageTable
<1>5. \A x, o, l \in Nat : x + 2 + (o + l) = (x + 2 + o) + l /\ x + 2 + o \in Nat /\ x + 2 + 0 = x + 2
  OBVIOUS
<1>6. At(b, d, 0) = b[d] + 2 /\ \A i \in 0..Len(node[d].kids) : At(b, d, i) \in Nat
  BY <1>1, <1>2, <1>5 DEF At
<1>7. ASSUME NEW i \in 1..Len(node[d].kids)
      PROVE  /\ b[node[d].kids[i]] = At(b, d, i - 1)
             /\ At(b, d, i) = b[node[d].kids[i]] + Len(SerNode[node[d].kids[i]])
  <2>1. i - 1 \in 0..Len(node[d].kids)
    BY <1>2
  <2> DEFINE o == Offs(d)[i - 1]
             l == Len(SerNode[node[d].kids[i]])
  <2>2. o \in Nat /\ l \in Nat /\ Offs(d)[i] = o + l /\ b[node[d].kids[i]] = b[d] + 2 + o
    BY <1>1, <1>3, <1>4, <2>1
  <2> HIDE DEF o, l
  <2>3. b[d] + 2 + (o + l) = (b[d] + 2 + o) + l
    BY <1>2, <1>5, <2>2
  <2> QED BY <2>2, <2>3 DEF At, o, l
<1> QED BY <1>6, <1>7 DEF Spread

LEMMA FileAtIs ==
    ASSUME Tree(node, live), NEW b, Spots(b), NEW img, NEW total, Agrees(img, total),
           NEW q \in live \ {Root}, node[q].type = NODE_FILE
    PROVE  FileAt(b, img, total, q)
<1> DEFINE s == SerNode[q]
           z == node[q].size
<1>1. Typed(node) /\ q \in Nodes /\ z \in Nat /\ b[q] \in Nat
  BY FieldTypes DEF Tree, Spots
<1>2. s = FileImage(q)
  BY ImageIs DEF NodeImage
<1>3. /\ Len(s) = 3 + z /\ s[1] = NODE_FILE /\ s[2] = node[q].name /\ s[3] = z
      /\ \A j \in 1..z : s[3 + j] = node[q].data[j]
  BY <1>1, <1>2, FileImageIs
<1>4. b[q] + Len(s) <= total /\ \A j \in 1..Len(s) : Serialized[b[q] + j] = s[j]
  BY LaidOut DEF Copied, Agrees
<1>5. total \in Nat /\ \A x \in 1..total : img[x] = Serialized[x]
  BY SerializedIs DEF Agrees
<1> HIDE DEF s, z
<1>6. \A x, y, t \in Nat : x + (3 + y) <= t =>
        /\ x + 3 + y <= t
        /\ \A j \in 1..(3 + y) : x + j \in 1..t
        /\ 1 \in 1..(3 + y) /\ 2 \in 1..(3 + y) /\ 3 \in 1..(3 + y)
        /\ \A j \in 1..y : 3 + j \in 1..(3 + y) /\ x + (3 + j) = x + 3 + j
  OBVIOUS
<1>7. /\ b[q] + 3 + z <= total
      /\ \A j \in 1..(3 + z) : b[q] + j \in 1..total
      /\ 1 \in 1..(3 + z) /\ 2 \in 1..(3 + z) /\ 3 \in 1..(3 + z)
      /\ \A j \in 1..z : 3 + j \in 1..(3 + z) /\ b[q] + (3 + j) = b[q] + 3 + j
  BY <1>1, <1>3, <1>4, <1>5, <1>6
<1>8. \A j \in 1..(3 + z) : img[b[q] + j] = s[j]
  BY <1>3, <1>4, <1>5, <1>7
<1>9. \A j \in 1..z : img[b[q] + 3 + j] = node[q].data[j]
  <2> TAKE j \in 1..z
  <2>1. img[b[q] + (3 + j)] = s[3 + j]
    BY <1>7, <1>8
  <2> QED BY <1>3, <1>7, <2>1
<1>10. img[b[q] + 1] = NODE_FILE /\ img[b[q] + 2] = node[q].name /\ img[b[q] + 3] = z
  BY <1>3, <1>7, <1>8
<1> QED BY <1>3, <1>7, <1>9, <1>10 DEF FileAt, s, z

LEMMA DirAtIs ==
    ASSUME Tree(node, live), NEW b, Spots(b), NEW img, NEW total, Agrees(img, total),
           NEW q \in live \ {Root}, node[q].type = NODE_DIR
    PROVE  DirAt(b, img, total, q)
<1> DEFINE s == SerNode[q]
           w == Body(q)
           last == At(b, q, Len(node[q].kids))
<1>1. Typed(node) /\ q \in Nodes /\ b[q] \in Nat
  BY DEF Tree, Spots
<1>2. w \in Seq(Nat) /\ Len(w) \in Nat /\ Len(w) = Offs(q)[Len(node[q].kids)]
  BY BodyIs
<1>3. s = DirImage(q, w)
  <2>1. SerNode[q] = NodeImage(q, SerNode) /\ node[q].type # NODE_FILE
    BY ImageIs, NodeFacts
  <2> QED BY <2>1, Zenon DEF NodeImage, Body
<1>4. last = b[q] + 2 + Len(w)
  BY <1>2 DEF At
<1> HIDE DEF w
<1>5. /\ Len(s) = 4 + Len(w) /\ s[1] = NODE_DIR /\ s[2] = node[q].name
      /\ s[3 + Len(w)] = 255 /\ s[4 + Len(w)] = 0
  <2> DEFINE e == DirImage(q, w)
  <2>1. /\ Len(e) = 4 + Len(w) /\ e[1] = NODE_DIR /\ e[2] = node[q].name
        /\ e[3 + Len(w)] = 255 /\ e[4 + Len(w)] = 0
    <3>1. \A v \in Seq(Nat) :
            /\ Len(DirImage(q, v)) = 4 + Len(v)
            /\ DirImage(q, v)[1] = NODE_DIR /\ DirImage(q, v)[2] = node[q].name
            /\ DirImage(q, v)[3 + Len(v)] = 255 /\ DirImage(q, v)[4 + Len(v)] = 0
      BY <1>1, DirImageIs
    <3> QED BY <1>2, <3>1
  <2>2. s = e
    BY <1>3
  <2> HIDE DEF e, s
  <2> QED BY <2>1, <2>2
<1>6. b[q] + Len(s) <= total /\ \A j \in 1..Len(s) : Serialized[b[q] + j] = s[j]
  BY LaidOut DEF Copied, Agrees
<1>7. total \in Nat /\ \A x \in 1..total : img[x] = Serialized[x]
  BY SerializedIs DEF Agrees
<1> HIDE DEF s, last
<1>8. \A x, y, t \in Nat : x + (4 + y) <= t =>
        /\ \A j \in 1..(4 + y) : x + j \in 1..t
        /\ 1 \in 1..(4 + y) /\ 2 \in 1..(4 + y) /\ 3 + y \in 1..(4 + y) /\ 4 + y \in 1..(4 + y)
        /\ x + 2 <= t /\ (x + 2 + y) + 2 = x + (4 + y) /\ (x + 2 + y) + 2 <= t
        /\ (x + 2 + y) + 1 = x + (3 + y)
  OBVIOUS
<1>9. /\ \A j \in 1..(4 + Len(w)) : b[q] + j \in 1..total
      /\ 1 \in 1..(4 + Len(w)) /\ 2 \in 1..(4 + Len(w)) /\ 3 + Len(w) \in 1..(4 + Len(w))
      /\ 4 + Len(w) \in 1..(4 + Len(w))
      /\ b[q] + 2 <= total /\ last + 2 = b[q] + (4 + Len(w)) /\ last + 2 <= total
      /\ last + 1 = b[q] + (3 + Len(w))
  <2>1. b[q] + (4 + Len(w)) <= total
    BY <1>5, <1>6
  <2>2. /\ \A j \in 1..(4 + Len(w)) : b[q] + j \in 1..total
        /\ 1 \in 1..(4 + Len(w)) /\ 2 \in 1..(4 + Len(w)) /\ 3 + Len(w) \in 1..(4 + Len(w))
        /\ 4 + Len(w) \in 1..(4 + Len(w))
        /\ b[q] + 2 <= total /\ (b[q] + 2 + Len(w)) + 2 = b[q] + (4 + Len(w))
        /\ (b[q] + 2 + Len(w)) + 2 <= total
        /\ (b[q] + 2 + Len(w)) + 1 = b[q] + (3 + Len(w))
    BY <1>1, <1>2, <1>7, <1>8, <2>1
  <2> QED BY <1>4, <2>2
<1>10. \A j \in 1..(4 + Len(w)) : img[b[q] + j] = s[j]
  BY <1>5, <1>6, <1>7, <1>9
<1>11. /\ img[b[q] + 1] = NODE_DIR /\ img[b[q] + 2] = node[q].name
       /\ img[last + 1] = 255 /\ img[last + 2] = 0
  BY <1>5, <1>9, <1>10
<1> QED BY <1>5, <1>9, <1>11 DEF DirAt, s, last

(***************************************************************************)
(* What has been read so far is a part of the tree that was saved: m takes *)
(* each node that has been built to the one it was written for.            *)
(***************************************************************************)
Alike(x, y) ==
    /\ y.type = x.type /\ y.size = x.size
    /\ \A j \in 1..x.size : y.data[j] = x.data[j]

Matches(m, tab, in) ==
    /\ m \in [in -> live] /\ m[Root] = Root
    /\ \A x, y \in in : m[x] = m[y] => x = y
    /\ \A x \in in : Alike(tab[x], node[m[x]])
    /\ \A x \in in \ {Root} : node[m[x]].name = tab[x].name /\ node[m[x]].parent = m[tab[x].parent]

Has(m, in, q) == \E x \in in : m[x] = q

LEMMA MayBuild ==
    ASSUME Tree(node, live), NEW r \in Walks, NEW m, Matches(m, r.tab, r.in),
           NEW o, o = m[Last(r.dirs)], NEW i \in 1..Len(node[o].kids), NEW q, q = node[o].kids[i],
           ~Has(m, r.in, q), Distinct(node, live)
    PROVE  CanBuild(r, node[q].name)
<1> DEFINE d == Last(r.dirs)
           name == node[q].name
<1>0. /\ d \in r.in /\ d \in Nodes /\ Typed(r.tab) /\ Tree(r.tab, r.in) /\ r.in \subseteq Nodes
      /\ o \in live /\ live \subseteq Nodes /\ m \in [r.in -> live]
  <2>1. d \in r.in /\ Typed(r.tab) /\ Tree(r.tab, r.in) /\ r.in \subseteq Nodes
    BY WalkTypes
  <2> QED BY <2>1 DEF Matches, Tree
<1> HIDE DEF d, name
<1>1. ASSUME NEW j \in 1..Len(r.tab[d].kids), r.tab[r.tab[d].kids[j]].name = name
      PROVE  FALSE
  <2> DEFINE x == r.tab[d].kids[j]
  <2>1. x \in r.in \ {Root} /\ r.tab[x].parent = d
    BY <1>0, RootIsNoChild
  <2>2. m[x] \in live /\ m[x] # Root /\ node[m[x]].name = name /\ node[m[x]].parent = o
    BY <1>0, <1>1, <2>1 DEF Matches, Tree, d
  <2> HIDE DEF x
  <2>3. PICK l \in 1..Len(node[o].kids) : node[o].kids[l] = m[x]
    BY <2>2 DEF Tree, Listed
  <2>4. l = i
    BY <1>0, <2>2, <2>3 DEF Distinct, name
  <2> QED BY <2>1, <2>3, <2>4 DEF Has
<1>2. FindChild(r.tab, d, name) = Null
  BY <1>0, <1>1, ChildFound
<1>3. r.in # Nodes
  <2> SUFFICES ASSUME r.in = Nodes PROVE FALSE
    OBVIOUS
  <2> DEFINE rest == Nodes \ {q}
  <2>1. q \in Nodes /\ IsFiniteSet(Nodes) /\ Cardinality(Nodes) \in Nat
    BY <1>0, Count, RootIsNoChild
  <2>2. IsFiniteSet(rest) /\ Cardinality(rest) = Cardinality(Nodes) - 1
    <3>1. \A x \in Nodes : IsFiniteSet(Nodes \ {x}) /\ Cardinality(Nodes \ {x}) = Cardinality(Nodes) - 1
      BY <2>1, FS_RemoveElement
    <3> QED BY <2>1, <3>1, Zenon
  <2>3. m \in [Nodes -> rest]
    BY <1>0 DEF Has
  <2> HIDE DEF rest
  <2>4. Cardinality(rest) < Cardinality(Nodes)
    BY <2>1, <2>2
  <2>5. \E x, y \in Nodes : x # y /\ m[x] = m[y]
    BY <2>1, <2>2, <2>3, <2>4, FS_PigeonHole
  <2> QED BY <2>5 DEF Matches
<1> QED BY <1>2, <1>3 DEF CanBuild, d, name

(***************************************************************************)
(* The next node n has been built in d for the entry q.                    *)
(***************************************************************************)
Grown(tab, new, n, d, q) ==
    /\ new[n].parent = d /\ new[n].name = node[q].name /\ Alike(new[n], node[q])
    /\ \A x \in Nodes \ {n} : /\ new[x].name = tab[x].name /\ new[x].type = tab[x].type
                              /\ new[x].parent = tab[x].parent
                              /\ new[x].data = tab[x].data /\ new[x].size = tab[x].size

More(m, in, n, q) == [x \in in \cup {n} |-> IF x = n THEN q ELSE m[x]]

Joins(in, now, n) == n \in Nodes \ in /\ now = in \cup {n}

Extends(m, k, in, now, n, q) ==
    /\ k[n] = q /\ \A x \in in : k[x] = m[x]
    /\ \A y : Has(k, now, y) <=> Has(m, in, y) \/ y = q

LEMMA MatchesMore ==
    ASSUME Tree(node, live), NEW tab, NEW in, Tree(tab, in), NEW m, Matches(m, tab, in),
           NEW new, NEW n, NEW now, Joins(in, now, n), NEW d \in in, NEW q \in live \ {Root}, ~Has(m, in, q),
           node[q].parent = m[d], Grown(tab, new, n, d, q)
    PROVE  \E k : Matches(k, new, now) /\ Extends(m, k, in, now, n, q)
<1> DEFINE k == More(m, in, n, q)
<1>a. n \in Nodes \ in /\ now = in \cup {n}
  BY DEF Joins
<1>0. in \subseteq Nodes /\ Root \in in /\ m \in [in -> live] /\ m[Root] = Root
  BY DEF Tree, Matches
<1>1. k[n] = q /\ (\A x \in in : k[x] = m[x]) /\ k \in [now -> live]
  BY <1>a, <1>0 DEF More
<1> HIDE DEF k
<1>2. \A x, y \in now : k[x] = k[y] => x = y
  BY <1>a, <1>1 DEF Matches, Has
<1>3. \A x \in now : Alike(new[x], node[k[x]])
  <2>1. Alike(new[n], node[q])
    BY DEF Grown
  <2>2. ASSUME NEW x \in in PROVE Alike(new[x], node[k[x]])
    <3>1. Alike(tab[x], node[m[x]])
      BY DEF Matches
    <3>2. new[x].type = tab[x].type /\ new[x].data = tab[x].data /\ new[x].size = tab[x].size
      BY <1>a, <1>0 DEF Grown
    <3> QED BY <1>1, <3>1, <3>2 DEF Alike
  <2> QED BY <1>a, <1>1, <2>1, <2>2
<1>4. \A x \in now \ {Root} : node[k[x]].name = new[x].name /\ node[k[x]].parent = k[new[x].parent]
  <2>1. node[k[n]].name = new[n].name /\ node[k[n]].parent = k[new[n].parent]
    BY <1>1 DEF Grown
  <2>2. ASSUME NEW x \in in \ {Root} PROVE node[k[x]].name = new[x].name /\ node[k[x]].parent = k[new[x].parent]
    <3>1. tab[x].parent \in in
      BY DEF Tree, Listed
    <3>2. new[x].name = tab[x].name /\ new[x].parent = tab[x].parent
      BY <1>a, <1>0 DEF Grown
    <3>3. node[m[x]].name = tab[x].name /\ node[m[x]].parent = m[tab[x].parent]
      BY DEF Matches
    <3> QED BY <1>1, <3>1, <3>2, <3>3
  <2> QED BY <1>a, <2>1, <2>2
<1>5. Matches(k, new, now)
  BY <1>a, <1>0, <1>1, <1>2, <1>3, <1>4 DEF Matches
<1>6. \A y : Has(k, now, y) <=> Has(m, in, y) \/ y = q
  BY <1>a, <1>1 DEF Has
<1> QED BY <1>1, <1>5, <1>6 DEF Extends

(***************************************************************************)
(* How far the reader is.  Read: the first i entries of o have been built. *)
(* Waiting: of an open directory those up to the next open one.  Finished: *)
(* of one that has been closed all.                                        *)
(***************************************************************************)
Read(m, in, o, i) == \A j \in 1..Len(node[o].kids) : Has(m, in, node[o].kids[j]) <=> j <= i

Chain(dirs, tab) ==
    /\ dirs[1] = Root
    /\ \A l \in 1..(Len(dirs) - 1) : tab[dirs[l + 1]].parent = dirs[l]
    /\ \A k, l \in 1..Len(dirs) : dirs[k] = dirs[l] => k = l

Waiting(m, in, dirs) ==
    \A l \in 1..(Len(dirs) - 1) : \A i \in 1..Len(node[m[dirs[l]]].kids) :
        node[m[dirs[l]]].kids[i] = m[dirs[l + 1]] => Read(m, in, m[dirs[l]], i)

Complete(m, in, o) == \A j \in 1..Len(node[o].kids) : Has(m, in, node[o].kids[j])

Finished(m, in, dirs) ==
    \A x \in in : (\A l \in 1..Len(dirs) : dirs[l] # x) => Complete(m, in, m[x])

Stays(k, now, in, dirs) ==
    \A x \in in : (\A l \in 1..Len(dirs) : dirs[l] # x) => Complete(k, now, k[x])

Within(dirs, in) ==
    dirs \in Seq(Nodes) /\ Len(dirs) > 0 /\ \A l \in 1..Len(dirs) : dirs[l] \in in

Current(m, in, b, o, pos) ==
    \E i \in 0..Len(node[o].kids) : pos = At(b, o, i) /\ Read(m, in, o, i)

Sim(r, m, b, total) ==
    /\ Matches(m, r.tab, r.in) /\ Chain(r.dirs, r.tab)
    /\ Waiting(m, r.in, r.dirs) /\ Finished(m, r.in, r.dirs)
    /\ Current(m, r.in, b, m[Last(r.dirs)], r.pos) /\ r.pos <= total

(***************************************************************************)
(* A directory that has just been opened has no entries yet.               *)
(***************************************************************************)
LEMMA NoneYet ==
    ASSUME Tree(node, live), NEW tab, NEW in, Tree(tab, in), NEW m, Matches(m, tab, in),
           NEW n, NEW now, NEW q \in live \ {Root}, ~Has(m, in, q),
           NEW k, Extends(m, k, in, now, n, q)
    PROVE  Read(k, now, q, 0)
<1> SUFFICES ASSUME NEW j \in 1..Len(node[q].kids), Has(k, now, node[q].kids[j]) PROVE FALSE
  <2>1. \A j \in 1..Len(node[q].kids) : ~(j <= 0)
    OBVIOUS
  <2> QED BY <2>1 DEF Read
<1> DEFINE y == node[q].kids[j]
<1>1. y \in live \ {Root} /\ node[y].parent = q
  BY RootIsNoChild
<1>2. y # q
  <2>1. PICK rank : Ranks(node, live, rank)
    BY DEF Tree
  <2>2. rank[y] = rank[q] + 1 /\ rank[q] \in Nat
    BY <1>1, <2>1 DEF Ranks, Tree
  <2> HIDE DEF y
  <2> QED BY <2>2
<1> HIDE DEF y
<1>3. Has(m, in, y)
  BY <1>2 DEF y, Extends
<1>4. PICK x \in in : m[x] = y
  BY <1>3 DEF Has
<1>5. x # Root
  BY <1>1, <1>4 DEF Matches
<1>6. node[y].parent = m[tab[x].parent] /\ tab[x].parent \in in
  BY <1>4, <1>5 DEF Matches, Tree, Listed
<1> QED BY <1>1, <1>6 DEF Has

(***************************************************************************)
(* The innermost directory is that of o, i entries of it have been built,  *)
(* and the next one is q.                                                  *)
(***************************************************************************)
NextIs(m, in, dirs, o, i, q) ==
    /\ o = m[dirs[Len(dirs)]] /\ i \in 0..Len(node[o].kids) /\ i + 1 \in 1..Len(node[o].kids)
    /\ Read(m, in, o, i) /\ q = node[o].kids[i + 1]

(***************************************************************************)
(* What one more node means for the open directories and the closed ones.  *)
(***************************************************************************)
LEMMA OneMore ==
    ASSUME Tree(node, live), NEW tab, NEW in, Tree(tab, in), NEW m, Matches(m, tab, in),
           NEW dirs, Within(dirs, in),
           Chain(dirs, tab), Waiting(m, in, dirs), Finished(m, in, dirs),
           NEW o, NEW i, NEW q, NextIs(m, in, dirs, o, i, q),
           NEW n, NEW now, NEW k, Extends(m, k, in, now, n, q)
    PROVE  Read(k, now, o, i + 1) /\ Waiting(k, now, dirs) /\ Stays(k, now, in, dirs)
<1> DEFINE L == Len(dirs)
<1>b. /\ dirs \in Seq(Nodes) /\ Len(dirs) > 0 /\ \A l \in 1..L : dirs[l] \in in
  BY DEF Within
<1>c. (\A x \in in : k[x] = m[x]) /\ \A y : Has(k, now, y) <=> Has(m, in, y) \/ y = q
  BY DEF Extends
<1>a. /\ o = m[dirs[L]] /\ i \in 0..Len(node[o].kids) /\ i + 1 \in 1..Len(node[o].kids)
      /\ Read(m, in, o, i) /\ q = node[o].kids[i + 1]
  BY DEF NextIs
<1>0. L \in Nat /\ L \in 1..L /\ o \in live
  <2>1. L \in Nat /\ L \in 1..L
    BY <1>b
  <2> QED BY <1>a, <1>b, <2>1 DEF Matches
<1>1. q \in live \ {Root} /\ node[q].parent = o
  BY <1>a, <1>0, RootIsNoChild
<1>2. Read(k, now, o, i + 1)
  <2> SUFFICES ASSUME NEW j \in 1..Len(node[o].kids)
               PROVE  Has(k, now, node[o].kids[j]) <=> j <= i + 1
    BY DEF Read
  <2>1. node[o].kids[j] = q <=> j = i + 1
    BY <1>a, <1>0, KidsDiffer
  <2>2. Has(m, in, node[o].kids[j]) <=> j <= i
    BY <1>a DEF Read
  <2>3. i \in Nat /\ j \in Nat
    BY <1>a, <1>0, FieldTypes DEF Tree
  <2>4. j <= i + 1 <=> j <= i \/ j = i + 1
    BY <2>3
  <2> QED BY <1>c, <2>1, <2>2, <2>4
<1>3. Waiting(k, now, dirs)
  <2> SUFFICES ASSUME NEW l \in 1..(L - 1), NEW j \in 1..Len(node[k[dirs[l]]].kids),
                      node[k[dirs[l]]].kids[j] = k[dirs[l + 1]]
               PROVE  Read(k, now, k[dirs[l]], j)
    BY DEF Waiting
  <2>1. l \in 1..L /\ l + 1 \in 1..L /\ l # L
    BY <1>0
  <2>2. k[dirs[l]] = m[dirs[l]] /\ k[dirs[l + 1]] = m[dirs[l + 1]] /\ m[dirs[l]] \in live
    BY <1>b, <1>c, <2>1 DEF Matches
  <2>3. m[dirs[l]] # o
    BY <1>a, <1>b, <1>0, <2>1 DEF Matches, Chain
  <2>4. Read(m, in, m[dirs[l]], j)
    BY <2>2 DEF Waiting
  <2>5. \A g \in 1..Len(node[m[dirs[l]]].kids) : node[m[dirs[l]]].kids[g] # q
    <3>1. \A e \in live : \A g \in 1..Len(node[e].kids) : node[node[e].kids[g]].parent = e
      BY RootIsNoChild
    <3> DEFINE e == m[dirs[l]]
    <3>2. e \in live /\ e # o
      BY <2>2, <2>3
    <3> HIDE DEF e
    <3>3. \A g \in 1..Len(node[e].kids) : node[e].kids[g] # q
      BY <1>1, <3>1, <3>2
    <3> QED BY <3>3 DEF e
  <2> QED BY <1>c, <2>2, <2>4, <2>5 DEF Read
<1>4. ASSUME NEW x \in in, \A l \in 1..L : dirs[l] # x
      PROVE  Complete(k, now, k[x])
  BY <1>c, <1>4 DEF Finished, Complete
<1> QED BY <1>2, <1>3, <1>4 DEF Stays

(***************************************************************************)
(* The turns of the loop for an image of the tree.  Taken: s is r with one *)
(* more node, n for q, in its innermost directory.                         *)
(***************************************************************************)
AtEntry(r, m, b, o, i, q) == NextIs(m, r.in, r.dirs, o, i, q) /\ r.pos = At(b, o, i)

Taken(r, s, n, q) == Joins(r.in, s.in, n) /\ Grown(r.tab, s.tab, n, Last(r.dirs), q)

LEMMA EntryIs ==
    ASSUME Tree(node, live), NEW r \in Walks, NEW b, NEW m, Matches(m, r.tab, r.in),
           NEW o, NEW i, NEW q, AtEntry(r, m, b, o, i, q)
    PROVE  /\ o \in live /\ o = m[Last(r.dirs)] /\ i \in Nat /\ i \in 0..Len(node[o].kids)
           /\ i + 1 \in 1..Len(node[o].kids) /\ i + 1 \in 0..Len(node[o].kids) /\ q = node[o].kids[i + 1]
           /\ q \in live \ {Root} /\ q \in Nodes /\ node[q].parent = o
           /\ Read(m, r.in, o, i) /\ ~Has(m, r.in, q)
<1>0. Last(r.dirs) \in r.in /\ Last(r.dirs) = r.dirs[Len(r.dirs)] /\ live \subseteq Nodes /\ Typed(node)
  BY WalkTypes DEF Tree
<1>1. /\ o = m[Last(r.dirs)] /\ i \in 0..Len(node[o].kids) /\ i + 1 \in 1..Len(node[o].kids)
      /\ Read(m, r.in, o, i) /\ q = node[o].kids[i + 1]
  BY <1>0 DEF AtEntry, NextIs
<1>2. o \in live
  BY <1>0, <1>1 DEF Matches
<1>3. Len(node[o].kids) \in Nat
  BY <1>0, <1>2, FieldTypes
<1>4. i \in Nat /\ i + 1 \in 0..Len(node[o].kids) /\ ~(i + 1 <= i)
  BY <1>1, <1>3
<1>5. q \in live \ {Root} /\ node[q].parent = o
  BY <1>1, <1>2, RootIsNoChild
<1>6. ~Has(m, r.in, q)
  BY <1>1, <1>4 DEF Read
<1> QED BY <1>0, <1>1, <1>2, <1>4, <1>5, <1>6

LEMMA EntryTaken ==
    ASSUME Tree(node, live), NEW b, NEW r \in Walks, NEW s, NEW m, Matches(m, r.tab, r.in),
           Chain(r.dirs, r.tab), Waiting(m, r.in, r.dirs), Finished(m, r.in, r.dirs),
           NEW o, NEW i, NEW q, AtEntry(r, m, b, o, i, q), NEW n, Taken(r, s, n, q)
    PROVE  \E k : /\ Matches(k, s.tab, s.in) /\ Extends(m, k, r.in, s.in, n, q)
                  /\ Read(k, s.in, o, i + 1) /\ Waiting(k, s.in, r.dirs) /\ Stays(k, s.in, r.in, r.dirs)
<1>0. /\ Tree(r.tab, r.in) /\ Last(r.dirs) \in r.in /\ r.dirs \in Seq(Nodes) /\ Len(r.dirs) \in Nat \ {0}
      /\ \A l \in 1..Len(r.dirs) : r.dirs[l] \in r.in
  BY WalkTypes
<1>1. q \in live \ {Root} /\ node[q].parent = m[Last(r.dirs)] /\ ~Has(m, r.in, q)
  BY EntryIs
<1>2. Joins(r.in, s.in, n) /\ Grown(r.tab, s.tab, n, Last(r.dirs), q)
  BY DEF Taken
<1>3. PICK k : Matches(k, s.tab, s.in) /\ Extends(m, k, r.in, s.in, n, q)
  BY <1>0, <1>1, <1>2, MatchesMore
<1>4. NextIs(m, r.in, r.dirs, o, i, q) /\ Within(r.dirs, r.in)
  BY <1>0 DEF AtEntry, Within
<1>5. Read(k, s.in, o, i + 1) /\ Waiting(k, s.in, r.dirs) /\ Stays(k, s.in, r.in, r.dirs)
  BY <1>0, <1>3, <1>4, OneMore
<1> QED BY <1>3, <1>5

LEMMA ChainKept ==
    ASSUME NEW r \in Walks, NEW tab, NEW n \in Nodes \ r.in, NEW q, NEW d,
           Chain(r.dirs, r.tab), Grown(r.tab, tab, n, d, q)
    PROVE  Chain(r.dirs, tab)
<1>0. Len(r.dirs) \in Nat /\ r.in \subseteq Nodes /\ \A l \in 1..Len(r.dirs) : r.dirs[l] \in r.in
  BY WalkTypes
<1>1. \A l \in 1..(Len(r.dirs) - 1) : tab[r.dirs[l + 1]].parent = r.tab[r.dirs[l + 1]].parent
  <2> TAKE l \in 1..(Len(r.dirs) - 1)
  <2>1. l + 1 \in 1..Len(r.dirs)
    BY <1>0
  <2>2. r.dirs[l + 1] \in Nodes \ {n}
    BY <1>0, <2>1
  <2> QED BY <2>2 DEF Grown
<1> QED BY <1>1 DEF Chain

LEMMA TakesFile ==
    ASSUME Tree(node, live), NEW b, NEW total, NEW r \in Walks, NEW s \in Walks, NEW m, Sim(r, m, b, total),
           NEW o, NEW i, NEW q, AtEntry(r, m, b, o, i, q), node[q].type = NODE_FILE,
           NEW n, Taken(r, s, n, q),
           s.dirs = r.dirs, s.pos = At(b, o, i + 1), s.pos <= total
    PROVE  \E k : Sim(s, k, b, total)
<1>1. /\ Matches(m, r.tab, r.in) /\ Chain(r.dirs, r.tab)
      /\ Waiting(m, r.in, r.dirs) /\ Finished(m, r.in, r.dirs)
  BY DEF Sim
<1>2. PICK k : /\ Matches(k, s.tab, s.in) /\ Extends(m, k, r.in, s.in, n, q)
               /\ Read(k, s.in, o, i + 1) /\ Waiting(k, s.in, r.dirs) /\ Stays(k, s.in, r.in, r.dirs)
  BY <1>1, EntryTaken
<1>3. n \in Nodes \ r.in /\ s.in = r.in \cup {n} /\ Grown(r.tab, s.tab, n, Last(r.dirs), q)
  BY DEF Taken, Joins
<1>4. Complete(k, s.in, q)
  <2>1. q \in live
    BY <1>1, EntryIs
  <2>2. \A j \in 1..Len(node[q].kids) : node[q].type = NODE_DIR
    BY <2>1, RootIsNoChild
  <2> QED BY <2>2, NodeFacts DEF Complete
<1>5. Finished(k, s.in, s.dirs)
  BY <1>2, <1>3, <1>4 DEF Finished, Stays, Extends
<1>6. Chain(s.dirs, s.tab)
  BY <1>1, <1>3, ChainKept
<1>7. Current(k, s.in, b, k[Last(s.dirs)], s.pos)
  <2>1. o = m[Last(r.dirs)] /\ i + 1 \in 0..Len(node[o].kids)
    BY <1>1, EntryIs
  <2>2. k[Last(s.dirs)] = o
    BY <1>2, <2>1, WalkTypes DEF Extends
  <2> QED BY <1>2, <2>1, <2>2 DEF Current
<1>8. Sim(s, k, b, total)
  BY <1>2, <1>5, <1>6, <1>7 DEF Sim
<1> QED BY <1>8

LEMMA TakesDir ==
    ASSUME Tree(node, live), NEW b, Spots(b), NEW total, NEW r \in Walks, NEW s \in Walks, NEW m,
           Sim(r, m, b, total), NEW o, NEW i, NEW q, AtEntry(r, m, b, o, i, q),
           NEW n, Taken(r, s, n, q), Len(s.dirs) = Len(r.dirs) + 1, s.dirs[Len(r.dirs) + 1] = n,
           \A l \in 1..Len(r.dirs) : s.dirs[l] = r.dirs[l], s.pos = b[q] + 2, s.pos <= total
    PROVE  \E k : Sim(s, k, b, total)
<1> DEFINE L == Len(r.dirs)
<1>0. /\ Tree(r.tab, r.in) /\ L \in Nat \ {0} /\ Last(r.dirs) = r.dirs[L] /\ Last(s.dirs) = n
      /\ \A l \in 1..L : r.dirs[l] \in r.in
  <2>1. Last(s.dirs) = s.dirs[Len(s.dirs)]
    BY WalkTypes
  <2> QED BY <2>1, WalkTypes
<1>1. /\ Matches(m, r.tab, r.in) /\ Chain(r.dirs, r.tab)
      /\ Waiting(m, r.in, r.dirs) /\ Finished(m, r.in, r.dirs)
  BY DEF Sim
<1>2. PICK k : /\ Matches(k, s.tab, s.in) /\ Extends(m, k, r.in, s.in, n, q)
               /\ Read(k, s.in, o, i + 1) /\ Waiting(k, s.in, r.dirs) /\ Stays(k, s.in, r.in, r.dirs)
  BY <1>1, EntryTaken
<1>3. n \in Nodes \ r.in /\ s.in = r.in \cup {n} /\ Grown(r.tab, s.tab, n, Last(r.dirs), q)
  BY DEF Taken, Joins
<1>4. /\ o \in live /\ o = m[Last(r.dirs)] /\ i + 1 \in 1..Len(node[o].kids) /\ q = node[o].kids[i + 1]
      /\ q \in live \ {Root} /\ ~Has(m, r.in, q)
  BY <1>1, EntryIs
<1> HIDE DEF L
<1>5. k[n] = q /\ \A x \in r.in : k[x] = m[x]
  BY <1>2 DEF Extends
<1>6. \A l \in 1..L : l \in 1..Len(s.dirs) /\ s.dirs[l] = r.dirs[l]
  <2>1. \A l \in 1..L : l \in 1..(L + 1)
    BY <1>0
  <2> QED BY <2>1 DEF L
<1>7. \A l \in 1..Len(s.dirs) : l \in 1..L \/ l = L + 1
  <2>1. \A l \in 1..(L + 1) : l \in 1..L \/ l = L + 1
    BY <1>0
  <2> QED BY <2>1 DEF L
<1>8. L + 1 \in 1..Len(s.dirs) /\ s.dirs[L + 1] = n /\ Len(s.dirs) - 1 = L /\ L + 1 \notin 1..L
  <2>1. L + 1 \in 1..(L + 1) /\ (L + 1) - 1 = L /\ L + 1 \notin 1..L
    BY <1>0
  <2> QED BY <2>1 DEF L
<1>9. \A l \in 1..L : l = L \/ (l \in 1..(L - 1) /\ l + 1 \in 1..L)
  BY <1>0
<1>10. Chain(s.dirs, s.tab)
  <2>1. Chain(r.dirs, s.tab)
    BY <1>1, <1>3, ChainKept
  <2>2. s.dirs[1] = Root
    <3>1. 1 \in 1..L
      BY <1>0
    <3> QED BY <1>6, <2>1, <3>1 DEF Chain
  <2>3. ASSUME NEW l \in 1..(Len(s.dirs) - 1) PROVE s.tab[s.dirs[l + 1]].parent = s.dirs[l]
    <3>1. l \in 1..L
      BY <1>8
    <3>2. CASE l = L
      <4>1. s.dirs[l + 1] = n /\ s.dirs[l] = r.dirs[L]
        BY <1>6, <1>8, <3>1, <3>2
      <4>2. s.tab[n].parent = r.dirs[L]
        BY <1>0, <1>3 DEF Grown
      <4> QED BY <4>1, <4>2
    <3>3. CASE l \in 1..(L - 1) /\ l + 1 \in 1..L
      <4>1. s.dirs[l + 1] = r.dirs[l + 1] /\ s.dirs[l] = r.dirs[l]
        BY <1>6, <3>1, <3>3
      <4>2. s.tab[r.dirs[l + 1]].parent = r.dirs[l]
        BY <2>1, <3>3 DEF Chain, L
      <4> QED BY <4>1, <4>2
    <3> QED BY <1>9, <3>1, <3>2, <3>3
  <2>4. ASSUME NEW g \in 1..Len(s.dirs), NEW l \in 1..Len(s.dirs), s.dirs[g] = s.dirs[l] PROVE g = l
    <3>1. \A x \in 1..L : s.dirs[x] # n /\ s.dirs[x] = r.dirs[x]
      BY <1>0, <1>3, <1>6
    <3>2. \A x, y \in 1..L : r.dirs[x] = r.dirs[y] => x = y
      BY <1>1 DEF Chain, L
    <3>3. CASE g \in 1..L /\ l \in 1..L
      BY <2>4, <3>1, <3>2, <3>3
    <3>4. CASE g = L + 1 \/ l = L + 1
      BY <1>7, <1>8, <2>4, <3>1, <3>4
    <3> QED BY <1>7, <3>3, <3>4
  <2> QED BY <2>2, <2>3, <2>4 DEF Chain
<1>11. Waiting(k, s.in, s.dirs)
  <2> SUFFICES ASSUME NEW l \in 1..L, NEW j \in 1..Len(node[k[s.dirs[l]]].kids),
                      node[k[s.dirs[l]]].kids[j] = k[s.dirs[l + 1]]
               PROVE  Read(k, s.in, k[s.dirs[l]], j)
    BY <1>8 DEF Waiting
  <2>1. CASE l = L
    <3>1. k[s.dirs[l]] = o /\ k[s.dirs[l + 1]] = q
      <4>1. L \in 1..L
        BY <1>0
      <4>2. s.dirs[L] = r.dirs[L] /\ r.dirs[L] \in r.in
        BY <1>0, <1>6, <4>1
      <4>3. k[r.dirs[L]] = o
        BY <1>0, <1>4, <1>5, <4>2
      <4>4. k[s.dirs[L]] = o /\ k[s.dirs[L + 1]] = q
        BY <1>5, <1>8, <4>2, <4>3
      <4> QED BY <2>1, <4>4
    <3>2. j = i + 1
      BY <1>4, <3>1, KidsDiffer
    <3> QED BY <1>2, <3>1, <3>2
  <2>2. CASE l \in 1..(L - 1) /\ l + 1 \in 1..L
    <3>1. s.dirs[l + 1] = r.dirs[l + 1] /\ s.dirs[l] = r.dirs[l]
      BY <1>6, <2>2
    <3> QED BY <1>2, <2>2, <3>1 DEF Waiting, L
  <2> QED BY <1>9, <2>1, <2>2
<1>12. Finished(k, s.in, s.dirs)
  <2> SUFFICES ASSUME NEW x \in s.in, \A l \in 1..Len(s.dirs) : s.dirs[l] # x
               PROVE  Complete(k, s.in, k[x])
    BY DEF Finished
  <2>1. x # n
    BY <1>8
  <2>2. x \in r.in /\ \A l \in 1..L : r.dirs[l] # x
    BY <1>3, <1>6, <2>1
  <2> QED BY <1>2, <2>2 DEF Stays, L
<1>13. Current(k, s.in, b, k[Last(s.dirs)], s.pos)
  <2>1. Read(k, s.in, q, 0)
    BY <1>0, <1>1, <1>2, <1>4, NoneYet
  <2>2. s.pos = At(b, q, 0)
    <3>1. Spread(b, q)
      BY <1>4, SpreadIs
    <3> QED BY <3>1 DEF Spread
  <2>3. 0 \in 0..Len(node[q].kids)
    <3>1. Len(node[q].kids) \in Nat
      BY <1>4, FieldTypes DEF Tree
    <3> QED BY <3>1
  <2>4. k[Last(s.dirs)] = q
    BY <1>0, <1>5
  <2> QED BY <2>1, <2>2, <2>3, <2>4 DEF Current
<1>14. Sim(s, k, b, total)
  BY <1>2, <1>10, <1>11, <1>12, <1>13 DEF Sim
<1> QED BY <1>14

(***************************************************************************)
(* Moved: the turn has gone on in the image.                               *)
(***************************************************************************)
Moved(r, s, b, total) == s.on /\ s.pos > r.pos /\ \E k : Sim(s, k, b, total)

LEMMA ImageFacts ==
    ASSUME Tree(node, live), NEW img, NEW total, Agrees(img, total)
    PROVE  /\ total \in Nat /\ total >= 2 /\ total <= BlobUnits /\ BlobUnits \in Nat /\ img \in Images
           /\ total \in Totals
<1>1. Len(Body(Root)) \in Nat /\ Len(Serialized) = 2 + Len(Body(Root))
  BY SerializedIs, BodyIs DEF Tree
<1>2. total = Len(Serialized) /\ total <= BlobUnits /\ img \in Images
  BY DEF Agrees
<1>3. BlobUnits \in Nat
  BY PersistAssumption DEF PersistAssumption
<1> QED BY <1>1, <1>2, <1>3 DEF Totals

LEMMA ReadsFile ==
    ASSUME Tree(node, live), NEW b, Spots(b), NEW img, NEW total, Agrees(img, total),
           NEW r \in Walks, r.on, NEW m, Sim(r, m, b, total),
           NEW o, NEW i, NEW q, AtEntry(r, m, b, o, i, q), node[q].type = NODE_FILE,
           CanBuild(r, node[q].name)
    PROVE  Moved(r, DeserStep(r, img, total), b, total)
<1>1. Matches(m, r.tab, r.in)
  BY DEF Sim
<1>2. /\ o \in live /\ o = m[Last(r.dirs)] /\ i + 1 \in 1..Len(node[o].kids) /\ i \in Nat
      /\ q \in live \ {Root} /\ q \in Nodes /\ ~Has(m, r.in, q) /\ q = node[o].kids[i + 1]
  BY <1>1, EntryIs
<1>4. PICK z \in Nat : z = node[q].size
  BY <1>2, FieldTypes DEF Tree
<1>5. PICK name \in Stems : name = node[q].name
  BY <1>2, FieldTypes DEF Tree
<1>3. CanBuild(r, name) /\ Cut(name) = name
  BY <1>5, StemIs
<1>6. r.pos = At(b, o, i) /\ r.pos \in Nat
  BY WalkTypes DEF AtEntry
<1>7. r.pos = b[q] /\ At(b, o, i + 1) = b[q] + Len(SerNode[q])
  <2>1. Spread(b, o)
    BY <1>2, SpreadIs
  <2>2. (i + 1) - 1 = i
    BY <1>2, StepBack, Zenon
  <2>3. /\ b[node[o].kids[i + 1]] = At(b, o, (i + 1) - 1)
        /\ At(b, o, i + 1) = b[node[o].kids[i + 1]] + Len(SerNode[node[o].kids[i + 1]])
    BY <1>2, <2>1, Zenon DEF Spread
  <2> QED BY <1>2, <1>6, <2>2, <2>3, Zenon
<1>8. FileAt(b, img, total, q)
  BY <1>2, FileAtIs
<1>9. /\ Len(SerNode[q]) = 3 + z /\ r.pos + 3 + z <= total
      /\ img[r.pos + 1] = NODE_FILE /\ img[r.pos + 2] = name /\ img[r.pos + 3] = z
      /\ \A j \in 1..z : img[r.pos + 3 + j] = node[q].data[j]
  BY <1>4, <1>5, <1>7, <1>8 DEF FileAt
<1>10. total \in Nat /\ total <= BlobUnits /\ BlobUnits \in Nat /\ img \in Images
  BY ImageFacts
<1>11. /\ ~(r.pos + 2 > total) /\ ~(r.pos + 3 > total) /\ ~(r.pos + 3 + z > total)
       /\ r.pos + 3 + z <= BlobUnits /\ r.pos + 3 + z > r.pos /\ r.pos + 3 + z = r.pos + (3 + z)
  <2>1. r.pos \in Nat /\ r.pos + 3 + z <= total
    BY <1>6, <1>9
  <2> QED BY <1>10, <2>1
<1>12. DeserStep(r, img, total) = Made(r, img, name, z)
  BY <1>3, <1>5, <1>9, <1>11, TurnIs
<1>13. IsMade(r, Made(r, img, name, z), img, name, z)
  BY <1>3, <1>5, <1>10, <1>11, MadeIs
<1>14. PICK s : s = DeserStep(r, img, total) /\ IsMade(r, s, img, name, z)
  BY <1>12, <1>13
<1>15. PICK n : n = NewOf(r)
  OBVIOUS
<1>16. /\ s \in Walks /\ n \in Nodes \ r.in /\ s.in = r.in \cup {n}
       /\ s.pos = r.pos + 3 + z /\ s.on = r.on /\ s.dirs = r.dirs
       /\ s.tab[n].name = name /\ s.tab[n].type = NODE_FILE /\ s.tab[n].parent = Last(r.dirs)
       /\ s.tab[n].size = z
       /\ \A j \in 1..z : s.tab[n].data[j] = img[r.pos + 3 + j]
       /\ \A x \in Nodes \ {n} : /\ s.tab[x].name = r.tab[x].name /\ s.tab[x].type = r.tab[x].type
                                 /\ s.tab[x].parent = r.tab[x].parent
                                 /\ s.tab[x].data = r.tab[x].data /\ s.tab[x].size = r.tab[x].size
  BY <1>14, <1>15, Zenon DEF IsMade
<1>17. Alike(s.tab[n], node[q])
  BY <1>4, <1>9, <1>16 DEF Alike
<1>18. Taken(r, s, n, q)
  BY <1>5, <1>16, <1>17 DEF Taken, Joins, Grown
<1>19. s.pos = At(b, o, i + 1) /\ s.pos <= total /\ s.on /\ s.pos > r.pos
  BY <1>7, <1>9, <1>11, <1>16
<1>20. \E k : Sim(s, k, b, total)
  BY <1>16, <1>18, <1>19, TakesFile
<1> QED BY <1>14, <1>19, <1>20 DEF Moved

LEMMA ReadsDir ==
    ASSUME Tree(node, live), NEW b, Spots(b), NEW img, NEW total, Agrees(img, total),
           NEW r \in Walks, r.on, NEW m, Sim(r, m, b, total),
           NEW o, NEW i, NEW q, AtEntry(r, m, b, o, i, q), node[q].type = NODE_DIR,
           CanBuild(r, node[q].name)
    PROVE  Moved(r, DeserStep(r, img, total), b, total)
<1>1. Matches(m, r.tab, r.in)
  BY DEF Sim
<1>2. /\ o \in live /\ o = m[Last(r.dirs)] /\ i + 1 \in 1..Len(node[o].kids) /\ i \in Nat
      /\ q \in live \ {Root} /\ q \in Nodes /\ ~Has(m, r.in, q) /\ q = node[o].kids[i + 1]
  BY <1>1, EntryIs
<1>5. PICK name \in Stems : name = node[q].name
  BY <1>2, FieldTypes DEF Tree
<1>3. CanBuild(r, name) /\ Cut(name) = name
  BY <1>5, StemIs
<1>6. r.pos = At(b, o, i) /\ r.pos \in Nat
  BY WalkTypes DEF AtEntry
<1>7. r.pos = b[q]
  <2>1. Spread(b, o)
    BY <1>2, SpreadIs
  <2>2. (i + 1) - 1 = i
    BY <1>2, StepBack, Zenon
  <2>3. b[node[o].kids[i + 1]] = At(b, o, (i + 1) - 1)
    BY <1>2, <2>1, Zenon DEF Spread
  <2> QED BY <1>2, <1>6, <2>2, <2>3, Zenon
<1>8. DirAt(b, img, total, q)
  BY <1>2, DirAtIs
<1>9. r.pos + 2 <= total /\ img[r.pos + 1] = NODE_DIR /\ img[r.pos + 2] = name
  BY <1>5, <1>7, <1>8 DEF DirAt
<1>10. total \in Nat
  BY ImageFacts
<1>11. ~(r.pos + 2 > total) /\ r.pos + 2 > r.pos
  <2>1. r.pos \in Nat /\ r.pos + 2 <= total
    BY <1>6, <1>9
  <2> QED BY <1>10, <2>1
<1>12. DeserStep(r, img, total) = Opened(r, name)
  BY <1>3, <1>5, <1>9, <1>11, TurnIs
<1>13. PICK s : s = Opened(r, name)
  OBVIOUS
<1>14. PICK n : n = NewOf(r)
  OBVIOUS
<1>15. /\ s \in Walks /\ n \in Nodes \ r.in /\ s.in = r.in \cup {n}
       /\ IsCreated(r.tab, s.tab, n, NODE_DIR, name, Last(r.dirs))
       /\ s.pos = r.pos + 2 /\ s.on = r.on /\ Len(s.dirs) = Len(r.dirs) + 1
       /\ s.dirs[Len(r.dirs) + 1] = n /\ \A l \in 1..Len(r.dirs) : s.dirs[l] = r.dirs[l]
  BY <1>3, <1>5, <1>13, <1>14, OpenedIs
<1>16. /\ s.tab[n].name = name /\ s.tab[n].type = NODE_DIR /\ s.tab[n].parent = Last(r.dirs)
       /\ s.tab[n].size = 0
       /\ \A x \in Nodes \ {n} : /\ s.tab[x].name = r.tab[x].name /\ s.tab[x].type = r.tab[x].type
                                 /\ s.tab[x].parent = r.tab[x].parent
                                 /\ s.tab[x].data = r.tab[x].data /\ s.tab[x].size = r.tab[x].size
  BY <1>15, Zenon DEF IsCreated
<1>17. Alike(s.tab[n], node[q])
  <2>1. node[q].size = 0
    BY <1>2, FieldTypes DEF Tree
  <2> QED BY <1>16, <2>1 DEF Alike
<1>18. Taken(r, s, n, q)
  BY <1>5, <1>15, <1>16, <1>17 DEF Taken, Joins, Grown
<1>19. s.pos = b[q] + 2 /\ s.pos <= total /\ s.on /\ s.pos > r.pos
  BY <1>7, <1>9, <1>11, <1>15
<1>20. \E k : Sim(s, k, b, total)
  BY <1>15, <1>18, <1>19, TakesDir
<1> QED BY <1>12, <1>13, <1>19, <1>20 DEF Moved

(***************************************************************************)
(* The reader stops at an entry whose name is there already.               *)
(***************************************************************************)
LEMMA Refused ==
    ASSUME Tree(node, live), NEW b, Spots(b), NEW img, NEW total, Agrees(img, total),
           NEW r \in Walks, r.on, NEW m, Sim(r, m, b, total),
           NEW o, NEW i, NEW q, AtEntry(r, m, b, o, i, q), ~CanBuild(r, node[q].name)
    PROVE  DeserStep(r, img, total) = Stop(r) /\ Matches(m, r.tab, r.in) /\ ~Distinct(node, live)
<1>1. Matches(m, r.tab, r.in)
  BY DEF Sim
<1>2. /\ o \in live /\ o = m[Last(r.dirs)] /\ i + 1 \in 1..Len(node[o].kids) /\ i \in Nat
      /\ q \in live \ {Root} /\ q \in Nodes /\ ~Has(m, r.in, q) /\ q = node[o].kids[i + 1]
  BY <1>1, EntryIs
<1>3. ~Distinct(node, live)
  BY <1>1, <1>2, MayBuild
<1>4. PICK name \in Stems : name = node[q].name
  BY <1>2, FieldTypes DEF Tree
<1>5. ~CanBuild(r, name) /\ Cut(name) = name
  BY <1>4, StemIs
<1>6. r.pos = b[q] /\ r.pos \in Nat
  <2>1. Spread(b, o)
    BY <1>2, SpreadIs
  <2>2. (i + 1) - 1 = i
    BY <1>2
  <2>3. r.pos = At(b, o, i) /\ r.pos \in Nat
    BY WalkTypes DEF AtEntry
  <2> QED BY <1>2, <2>1, <2>2, <2>3 DEF Spread
<1>7. total \in Nat
  BY ImageFacts
<1>8. node[q].type = NODE_FILE \/ node[q].type = NODE_DIR
  <2>1. node[q].type \in Types
    BY <1>2, FieldTypes DEF Tree
  <2> QED BY <2>1 DEF Types
<1>9. CASE node[q].type = NODE_FILE
  <2>1. node[q].size \in Nat
    BY <1>2, FieldTypes DEF Tree
  <2>2. FileAt(b, img, total, q)
    BY <1>2, <1>9, FileAtIs
  <2>3. img[r.pos + 1] = NODE_FILE /\ img[r.pos + 2] = name /\ ~(r.pos + 2 > total)
    BY <1>4, <1>6, <1>7, <2>1, <2>2 DEF FileAt
  <2>4. DeserStep(r, img, total) = Stop(r)
    BY <1>5, <2>3, TurnIs
  <2> QED BY <1>1, <1>3, <2>4
<1>10. CASE node[q].type = NODE_DIR
  <2>1. DirAt(b, img, total, q)
    BY <1>2, <1>10, DirAtIs
  <2>2. img[r.pos + 1] = NODE_DIR /\ img[r.pos + 2] = name /\ r.pos + 2 <= total
    BY <1>4, <1>6, <2>1 DEF DirAt
  <2>3. ~(r.pos + 2 > total)
    BY <1>6, <1>7, <2>2
  <2>4. DeserStep(r, img, total) = Stop(r)
    BY <1>5, <2>2, <2>3, TurnIs
  <2> QED BY <1>1, <1>3, <2>4
<1> QED BY <1>8, <1>9, <1>10

(***************************************************************************)
(* The end mark of a directory, and the end of the image.                  *)
(***************************************************************************)
AtEnd(r, m, b, o) ==
    /\ o = m[Last(r.dirs)]
    /\ r.pos = At(b, o, Len(node[o].kids)) /\ Read(m, r.in, o, Len(node[o].kids))

LEMMA EndRead ==
    ASSUME Typed(node), NEW o \in Nodes, NEW m, NEW in, Read(m, in, o, Len(node[o].kids))
    PROVE  Complete(m, in, o)
<1>1. \A j \in 1..Len(node[o].kids) : j <= Len(node[o].kids)
  BY FieldTypes
<1> QED BY <1>1 DEF Read, Complete

LEMMA TakesEnd ==
    ASSUME Tree(node, live), NEW b, Spots(b), NEW total, NEW r \in Walks, NEW s \in Walks, NEW m,
           Sim(r, m, b, total), NEW o, AtEnd(r, m, b, o), Len(r.dirs) > 1,
           s.tab = r.tab, s.in = r.in, Len(s.dirs) = Len(r.dirs) - 1,
           \A l \in 1..(Len(r.dirs) - 1) : s.dirs[l] = r.dirs[l],
           s.pos = b[o] + Len(SerNode[o]), s.pos <= total
    PROVE  Sim(s, m, b, total)
<1> DEFINE L == Len(r.dirs)
<1>0. /\ Tree(r.tab, r.in) /\ L \in Nat /\ L > 1 /\ Last(r.dirs) = r.dirs[L] /\ Last(s.dirs) = s.dirs[L - 1]
      /\ \A l \in 1..L : r.dirs[l] \in r.in
  <2>1. Last(s.dirs) = s.dirs[Len(s.dirs)]
    BY WalkTypes
  <2> QED BY <2>1, WalkTypes
<1>1. /\ Matches(m, r.tab, r.in) /\ Chain(r.dirs, r.tab)
      /\ Waiting(m, r.in, r.dirs) /\ Finished(m, r.in, r.dirs)
  BY DEF Sim
<1>2. o = m[r.dirs[L]] /\ Read(m, r.in, o, Len(node[o].kids))
  BY <1>0 DEF AtEnd
<1> HIDE DEF L
<1>3. Len(s.dirs) = L - 1 /\ \A l \in 1..(L - 1) : s.dirs[l] = r.dirs[l]
  BY DEF L
<1>4. L \in 1..L /\ L - 1 \in 1..L /\ L - 1 \in 1..(L - 1) /\ (L - 1) + 1 = L /\ 1 \in 1..(L - 1) /\ L # 1 /\ 1 \in 1..L
  BY <1>0
<1>5. /\ \A l \in 1..(L - 1) : l \in 1..L
      /\ \A l \in 1..((L - 1) - 1) : l \in 1..(L - 1) /\ l + 1 \in 1..(L - 1)
      /\ \A l \in 1..L : l \in 1..(L - 1) \/ l = L
  BY <1>0
<1> DEFINE up == r.dirs[L - 1]
           e == m[up]
<1>6. r.dirs[L] \in r.in \ {Root} /\ r.tab[r.dirs[L]].parent = up /\ up \in r.in
  <2>1. r.dirs[1] = Root /\ r.dirs[L] # r.dirs[1]
    BY <1>1, <1>4 DEF Chain, L
  <2>2. r.tab[r.dirs[(L - 1) + 1]].parent = r.dirs[L - 1]
    BY <1>1, <1>4 DEF Chain, L
  <2> QED BY <1>0, <1>4, <2>1, <2>2
<1> HIDE DEF up
<1>7. o \in live \ {Root} /\ node[o].parent = e /\ e \in live
  BY <1>0, <1>1, <1>2, <1>6 DEF Matches, Tree
<1> HIDE DEF e
<1>8. PICK i \in 1..Len(node[e].kids) : node[e].kids[i] = o
  BY <1>7 DEF Tree, Listed
<1>9. Read(m, r.in, e, i)
  <2>1. m[r.dirs[L - 1]] = e /\ m[r.dirs[(L - 1) + 1]] = o
    BY <1>2, <1>4 DEF e, up
  <2> QED BY <1>1, <1>4, <1>8, <2>1 DEF Waiting, L
<1>10. s.pos = At(b, e, i)
  <2>1. Spread(b, e)
    BY <1>7, SpreadIs
  <2> QED BY <1>8, <2>1 DEF Spread
<1>11. Current(m, s.in, b, m[Last(s.dirs)], s.pos)
  <2>1. m[Last(s.dirs)] = e
    BY <1>0, <1>3, <1>4 DEF e, up
  <2>2. i \in 0..Len(node[e].kids)
    <3>1. Len(node[e].kids) \in Nat
      BY <1>7, FieldTypes DEF Tree
    <3> QED BY <3>1
  <2> QED BY <1>9, <1>10, <2>1, <2>2 DEF Current
<1>12. Chain(s.dirs, s.tab)
  <2>1. s.dirs[1] = Root
    BY <1>1, <1>3, <1>4 DEF Chain
  <2>2. \A l \in 1..(Len(s.dirs) - 1) : s.tab[s.dirs[l + 1]].parent = s.dirs[l]
    <3>1. \A l \in 1..((L - 1) - 1) : s.dirs[l + 1] = r.dirs[l + 1] /\ s.dirs[l] = r.dirs[l]
      BY <1>3, <1>5
    <3>2. \A l \in 1..(L - 1) : r.tab[r.dirs[l + 1]].parent = r.dirs[l]
      BY <1>1 DEF Chain, L
    <3> QED BY <1>3, <1>5, <3>1, <3>2
  <2>3. \A x, y \in 1..Len(s.dirs) : s.dirs[x] = s.dirs[y] => x = y
    <3>1. \A x, y \in 1..L : r.dirs[x] = r.dirs[y] => x = y
      BY <1>1 DEF Chain, L
    <3> QED BY <1>3, <1>5, <3>1
  <2> QED BY <2>1, <2>2, <2>3 DEF Chain
<1>13. Waiting(m, s.in, s.dirs)
  <2> SUFFICES ASSUME NEW l \in 1..((L - 1) - 1), NEW j \in 1..Len(node[m[s.dirs[l]]].kids),
                      node[m[s.dirs[l]]].kids[j] = m[s.dirs[l + 1]]
               PROVE  Read(m, r.in, m[s.dirs[l]], j)
    BY <1>3 DEF Waiting
  <2>1. s.dirs[l + 1] = r.dirs[l + 1] /\ s.dirs[l] = r.dirs[l] /\ l \in 1..(L - 1)
    BY <1>3, <1>5
  <2> QED BY <1>1, <2>1 DEF Waiting, L
<1>14. Finished(m, s.in, s.dirs)
  <2> SUFFICES ASSUME NEW x \in r.in, \A l \in 1..(L - 1) : s.dirs[l] # x
               PROVE  Complete(m, r.in, m[x])
    BY <1>3 DEF Finished
  <2>1. CASE x = r.dirs[L]
    <3>1. o \in Nodes /\ Typed(node)
      BY <1>7 DEF Tree
    <3>2. Complete(m, r.in, o)
      BY <1>2, <3>1, EndRead
    <3> QED BY <1>2, <2>1, <3>2
  <2>2. CASE x # r.dirs[L]
    <3>1. \A l \in 1..L : r.dirs[l] # x
      BY <1>3, <1>5, <2>2
    <3> QED BY <1>1, <3>1 DEF Finished, L
  <2> QED BY <2>1, <2>2
<1> QED BY <1>1, <1>11, <1>12, <1>13, <1>14 DEF Sim

LEMMA ReadsEnd ==
    ASSUME Tree(node, live), NEW b, Spots(b), NEW img, NEW total, Agrees(img, total),
           NEW r \in Walks, r.on, NEW m, Sim(r, m, b, total), NEW o, AtEnd(r, m, b, o), Len(r.dirs) # 1
    PROVE  Moved(r, DeserStep(r, img, total), b, total)
<1>1. PICK s : s = Closed(r)
  OBVIOUS
<1>2. /\ s \in Walks /\ s.on = r.on /\ s.pos = r.pos + 2 /\ s.tab = r.tab /\ s.in = r.in
      /\ Len(s.dirs) = Len(r.dirs) - 1 /\ Len(r.dirs) > 1
      /\ \A i \in 1..(Len(r.dirs) - 1) : s.dirs[i] = r.dirs[i]
  BY <1>1, CloseIs
<1>3. o \in live \ {Root} /\ node[o].type = NODE_DIR
  <2>1. /\ Last(r.dirs) \in r.in /\ r.tab[Last(r.dirs)].type = NODE_DIR
        /\ Last(r.dirs) = r.dirs[Len(r.dirs)] /\ Len(r.dirs) \in Nat /\ Root \in r.in
    BY WalkTypes DEF Tree
  <2>2. Matches(m, r.tab, r.in) /\ Chain(r.dirs, r.tab) /\ o = m[Last(r.dirs)]
    BY DEF Sim, AtEnd
  <2>3. Len(r.dirs) \in 1..Len(r.dirs) /\ 1 \in 1..Len(r.dirs)
    BY <1>2, <2>1
  <2>4. Last(r.dirs) # Root
    BY <2>1, <2>2, <2>3 DEF Chain
  <2> QED BY <2>1, <2>2, <2>4 DEF Matches, Alike
<1>4. DirAt(b, img, total, o)
  BY <1>3, DirAtIs
<1>5. r.pos + 2 = b[o] + Len(SerNode[o]) /\ r.pos + 2 <= total /\ img[r.pos + 1] = 255 /\ img[r.pos + 2] = 0
  BY <1>4 DEF DirAt, AtEnd
<1>6. total \in Nat /\ r.pos \in Nat
  BY ImageFacts, WalkTypes
<1>7. ~(r.pos + 2 > total) /\ r.pos + 2 > r.pos
  BY <1>5, <1>6
<1>8. DeserStep(r, img, total) = s
  BY <1>1, <1>5, <1>7, TurnIs
<1>9. Sim(s, m, b, total)
  BY <1>2, <1>5, TakesEnd
<1>10. s.on /\ s.pos > r.pos
  BY <1>2, <1>7
<1> QED BY <1>8, <1>9, <1>10 DEF Moved

(***************************************************************************)
(* The tree that has been read is part of the one that was saved, and all  *)
(* of it if there are no two entries of one name in a directory.           *)
(***************************************************************************)
Equal(m, tab, in) ==
    Matches(m, tab, in) /\ (Distinct(node, live) => \A n \in live : Has(m, in, n))

LEMMA AllRead ==
    ASSUME Tree(node, live), NEW tab, NEW in, Tree(tab, in), NEW m, Matches(m, tab, in),
           \A x \in in : Complete(m, in, m[x])
    PROVE  Equal(m, tab, in)
<1>0. Root \in in /\ m[Root] = Root /\ live \subseteq Nodes
  BY DEF Tree, Matches
<1>1. PICK rank : Ranks(node, live, rank)
  BY DEF Tree
<1>2. \A n \in live : rank[n] \in Nat
  BY <1>0, <1>1 DEF Ranks
<1>3. \A n \in live \ {Root} : node[n].parent \in live /\ rank[n] = rank[node[n].parent] + 1
  BY <1>1 DEF Tree, Listed, Ranks
<1> DEFINE S == {k \in Nat : \A n \in live : rank[n] = k => Has(m, in, n)}
<1>4. Has(m, in, Root)
  BY <1>0 DEF Has
<1>5. 0 \in S
  <2>1. \A n \in live : rank[n] = 0 => n = Root
    BY <1>2, <1>3
  <2> QED BY <1>4, <2>1
<1>6. ASSUME NEW k \in Nat, k \in S PROVE k + 1 \in S
  <2> SUFFICES ASSUME NEW n \in live, rank[n] = k + 1 PROVE Has(m, in, n)
    OBVIOUS
  <2>1. CASE n = Root
    BY <1>4, <2>1
  <2>2. CASE n # Root
    <3>1. node[n].parent \in live /\ rank[node[n].parent] = k
      BY <1>2, <1>3, <2>2
    <3>2. Has(m, in, node[n].parent)
      BY <1>6, <3>1
    <3>3. PICK x \in in : m[x] = node[n].parent
      BY <3>2 DEF Has
    <3>4. PICK i \in 1..Len(node[node[n].parent].kids) : node[node[n].parent].kids[i] = n
      BY <2>2 DEF Tree, Listed
    <3>5. Complete(m, in, node[n].parent)
      BY <3>3
    <3> QED BY <3>4, <3>5 DEF Complete
  <2> QED BY <2>1, <2>2
<1>7. Nat \subseteq S
  <2> HIDE DEF S
  <2> QED BY <1>5, <1>6, SetInduction
<1> QED BY <1>2, <1>7 DEF Equal

LEMMA ReadsLast ==
    ASSUME Tree(node, live), NEW b, Spots(b), NEW img, NEW total, Agrees(img, total),
           NEW r \in Walks, NEW m, Sim(r, m, b, total), NEW o, AtEnd(r, m, b, o), Len(r.dirs) = 1
    PROVE  DeserStep(r, img, total) = Stop(r) /\ Equal(m, r.tab, r.in)
<1>0. /\ Tree(r.tab, r.in) /\ Last(r.dirs) = r.dirs[1] /\ Root \in live /\ Root \in Nodes /\ Typed(node)
      /\ r.pos \in Nat
  BY WalkTypes, NodeFacts DEF Tree
<1>1. Matches(m, r.tab, r.in) /\ r.dirs[1] = Root /\ Finished(m, r.in, r.dirs) /\ m[Root] = Root
  BY DEF Sim, Chain, Matches
<1>2. o = Root /\ r.pos = At(b, o, Len(node[o].kids)) /\ Read(m, r.in, o, Len(node[o].kids))
  BY <1>0, <1>1 DEF AtEnd
<1>3. Complete(m, r.in, Root)
  BY <1>0, <1>2, EndRead
<1>4. \A x \in r.in : Complete(m, r.in, m[x])
  <2>1. \A l \in 1..1 : l = 1
    OBVIOUS
  <2> QED BY <1>1, <1>3, <2>1 DEF Finished
<1>5. Equal(m, r.tab, r.in)
  BY <1>0, <1>1, <1>4, AllRead
<1>6. r.pos = total /\ total \in Nat
  <2>1. /\ Len(Body(Root)) \in Nat /\ Len(Body(Root)) = Offs(Root)[Len(node[Root].kids)]
        /\ Len(Serialized) = 2 + Len(Body(Root)) /\ b[Root] = 0 /\ total = Len(Serialized)
    BY <1>0, BodyIs, SerializedIs DEF Spots, Agrees
  <2>2. r.pos = b[Root] + 2 + Offs(Root)[Len(node[Root].kids)]
    BY <1>2 DEF At
  <2> QED BY <2>1, <2>2
<1>7. r.pos + 2 > total
  BY <1>6
<1>8. DeserStep(r, img, total) = Stop(r)
  BY <1>7, TurnIs
<1> QED BY <1>5, <1>8

LEMMA SimStarts ==
    ASSUME Tree(node, live), NEW b, Spots(b), NEW total \in Nat, total >= 2
    PROVE  \E m : Sim(Start0, m, b, total)
<1> DEFINE m == [x \in {Root} |-> Root]
<1>0. /\ Start0.pos = 2 /\ Start0.dirs = <<Root>> /\ Start0.tab = Empty /\ Start0.in = {Root} /\ Start0 \in Walks
      /\ Root \in live /\ Root \in Nodes /\ Typed(node) /\ b[Root] = 0
  BY WalkStarts, NodeFacts DEF Tree, Spots
<1>1. Len(<<Root>>) = 1 /\ <<Root>>[1] = Root /\ Last(Start0.dirs) = Root /\ \A l \in 1..1 : l = 1
  <2>1. Len(<<Root>>) = 1 /\ <<Root>>[1] = Root /\ \A l \in 1..1 : l = 1
    OBVIOUS
  <2>2. Last(Start0.dirs) = Start0.dirs[Len(Start0.dirs)]
    BY <1>0, WalkTypes
  <2> QED BY <1>0, <2>1, <2>2
<1>2. m[Root] = Root /\ m \in [{Root} -> live]
  BY <1>0
<1> HIDE DEF m
<1>3. Alike(Empty[Root], node[Root])
  <2>1. node[Root].type = NODE_DIR /\ node[Root].size = 0
    BY <1>0, FieldTypes DEF Tree
  <2>2. Empty[Root].type = NODE_DIR /\ Empty[Root].size = 0
    <3>1. Typed(Empty) /\ Empty[Root].type = NODE_DIR
      BY EmptyTree DEF Tree
    <3> QED BY <1>0, <3>1, FieldTypes
  <2> QED BY <2>1, <2>2 DEF Alike
<1>4. Matches(m, Empty, {Root})
  BY <1>2, <1>3 DEF Matches
<1>5. Chain(<<Root>>, Empty)
  BY <1>1 DEF Chain
<1>6. Waiting(m, {Root}, <<Root>>)
  <2>1. \A l \in 1..(1 - 1) : FALSE
    OBVIOUS
  <2> QED BY <1>1, <2>1 DEF Waiting
<1>7. Finished(m, {Root}, <<Root>>)
  <2>1. 1 \in 1..Len(<<Root>>) /\ <<Root>>[1] = Root
    BY <1>1
  <2> QED BY <2>1 DEF Finished
<1>8. Read(m, {Root}, Root, 0)
  <2>1. \A j \in 1..Len(node[Root].kids) : node[Root].kids[j] # Root /\ ~(j <= 0)
    BY <1>0, RootIsNoChild
  <2> QED BY <1>2, <2>1 DEF Read, Has
<1>9. Current(m, {Root}, b, Root, 2)
  <2>1. Spread(b, Root)
    BY <1>0, SpreadIs
  <2>2. 2 = At(b, Root, 0)
    BY <1>0, <2>1 DEF Spread
  <2>3. 0 \in 0..Len(node[Root].kids)
    <3>1. Len(node[Root].kids) \in Nat
      BY <1>0, FieldTypes
    <3> QED BY <3>1
  <2> QED BY <1>8, <2>2, <2>3 DEF Current
<1>10. Sim(Start0, m, b, total)
  BY <1>0, <1>1, <1>2, <1>4, <1>5, <1>6, <1>7, <1>9 DEF Sim
<1> QED BY <1>10

(***************************************************************************)
(* Every turn goes on in the image, or all has been read; and there are    *)
(* turns enough.                                                           *)
(***************************************************************************)
Progress(r, b, total, k) ==
    \/ r.on /\ r.pos >= 2 + k /\ \E m : Sim(r, m, b, total)
    \/ ~r.on /\ \E m : Equal(m, r.tab, r.in)

LEMMA TurnProgress ==
    ASSUME Tree(node, live), NEW b, Spots(b), NEW img, NEW total, Agrees(img, total),
           NEW r \in Walks, NEW k \in Nat, Progress(r, b, total, k)
    PROVE  Progress(DeserStep(r, img, total), b, total, k + 1)
<1>0. total \in Totals /\ img \in Images
  BY ImageFacts
<1>1. PICK s \in Walks : s = DeserStep(r, img, total)
  BY <1>0, TurnStays
<1>2. Stop(r) \in Walks /\ ~Stop(r).on /\ Stop(r).tab = r.tab /\ Stop(r).in = r.in
  BY StopIs DEF Same
<1>3. CASE ~r.on
  <2>1. s = Stop(r)
    BY <1>1, <1>3, TurnIs
  <2>2. \E m : Equal(m, r.tab, r.in)
    BY <1>3 DEF Progress
  <2> QED BY <1>1, <1>2, <2>1, <2>2 DEF Progress
<1>4. CASE r.on
  <2>1. PICK m : Sim(r, m, b, total)
    BY <1>4 DEF Progress
  <2>2. PICK o : o = m[Last(r.dirs)]
    OBVIOUS
  <2>3. /\ Matches(m, r.tab, r.in) /\ Current(m, r.in, b, o, r.pos) /\ Last(r.dirs) \in r.in
        /\ Last(r.dirs) = r.dirs[Len(r.dirs)]
    BY <2>1, <2>2, WalkTypes DEF Sim
  <2>4. o \in live /\ Typed(node) /\ live \subseteq Nodes
    BY <2>2, <2>3 DEF Matches, Tree
  <2>5. PICK i \in 0..Len(node[o].kids) : r.pos = At(b, o, i) /\ Read(m, r.in, o, i)
    BY <2>3 DEF Current
  <2>6. Len(node[o].kids) \in Nat
    BY <2>4, FieldTypes
  <2>7. Moved(r, s, b, total) \/ (s = Stop(r) /\ Equal(m, r.tab, r.in))
    <3>1. CASE i = Len(node[o].kids)
      <4>1. AtEnd(r, m, b, o)
        BY <2>2, <2>5, <3>1 DEF AtEnd
      <4>2. CASE Len(r.dirs) = 1
        BY <1>1, <2>1, <4>1, <4>2, ReadsLast
      <4>3. CASE Len(r.dirs) # 1
        BY <1>1, <1>4, <2>1, <4>1, <4>3, ReadsEnd
      <4> QED BY <4>2, <4>3
    <3>2. CASE i # Len(node[o].kids)
      <4>1. i + 1 \in 1..Len(node[o].kids)
        BY <2>6, <3>2
      <4>2. PICK q : q = node[o].kids[i + 1]
        OBVIOUS
      <4>3. AtEntry(r, m, b, o, i, q)
        BY <2>2, <2>3, <2>5, <4>1, <4>2 DEF AtEntry, NextIs
      <4>4. node[q].type = NODE_FILE \/ node[q].type = NODE_DIR
        <5>1. q \in Nodes
          BY <2>3, <4>3, EntryIs
        <5> QED BY <2>4, <5>1, FieldTypes DEF Types
      <4>5. CASE CanBuild(r, node[q].name) /\ node[q].type = NODE_FILE
        BY <1>1, <1>4, <2>1, <4>3, <4>5, ReadsFile
      <4>6. CASE CanBuild(r, node[q].name) /\ node[q].type = NODE_DIR
        BY <1>1, <1>4, <2>1, <4>3, <4>6, ReadsDir
      <4>7. CASE ~CanBuild(r, node[q].name)
        <5>1. s = Stop(r) /\ Matches(m, r.tab, r.in) /\ ~Distinct(node, live)
          BY <1>1, <1>4, <2>1, <4>3, <4>7, Refused
        <5> QED BY <5>1 DEF Equal
      <4> QED BY <4>4, <4>5, <4>6, <4>7
    <3> QED BY <3>1, <3>2
  <2>8. CASE Moved(r, s, b, total)
    <3>1. r.pos >= 2 + k /\ r.pos \in Nat /\ s.pos \in Nat
      BY <1>4, WalkTypes DEF Progress
    <3>2. s.on /\ s.pos > r.pos /\ \E g : Sim(s, g, b, total)
      BY <2>8 DEF Moved
    <3>3. s.pos >= 2 + (k + 1)
      BY <3>1, <3>2
    <3> QED BY <1>1, <3>2, <3>3 DEF Progress
  <2>9. CASE s = Stop(r) /\ Equal(m, r.tab, r.in)
    BY <1>1, <1>2, <2>9 DEF Progress
  <2> QED BY <2>7, <2>8, <2>9
<1> QED BY <1>3, <1>4

LEMMA ReadsBack ==
    ASSUME Tree(node, live), NEW img, NEW total, Agrees(img, total)
    PROVE  \E m : Equal(m, Deserialized(img, total).tab, Deserialized(img, total).in)
<1>0. total \in Totals /\ img \in Images /\ total \in Nat /\ total >= 2 /\ total <= BlobUnits /\ BlobUnits \in Nat
  BY ImageFacts
<1>1. PICK w : IsWalk(w, img, total) /\ Deserialized(img, total) = w[BlobUnits]
  BY <1>0, WalkIs
<1>2. /\ w[0] = Start0 /\ \A k \in 0..BlobUnits : w[k] \in Walks
      /\ \A k \in 1..BlobUnits : w[k] = DeserStep(w[k - 1], img, total)
  BY <1>1 DEF IsWalk
<1>3. PICK b : Spots(b)
  BY SpotsExist
<1> DEFINE S == {k \in Nat : Progress(w[k], b, total, k)}
<1>4. 0 \in S
  <2>1. \E m : Sim(Start0, m, b, total)
    BY <1>0, <1>3, SimStarts
  <2>2. Start0.on /\ Start0.pos >= 2 + 0
    BY WalkStarts
  <2>3. Progress(Start0, b, total, 0)
    BY <2>1, <2>2 DEF Progress
  <2> QED BY <1>2, <2>3
<1>5. ASSUME NEW k \in 1..BlobUnits, k - 1 \in S PROVE k \in S
  <2>1. k - 1 \in 0..BlobUnits /\ k - 1 \in Nat /\ k \in Nat /\ (k - 1) + 1 = k
    BY <1>0
  <2>2. Progress(w[k - 1], b, total, k - 1) /\ w[k - 1] \in Walks
    BY <1>2, <1>5, <2>1
  <2>3. Progress(DeserStep(w[k - 1], img, total), b, total, (k - 1) + 1)
    BY <1>3, <2>1, <2>2, TurnProgress
  <2> QED BY <1>2, <2>1, <2>3
<1>6. 0..BlobUnits \subseteq S
  <2> HIDE DEF S
  <2> QED BY <1>0, <1>4, <1>5, UpTo
<1>7. BlobUnits \in 0..BlobUnits
  BY <1>0
<1>8. PICK r \in Walks : r = w[BlobUnits]
  BY <1>2, <1>7
<1>9. Progress(r, b, total, BlobUnits) /\ r.pos \in Nat
  BY <1>6, <1>7, <1>8, WalkTypes
<1>10. ~(r.on /\ r.pos >= 2 + BlobUnits /\ \E m : Sim(r, m, b, total))
  <2>1. ASSUME NEW m, Sim(r, m, b, total) PROVE r.pos <= total
    BY <2>1 DEF Sim
  <2>2. ~(r.pos <= total /\ r.pos >= 2 + BlobUnits)
    BY <1>0, <1>9
  <2> QED BY <2>1, <2>2
<1>11. \E m : Equal(m, r.tab, r.in)
  BY <1>9, <1>10 DEF Progress
<1> QED BY <1>1, <1>8, <1>11

-----------------------------------------------------------------------------
(***************************************************************************)
(* Trees that are equal but for addresses and the order of entries are the *)
(* same files to a user.                                                   *)
(***************************************************************************)
PathTable == [Nodes -> Seq(Nat)]

Further(tab, x, p) == IF tab[x].parent = Null THEN << >> ELSE Append(p[tab[x].parent], tab[x].name)

IsPath(tab, path) ==
    /\ \A n : PathOf(tab, n) = path[Cardinality(Nodes)][n]
    /\ \A x \in Nodes : path[0][x] = << >>
    /\ \A k \in 1..Cardinality(Nodes), x \in Nodes : path[k][x] = Further(tab, x, path[k - 1])

LEMMA PathIs == ASSUME NEW tab, Typed(tab) PROVE \E path : IsPath(tab, path)
<1> DEFINE K == Cardinality(Nodes)
           T == PathTable
           a == [x \in Nodes |-> << >>]
           U(p) == [x \in Nodes |-> Further(tab, x, p)]
           h == [k \in 1..K |-> [p \in T |-> U(p)]]
           E(g) == [k \in 0..K |-> [x \in Nodes |->
                      IF k = 0 \/ tab[x].parent = Null THEN << >>
                      ELSE Append(g[k - 1][tab[x].parent], tab[x].name)]]
           path == CHOOSE g : g = E(g)
<1>0. K \in Nat
  BY Count
<1>1. a \in T
  BY DEF PathTable
<1>2. \A p \in T : U(p) \in T
  <2> SUFFICES ASSUME NEW p \in T, NEW x \in Nodes PROVE Further(tab, x, p) \in Seq(Nat)
    BY DEF PathTable
  <2>1. tab[x].parent \in Nodes \cup {Null} /\ tab[x].name \in Nat
    BY FieldTypes
  <2> QED BY <2>1 DEF Further, PathTable
<1>3. h \in [1..K -> [T -> T]]
  <2> HIDE DEF U, T
  <2> QED BY <1>2
<1>4. PICK g : Iterates(g, T, a, h, K)
  <2> HIDE DEF h, T, a, K
  <2> QED BY <1>0, <1>1, <1>3, IterateExists
<1>5. g = E(g)
  <2>0. \A i \in 1..K, x \in T : h[i][x] = U(x)
    OBVIOUS
  <2> HIDE DEF h, T, U, a, K
  <2>1. \A i \in 1..K : g[i - 1] \in T /\ g[i] = h[i][g[i - 1]]
    BY <1>0, <1>4 DEF Iterates
  <2>2. \A i \in 1..K : g[i] = U(g[i - 1])
    BY <2>0, <2>1
  <2>3. g = [i \in 0..K |-> g[i]] /\ g[0] = a
    BY <1>4 DEF Iterates
  <2> DEFINE V(i) == [x \in Nodes |-> IF i = 0 \/ tab[x].parent = Null THEN << >>
                                      ELSE Append(g[i - 1][tab[x].parent], tab[x].name)]
  <2>4. \A i \in 0..K : g[i] = V(i)
    <3>1. V(0) = a
      BY DEF a
    <3>2. \A i \in 1..K : V(i) = U(g[i - 1])
      BY <1>0 DEF U, Further
    <3>3. \A i \in 0..K : i = 0 \/ i \in 1..K
      BY <1>0
    <3> HIDE DEF V
    <3> QED BY <2>2, <2>3, <3>1, <3>2, <3>3
  <2> HIDE DEF V
  <2>5. g = [i \in 0..K |-> V(i)]
    BY <2>3, <2>4
  <2> QED BY <2>5 DEF V
<1>6. path = E(path)
  <2> HIDE DEF E
  <2> QED BY <1>5
<1>7. \A n : PathOf(tab, n) = path[K][n]
  BY DEF PathOf
<1> HIDE DEF path, K
<1>8. path[0] = a /\ \A i \in 1..K : path[i] = U(path[i - 1])
  <2> DEFINE V(i) == [x \in Nodes |-> IF i = 0 \/ tab[x].parent = Null THEN << >>
                                      ELSE Append(path[i - 1][tab[x].parent], tab[x].name)]
  <2>1. path = [i \in 0..K |-> V(i)]
    BY <1>6
  <2>2. V(0) = a /\ \A i \in 1..K : V(i) = U(path[i - 1])
    BY <1>0 DEF Further
  <2> HIDE DEF V, U, a
  <2>3. \A i \in 0..K : path[i] = V(i)
    BY <2>1
  <2>4. 0 \in 0..K /\ \A i \in 1..K : i \in 0..K
    BY <1>0
  <2> QED BY <2>2, <2>3, <2>4
<1>9. \A x \in Nodes : path[0][x] = << >>
  BY <1>8
<1>10. \A k \in 1..K, x \in Nodes : path[k][x] = Further(tab, x, path[k - 1])
  BY <1>8
<1> QED BY <1>7, <1>9, <1>10 DEF K, IsPath

LEMMA PathsEqual ==
    ASSUME Tree(node, live), NEW tab, NEW in, Tree(tab, in), NEW m, Matches(m, tab, in), NEW x \in in
    PROVE  PathOf(tab, x) = PathOf(node, m[x])
<1> DEFINE K == Cardinality(Nodes)
<1>0. /\ K \in Nat /\ Typed(node) /\ Typed(tab) /\ live \subseteq Nodes /\ in \subseteq Nodes
      /\ m \in [in -> live] /\ Root \in in /\ m[Root] = Root
  BY Count DEF Tree, Matches
<1>1. PICK p : IsPath(tab, p)
  BY <1>0, PathIs
<1>2. PICK q : IsPath(node, q)
  BY <1>0, PathIs
<1> DEFINE S == {k \in Nat : \A y \in in : p[k][y] = q[k][m[y]]}
<1>3. 0 \in S
  <2>1. \A y \in in : p[0][y] = << >> /\ q[0][m[y]] = << >>
    BY <1>0, <1>1, <1>2 DEF IsPath
  <2> QED BY <2>1
<1>4. ASSUME NEW k \in 1..K, k - 1 \in S PROVE k \in S
  <2> SUFFICES ASSUME NEW y \in in PROVE p[k][y] = q[k][m[y]]
    BY <1>0
  <2>1. p[k][y] = Further(tab, y, p[k - 1]) /\ q[k][m[y]] = Further(node, m[y], q[k - 1])
    BY <1>0, <1>1, <1>2 DEF IsPath
  <2>2. tab[y].parent = Null <=> y = Root
    BY ParentsAre
  <2>3. node[m[y]].parent = Null <=> m[y] = Root
    BY <1>0, ParentsAre
  <2>4. CASE y = Root
    BY <1>0, <2>1, <2>2, <2>3, <2>4 DEF Further
  <2>5. CASE y # Root
    <3>1. m[y] # Root
      BY <1>0, <2>5 DEF Matches
    <3>2. /\ tab[y].parent \in in /\ node[m[y]].parent = m[tab[y].parent] /\ node[m[y]].name = tab[y].name
      BY <2>5 DEF Matches, Tree, Listed
    <3>3. p[k - 1][tab[y].parent] = q[k - 1][m[tab[y].parent]]
      BY <1>4, <3>2
    <3>4. Further(tab, y, p[k - 1]) = Append(p[k - 1][tab[y].parent], tab[y].name)
      BY <2>2, <2>5 DEF Further
    <3>5. Further(node, m[y], q[k - 1]) = Append(q[k - 1][node[m[y]].parent], node[m[y]].name)
      BY <2>3, <3>1 DEF Further
    <3> QED BY <2>1, <3>2, <3>3, <3>4, <3>5
  <2> QED BY <2>4, <2>5
<1>5. 0..K \subseteq S
  <2> HIDE DEF S
  <2> QED BY <1>0, <1>3, <1>4, UpTo
<1>6. K \in 0..K
  BY <1>0
<1>7. p[K][x] = q[K][m[x]]
  BY <1>5, <1>6
<1> QED BY <1>1, <1>2, <1>7 DEF IsPath

LEMMA ContentsEqual ==
    ASSUME NEW d \in Seq(Nat), NEW e \in Seq(Nat), NEW z \in Nat, z <= Len(d), z <= Len(e),
           \A j \in 1..z : e[j] = d[j]
    PROVE  SubSeq(d, 1, z) = SubSeq(e, 1, z)
<1>1. SubSeq(d, 1, z) = [j \in 1..z |-> d[j]]
  OBVIOUS
<1>2. SubSeq(e, 1, z) = [j \in 1..z |-> e[j]]
  OBVIOUS
<1> QED BY <1>1, <1>2

FileOf(tab, n) ==
    [path |-> PathOf(tab, n), type |-> tab[n].type, content |-> SubSeq(tab[n].data, 1, tab[n].size)]

(***************************************************************************)
(* What there is to restore: the files, and whether all of them can be.    *)
(***************************************************************************)
Whole(tab, in) == [files |-> Files(tab, in), all |-> Distinct(tab, in)]

Kept(found, w) == found \subseteq w.files /\ (w.all => found = w.files)

LEMMA FilesEqual ==
    ASSUME Tree(node, live), NEW tab, NEW in, Tree(tab, in), NEW m, Equal(m, tab, in)
    PROVE  Kept(Files(tab, in), Whole(node, live))
<1>0. /\ Matches(m, tab, in) /\ m \in [in -> live]
      /\ Typed(node) /\ Typed(tab) /\ live \subseteq Nodes /\ in \subseteq Nodes
  BY DEF Equal, Matches, Tree
<1>1. ASSUME NEW x \in in PROVE FileOf(tab, x) = FileOf(node, m[x])
  <2>1. PathOf(tab, x) = PathOf(node, m[x])
    BY <1>0, PathsEqual
  <2>2. Alike(tab[x], node[m[x]])
    BY <1>0 DEF Matches
  <2>3. x \in Nodes /\ m[x] \in Nodes
    BY <1>0
  <2>4. /\ tab[x].data \in Seq(Nat) /\ tab[x].size \in Nat /\ tab[x].size <= Len(tab[x].data)
    BY <1>0, <2>3, FieldTypes
  <2>5. node[m[x]].data \in Seq(Nat) /\ node[m[x]].size <= Len(node[m[x]].data)
    BY <1>0, <2>3, FieldTypes
  <2>6. node[m[x]].size = tab[x].size /\ node[m[x]].type = tab[x].type
        /\ \A j \in 1..tab[x].size : node[m[x]].data[j] = tab[x].data[j]
    BY <2>2 DEF Alike
  <2>7. SubSeq(tab[x].data, 1, tab[x].size) = SubSeq(node[m[x]].data, 1, tab[x].size)
    BY <2>4, <2>5, <2>6, ContentsEqual
  <2> QED BY <2>1, <2>6, <2>7 DEF FileOf
<1>2. Files(tab, in) = {FileOf(tab, x) : x \in in} /\ Files(node, live) = {FileOf(node, n) : n \in live}
  BY DEF Files, FileOf
<1>3. \A x \in in : m[x] \in live
  BY <1>0
<1>4. Files(tab, in) \subseteq Files(node, live)
  BY <1>1, <1>2, <1>3
<1>5. ASSUME Distinct(node, live) PROVE Files(tab, in) = Files(node, live)
  <2>1. \A n \in live : \E x \in in : m[x] = n
    BY <1>5 DEF Equal, Has
  <2> QED BY <1>1, <1>2, <1>3, <2>1
<1>6. Whole(node, live).files = Files(node, live) /\ (Whole(node, live).all <=> Distinct(node, live))
  BY DEF Whole
<1> QED BY <1>4, <1>5, <1>6 DEF Kept

-----------------------------------------------------------------------------
(***************************************************************************)
(* persist_load, as a function of what is on the disk d.                   *)
(***************************************************************************)
Shorter(d) == IF d[2] > BlobUnits THEN BlobUnits ELSE d[2]

Load(d) ==
    IF d[1] # Magic THEN [tab |-> Empty, in |-> {Root}] ELSE Deserialized(d, Shorter(d))

FilesOn(d) == Files(Load(d).tab, Load(d).in)

LEMMA LoadedIs == Loaded = Load(disk)
  BY Zenon DEF Loaded, Load, Shorter, NoImage

LEMMA LoadsTree == ASSUME NEW d \in Images PROVE Tree(Load(d).tab, Load(d).in)
<1>1. CASE d[1] # Magic
  <2>1. Load(d) = [tab |-> Empty, in |-> {Root}]
    BY <1>1 DEF Load
  <2>2. Load(d).tab = Empty /\ Load(d).in = {Root}
    BY <2>1
  <2> QED BY <2>2, EmptyTree
<1>2. CASE d[1] = Magic
  <2>1. Shorter(d) \in Totals
    <3>1. BlobUnits \in Nat /\ 2 \in 1..BlobUnits
      BY PersistAssumption DEF PersistAssumption
    <3>2. d[2] \in Nat
      BY <3>1 DEF Images
    <3> QED BY <3>1, <3>2 DEF Shorter, Totals
  <2>2. PICK w : IsWalk(w, d, Shorter(d)) /\ Deserialized(d, Shorter(d)) = w[BlobUnits]
    BY <2>1, WalkIs
  <2>3. BlobUnits \in 0..BlobUnits
    BY PersistAssumption DEF PersistAssumption
  <2>4. w[BlobUnits] \in Walks
    BY <2>2, <2>3 DEF IsWalk
  <2>5. Load(d) = w[BlobUnits]
    BY <1>2, <2>2 DEF Load
  <2> QED BY <2>4, <2>5, WalkTypes
<1> QED BY <1>1, <1>2

(***************************************************************************)
(* A disk that starts with the image img is read as what w says.           *)
(***************************************************************************)
Begins(d, img, k) == \A x \in 1..Len(img) : x <= k => d[x] = img[x]

Stands(img, w) ==
    /\ img \in Seq(Nat) /\ Len(img) >= 2 /\ Len(img) <= BlobUnits
    /\ \A d \in Images : Begins(d, img, Len(img)) => Kept(FilesOn(d), w)

LEMMA SaveIs ==
    ASSUME Tree(node, live), Len(Serialized) <= BlobUnits
    PROVE  Stands(Serialized, Whole(node, live))
<1> DEFINE N == Len(Serialized)
<1>1. Serialized \in Seq(Nat) /\ N \in Nat /\ N >= 2 /\ Serialized[1] = Magic /\ Serialized[2] = N
  <2>1. Len(Body(Root)) \in Nat
    BY BodyIs DEF Tree
  <2> QED BY <2>1, SerializedIs
<1>2. BlobUnits \in Nat
  BY PersistAssumption DEF PersistAssumption
<1>3. ASSUME NEW d \in Images, Begins(d, Serialized, N) PROVE Kept(FilesOn(d), Whole(node, live))
  <2>1. \A x \in 1..N : d[x] = Serialized[x]
    <3>1. \A x \in 1..N : x <= N
      BY <1>1
    <3> QED BY <1>3, <3>1 DEF Begins
  <2>2. Agrees(d, N)
    BY <2>1 DEF Agrees
  <2>3. 1 \in 1..N /\ 2 \in 1..N /\ ~(N > BlobUnits)
    BY <1>1, <1>2
  <2>4. d[1] = Magic /\ d[2] = N
    BY <1>1, <2>1, <2>3
  <2>5. Load(d) = Deserialized(d, N)
    BY <2>3, <2>4 DEF Load, Shorter
  <2>6. PICK m : Equal(m, Deserialized(d, N).tab, Deserialized(d, N).in)
    BY <2>2, ReadsBack
  <2>7. Tree(Load(d).tab, Load(d).in)
    BY LoadsTree
  <2>8. Kept(Files(Load(d).tab, Load(d).in), Whole(node, live))
    BY <2>5, <2>6, <2>7, FilesEqual
  <2> QED BY <2>8 DEF FilesOn
<1> QED BY <1>1, <1>3 DEF Stands

(***************************************************************************)
(* The sectors of an image.                                                *)
(***************************************************************************)
Sectored(img) == (Len(img) + SectorUnits - 1) \div SectorUnits

SectorAt(img, s) ==
    [at |-> (s - 1) * SectorUnits,
     units |-> [i \in 1..SectorUnits |->
                  IF (s - 1) * SectorUnits + i <= Len(img) THEN img[(s - 1) * SectorUnits + i] ELSE Junk]]

LEMMA SectorsAre ==
    ASSUME NEW img \in Seq(Nat), Len(img) >= 2
    PROVE  /\ Sectored(img) \in Nat \ {0} /\ Sectored(img) * SectorUnits >= Len(img)
           /\ Sectors(img) = [s \in 1..Sectored(img) |-> SectorAt(img, s)]
<1>1. SectorUnits \in Nat \ {0} /\ Len(img) \in Nat
  BY PersistAssumption DEF PersistAssumption
<1>2. PICK n \in Nat : n = Len(img) /\ n >= 2
  BY <1>1
<1>3. PICK u \in Nat \ {0} : u = SectorUnits
  BY <1>1
<1> DEFINE q == (n + u - 1) \div u
<1>4. q \in Nat /\ n + u - 1 < u * q + u
  OBVIOUS
<1>5. q = Sectored(img)
  BY <1>2, <1>3 DEF Sectored
<1> HIDE DEF q
<1>6. q * u >= n /\ q # 0
  <2>1. u * q >= n /\ u * q = q * u
    BY <1>4
  <2>2. q = 0 => u * q = 0
    OBVIOUS
  <2> QED BY <1>2, <2>1, <2>2
<1>7. Sectors(img) = [s \in 1..Sectored(img) |-> SectorAt(img, s)]
  BY DEF Sectors, Sectored, SectorAt
<1> QED BY <1>2, <1>3, <1>4, <1>5, <1>6, <1>7

(***************************************************************************)
(* A save under way: the sectors before the j-th are on the disk, and t    *)
(* are the others.                                                         *)
(***************************************************************************)
Remains(t, img, j) ==
    /\ j \in 1..Sectored(img) /\ t \in Seq({SectorAt(img, s) : s \in 1..Sectored(img)})
    /\ Len(t) = Sectored(img) - j + 1
    /\ \A i \in 1..Len(t) : t[i] = SectorAt(img, j + i - 1)

Underway(t, d, w) ==
    \E img, j : Stands(img, w) /\ Remains(t, img, j) /\ Begins(d, img, (j - 1) * SectorUnits)

LEMMA SaveStarts ==
    ASSUME NEW img, NEW w, Stands(img, w), NEW d
    PROVE  Underway(Sectors(img), d, w)
<1>1. img \in Seq(Nat) /\ Len(img) >= 2
  BY DEF Stands
<1>2. PICK c \in Nat \ {0} : c = Sectored(img)
  BY <1>1, SectorsAre
<1>3. Sectors(img) = [s \in 1..c |-> SectorAt(img, s)]
  BY <1>1, <1>2, SectorsAre
<1>4. Remains(Sectors(img), img, 1)
  <2>1. Sectors(img) \in Seq({SectorAt(img, s) : s \in 1..c}) /\ Len(Sectors(img)) = c
    BY <1>3
  <2>2. 1 \in 1..c /\ c = c - 1 + 1 /\ \A i \in 1..c : 1 + i - 1 = i
    OBVIOUS
  <2>3. \A i \in 1..c : Sectors(img)[i] = SectorAt(img, 1 + i - 1)
    BY <1>3, <2>2
  <2> QED BY <1>2, <2>1, <2>2, <2>3 DEF Remains
<1>5. Begins(d, img, (1 - 1) * SectorUnits)
  <2>1. (1 - 1) * SectorUnits = 0
    BY PersistAssumption DEF PersistAssumption
  <2>2. \A x \in 1..Len(img) : ~(x <= 0)
    OBVIOUS
  <2> QED BY <2>1, <2>2 DEF Begins
<1> QED BY <1>4, <1>5 DEF Underway

Written(d, e, h) ==
    e = [i \in 1..BlobUnits |-> IF i - h.at \in 1..SectorUnits THEN h.units[i - h.at] ELSE d[i]]

LEMMA SectorWritten ==
    ASSUME NEW img, NEW w, Stands(img, w), NEW t, NEW j, Remains(t, img, j),
           NEW d \in Images, Begins(d, img, (j - 1) * SectorUnits), NEW e, Written(d, e, Head(t))
    PROVE  /\ e \in Images
           /\ Tail(t) = << >> => Kept(FilesOn(e), w)
           /\ Tail(t) # << >> => Underway(Tail(t), e, w)
<1>0. /\ img \in Seq(Nat) /\ Len(img) >= 2 /\ Len(img) <= BlobUnits /\ Len(img) \in Nat
      /\ BlobUnits \in Nat /\ SectorUnits \in Nat \ {0}
  BY PersistAssumption DEF Stands, PersistAssumption
<1>1. PICK c \in Nat \ {0} : c = Sectored(img) /\ c * SectorUnits >= Len(img)
  BY <1>0, SectorsAre
<1>2. /\ j \in 1..c /\ t \in Seq({SectorAt(img, s) : s \in 1..c})
      /\ Len(t) = c - j + 1 /\ \A i \in 1..Len(t) : t[i] = SectorAt(img, j + i - 1)
  BY <1>1 DEF Remains
<1>3. PICK o \in Nat : o = (j - 1) * SectorUnits /\ o + SectorUnits = ((j + 1) - 1) * SectorUnits
  <2>1. j - 1 \in Nat /\ j \in Nat /\ (j + 1) - 1 = j
    BY <1>2
  <2>2. (j - 1) * SectorUnits \in Nat /\ (j - 1) * SectorUnits + SectorUnits = j * SectorUnits
    BY <1>0, <2>1
  <2> QED BY <2>1, <2>2
<1>4. PICK h : h = SectorAt(img, j)
  OBVIOUS
<1>5. Head(t) = h
  <2>1. 1 \in 1..Len(t) /\ j + 1 - 1 = j /\ Len(t) # 0
    BY <1>2
  <2>2. Head(t) = t[1]
    BY <1>2, <2>1
  <2> QED BY <1>2, <1>4, <2>1, <2>2
<1>6. /\ h.at = o
      /\ h.units = [i \in 1..SectorUnits |-> IF o + i <= Len(img) THEN img[o + i] ELSE Junk]
  BY <1>3, <1>4 DEF SectorAt
<1>7. /\ e = [i \in 1..BlobUnits |-> IF i - o \in 1..SectorUnits THEN h.units[i - o] ELSE d[i]]
  BY <1>5, <1>6 DEF Written
<1>8. \A i \in 1..SectorUnits : /\ h.units[i] \in Nat
                                /\ o + i <= Len(img) => h.units[i] = img[o + i]
  <2> TAKE i \in 1..SectorUnits
  <2>1. h.units[i] = IF o + i <= Len(img) THEN img[o + i] ELSE Junk
    BY <1>6
  <2>2. o + i <= Len(img) => o + i \in 1..Len(img)
    BY <1>0
  <2>3. o + i <= Len(img) => img[o + i] \in Nat
    BY <1>0, <2>2
  <2> QED BY <2>1, <2>3, NodeFacts
<1>9. e \in Images
  BY <1>7, <1>8 DEF Images
<1>10. Begins(e, img, o + SectorUnits)
  <2> SUFFICES ASSUME NEW x \in 1..Len(img), x <= o + SectorUnits PROVE e[x] = img[x]
    BY DEF Begins
  <2>1. x \in 1..BlobUnits
    BY <1>0
  <2>2. CASE x <= o
    <3>1. x - o \notin 1..SectorUnits
      BY <1>0, <2>2
    <3>2. d[x] = img[x]
      BY <1>3, <2>2 DEF Begins
    <3> QED BY <1>7, <2>1, <3>1, <3>2
  <2>3. CASE ~(x <= o)
    <3>1. x - o \in 1..SectorUnits /\ o + (x - o) = x /\ x <= Len(img)
      BY <1>0, <2>3
    <3>2. h.units[x - o] = img[x]
      BY <1>8, <3>1
    <3> QED BY <1>7, <2>1, <3>1, <3>2
  <2> QED BY <2>2, <2>3
<1>11. /\ Tail(t) \in Seq({SectorAt(img, s) : s \in 1..c}) /\ Len(Tail(t)) = Len(t) - 1
       /\ \A i \in 1..(Len(t) - 1) : Tail(t)[i] = t[i + 1]
  <2>1. t # << >>
    BY <1>2
  <2> QED BY <1>2, <2>1
<1>a. PICK v : v = Tail(t) /\ Len(v) = Len(t) - 1
  BY <1>11
<1>b. PICK l \in Nat : l = Len(t) /\ l = c - j + 1 /\ Len(v) = l - 1
  BY <1>2, <1>a
<1>c. /\ v = << >> <=> Len(v) = 0
      /\ Len(v) = 0 => j = c
      /\ Len(v) # 0 => j + 1 \in 1..c /\ Len(v) = c - (j + 1) + 1
  <2>1. v \in Seq({SectorAt(img, s) : s \in 1..c})
    BY <1>11, <1>a, Zenon
  <2>2. v = << >> <=> Len(v) = 0
    BY <2>1
  <2>3. j \in 1..c /\ c \in Nat
    BY <1>2
  <2>4. l - 1 = 0 => j = c
    BY <1>b, <2>3
  <2>5. l - 1 # 0 => j + 1 \in 1..c /\ l - 1 = c - (j + 1) + 1
    BY <1>b, <2>3
  <2> QED BY <1>b, <2>2, <2>4, <2>5
<1>12. CASE Tail(t) = << >>
  <2>1. j = c
    BY <1>a, <1>c, <1>12, Zenon
  <2>2. o + SectorUnits >= Len(img)
    <3>1. o + SectorUnits = c * SectorUnits
      BY <1>1, <1>3, <2>1
    <3> QED BY <1>1, <3>1
  <2>3. Begins(e, img, Len(img))
    <3>1. \A x \in 1..Len(img) : x <= o + SectorUnits
      BY <1>0, <2>2
    <3> QED BY <1>10, <3>1 DEF Begins
  <2> QED BY <1>9, <1>12, <2>3 DEF Stands
<1>13. CASE Tail(t) # << >>
  <2>2. j + 1 \in 1..c /\ Len(Tail(t)) = c - (j + 1) + 1
    BY <1>a, <1>c, <1>13, Zenon
  <2>3. \A i \in 1..Len(Tail(t)) : Tail(t)[i] = SectorAt(img, (j + 1) + i - 1)
    <3> TAKE i \in 1..Len(Tail(t))
    <3>1. i \in 1..(Len(t) - 1) /\ i + 1 \in 1..Len(t) /\ j + (i + 1) - 1 = (j + 1) + i - 1
      BY <1>2, <1>11
    <3>2. Tail(t)[i] = t[i + 1] /\ t[i + 1] = SectorAt(img, j + (i + 1) - 1)
      BY <1>2, <1>11, <3>1
    <3> QED BY <3>1, <3>2
  <2>4. Remains(Tail(t), img, j + 1)
    BY <1>1, <1>11, <2>2, <2>3 DEF Remains
  <2>5. Begins(e, img, ((j + 1) - 1) * SectorUnits)
    BY <1>3, <1>10
  <2> QED BY <1>9, <1>13, <2>4, <2>5 DEF Underway
<1> QED BY <1>9, <1>12, <1>13

-----------------------------------------------------------------------------
(***************************************************************************)
(* The inductive invariant of Persist.  While no save has been cut short,  *)
(* what a boot would find are the files of the last save; while one is     *)
(* under way, so are the sectors that are left.                            *)
(***************************************************************************)
LastSaved == [files |-> saved, all |-> ~doubled]

PInv ==
    /\ RInv /\ disk \in Images /\ torn \in BOOLEAN /\ doubled \in BOOLEAN
    /\ ~torn => Kept(FilesOn(disk), LastSaved)
    /\ todo = << >> \/ Underway(todo, disk, Whole(node, live))

LEMMA PInit == Init => PInv
<1> SUFFICES ASSUME Init PROVE PInv
  OBVIOUS
<1>1. /\ RInit /\ disk = [i \in 1..BlobUnits |-> 0] /\ todo = << >>
      /\ saved = Files(Empty, {Root}) /\ torn = FALSE /\ doubled = FALSE
  BY DEF Init
<1>2. 1 \in 1..BlobUnits
  BY PersistAssumption DEF PersistAssumption
<1>3. disk \in Images /\ disk[1] # Magic
  BY <1>1, <1>2 DEF Images, Magic
<1>4. Load(disk) = [tab |-> Empty, in |-> {Root}]
  BY <1>3 DEF Load
<1>5. Load(disk).tab = Empty /\ Load(disk).in = {Root}
  BY <1>4
<1>6. FilesOn(disk) = saved
  BY <1>1, <1>5 DEF FilesOn
<1>7. Kept(FilesOn(disk), LastSaved)
  BY <1>6 DEF Kept, LastSaved
<1> QED BY <1>1, <1>3, <1>7, InitInv DEF PInv

LEMMA RStays == ASSUME RInv, UNCHANGED rvars PROVE RInv' /\ Whole(node, live)' = Whole(node, live)
<1>1. /\ node' = node /\ live' = live /\ cwd' = cwd /\ fd' = fd /\ redir' = redir /\ wild' = wild
      /\ cut' = cut /\ owed' = owed
  BY DEF rvars
<1> QED BY <1>1 DEF RInv

LEMMA SaveStep == ASSUME PInv, PersistSave PROVE PInv'
<1>1. /\ UNCHANGED rvars /\ disk' = disk /\ saved' = saved /\ torn' = torn /\ doubled' = doubled
      /\ Len(Serialized) <= BlobUnits /\ todo' = Sectors(Serialized)
  BY DEF PersistSave
<1>2. RInv /\ Tree(node, live)
  BY DEF PInv, RInv
<1>3. Stands(Serialized, Whole(node, live))
  BY <1>1, <1>2, SaveIs
<1>4. \A img, w : Stands(img, w) => Underway(Sectors(img), disk, w)
  BY SaveStarts
<1>5. Underway(todo', disk, Whole(node, live))
  BY <1>1, <1>3, <1>4
<1>6. RInv' /\ Whole(node, live)' = Whole(node, live)
  BY <1>1, <1>2, RStays
<1>7. FilesOn(disk)' = FilesOn(disk) /\ LastSaved' = LastSaved
  BY <1>1 DEF LastSaved
<1> QED BY <1>1, <1>5, <1>6, <1>7 DEF PInv

LEMMA WriteSectorStep == ASSUME PInv, WriteSector PROVE PInv'
<1> DEFINE whole == Whole(node, live)
<1>1. /\ todo # << >> /\ UNCHANGED rvars /\ todo' = Tail(todo)
      /\ Tail(todo) = << >> => saved' = Files(node, live) /\ torn' = FALSE /\ doubled' = ~Distinct(node, live)
      /\ Tail(todo) # << >> => torn' = TRUE /\ doubled' = doubled
  BY DEF WriteSector, Idle
<1>2. Written(disk, disk', Head(todo))
  BY DEF WriteSector, Written
<1>3. RInv /\ disk \in Images /\ doubled \in BOOLEAN /\ Underway(todo, disk, whole)
  BY <1>1 DEF PInv
<1> HIDE DEF whole
<1>4. PICK img, j : /\ Stands(img, whole) /\ Remains(todo, img, j)
                    /\ Begins(disk, img, (j - 1) * SectorUnits)
  BY <1>3 DEF Underway
<1>5. \A F, t, d, e : /\ Stands(img, F) /\ Remains(t, img, j) /\ d \in Images
                      /\ Begins(d, img, (j - 1) * SectorUnits) /\ Written(d, e, Head(t))
        => /\ e \in Images
           /\ Tail(t) = << >> => Kept(FilesOn(e), F)
           /\ Tail(t) # << >> => Underway(Tail(t), e, F)
  BY SectorWritten
<1>6. /\ disk' \in Images
      /\ Tail(todo) = << >> => Kept(FilesOn(disk'), whole)
      /\ Tail(todo) # << >> => Underway(Tail(todo), disk', whole)
  BY <1>2, <1>3, <1>4, <1>5, Zenon
<1>7. RInv' /\ Whole(node, live)' = whole
  BY <1>1, <1>3, RStays DEF whole
<1>8. CASE Tail(todo) = << >>
  <2>1. /\ saved' = Files(node, live) /\ torn' = FALSE /\ doubled' = ~Distinct(node, live)
        /\ todo' = << >> /\ Kept(FilesOn(disk'), whole)
    BY <1>1, <1>6, <1>8
  <2>2. /\ LastSaved'.files = whole.files /\ (LastSaved'.all <=> whole.all) /\ doubled' \in BOOLEAN
    BY <2>1 DEF LastSaved, Whole, whole
  <2>3. Kept(FilesOn(disk), LastSaved)'
    BY <2>1, <2>2 DEF Kept
  <2> QED BY <1>6, <1>7, <2>1, <2>2, <2>3 DEF PInv
<1>9. CASE Tail(todo) # << >>
  <2>1. torn' = TRUE /\ doubled' \in BOOLEAN /\ Underway(Tail(todo), disk', whole)
    BY <1>1, <1>3, <1>6, <1>9
  <2>2. Underway(todo, disk, Whole(node, live))'
    BY <1>1, <1>7, <2>1
  <2> QED BY <1>6, <1>7, <2>1, <2>2 DEF PInv
<1> QED BY <1>8, <1>9

LEMMA BootStep == ASSUME PInv, Boot PROVE PInv' /\ (~torn => Kept(Files(node', live'), LastSaved))
<1>1. /\ disk' = disk /\ saved' = saved /\ torn' = torn /\ doubled' = doubled /\ todo' = << >>
      /\ cwd' = Root /\ wild' = FALSE
      /\ fd' = [f \in FDs |-> NoFd] /\ redir' = [t \in Tasks |-> Nothing] /\ owed' = [f \in FDs |-> {}]
      /\ cut' = {n \in live' : \E i \in 1..node'[n].size : node'[n].data[i] = Junk}
  BY DEF Boot
<1>2. node' = Load(disk).tab /\ live' = Load(disk).in
  BY LoadedIs, Zenon DEF Boot
<1>3. disk \in Images /\ torn \in BOOLEAN /\ doubled \in BOOLEAN /\ (~torn => Kept(FilesOn(disk), LastSaved))
  BY DEF PInv
<1>4. Tree(Load(disk).tab, Load(disk).in)
  BY <1>3, LoadsTree
<1>5. Tree(node', live')
  BY <1>2, <1>4, Zenon
<1>6. live' \subseteq Nodes /\ Typed(node')
  BY <1>5 DEF Tree
<1>7. Tables(fd', redir', owed') /\ Listing(node', live', fd', owed')
  BY <1>1, NothingOpen
<1>8. Gapless(node', live' \ cut', fd', redir')
  <2> SUFFICES ASSUME NEW n \in live' \ cut'
               PROVE  Inside(n, node'[n].size, fd', redir') /\ Clean(node'[n])
    BY DEF Gapless
  <2>1. n \in Nodes /\ node'[n].size \in Nat
    BY <1>6, FieldTypes
  <2>2. \A x \in Nodes, s \in Nat : Inside(x, s, fd', redir')
    BY <1>1, NothingOpen
  <2>3. Clean(node'[n])
    BY <1>1 DEF Clean
  <2> QED BY <2>1, <2>2, <2>3
<1>9. cut' \subseteq Nodes
  BY <1>1, <1>6
<1>10. RInv'
  BY <1>1, <1>5, <1>7, <1>8, <1>9, NodeFacts DEF RInv
<1>11. Files(node', live') = FilesOn(disk)
  BY <1>2 DEF FilesOn
<1>12. FilesOn(disk)' = FilesOn(disk) /\ LastSaved' = LastSaved
  BY <1>1 DEF LastSaved
<1> QED BY <1>1, <1>3, <1>10, <1>11, <1>12 DEF PInv

LEMMA PNext == ASSUME PInv, [Next]_vars PROVE PInv'
<1>1. ASSUME Call PROVE PInv'
  <2>1. /\ todo = << >> /\ RNext /\ disk' = disk /\ todo' = todo /\ saved' = saved /\ torn' = torn
        /\ doubled' = doubled
    BY <1>1 DEF Call, Idle
  <2>2. RInv'
    BY <2>1, CallInv DEF PInv
  <2>3. FilesOn(disk)' = FilesOn(disk) /\ LastSaved' = LastSaved
    BY <2>1 DEF LastSaved
  <2> QED BY <2>1, <2>2, <2>3 DEF PInv
<1>2. ASSUME UNCHANGED vars PROVE PInv'
  <2>1. /\ UNCHANGED rvars /\ disk' = disk /\ todo' = todo /\ saved' = saved /\ torn' = torn
        /\ doubled' = doubled
    BY <1>2 DEF vars, pvars
  <2>2. RInv' /\ Whole(node, live)' = Whole(node, live)
    BY <2>1, RStays DEF PInv
  <2>3. FilesOn(disk)' = FilesOn(disk) /\ LastSaved' = LastSaved
    BY <2>1 DEF LastSaved
  <2> QED BY <2>1, <2>2, <2>3 DEF PInv
<1> QED BY <1>1, <1>2, SaveStep, WriteSectorStep, BootStep DEF Next

(***************************************************************************)
(* PInv holds in every state of Persist: through all calls, saves, power   *)
(* losses between the sectors of a save, and boots from whatever is then   *)
(* on the disk.                                                            *)
(***************************************************************************)
THEOREM PersistInvariance == Spec => []PInv
  BY PInit, PNext, PTL DEF Spec

(***************************************************************************)
(* Type correctness: also a torn or foreign image read by                  *)
(* ramfs_deserialize leaves nodes whose size lies within their buffer, and *)
(* no descriptor refers to anything but an address of a node.              *)
(***************************************************************************)
THEOREM PersistTypes == Spec => []TypeOK
<1>1. PInv => TypeOK
  <2> SUFFICES ASSUME PInv PROVE TypeOK
    OBVIOUS
  <2>1. /\ Tree(node, live) /\ Tables(fd, redir, owed) /\ cwd \in Nodes /\ wild \in BOOLEAN
        /\ cut \subseteq Nodes /\ disk \in Images /\ torn \in BOOLEAN /\ doubled \in BOOLEAN
    BY DEF PInv, RInv
  <2>2. Typed(node) /\ live \subseteq Nodes /\ DOMAIN node = Nodes
    BY <2>1 DEF Tree, Typed
  <2>3. ASSUME NEW n \in Nodes
        PROVE  /\ node[n].type \in {NODE_FILE, NODE_DIR}
               /\ node[n].parent \in Nodes \cup {Null}
               /\ node[n].size \in 0..Len(node[n].data)
    <3>1. /\ node[n].type \in Types /\ node[n].parent \in Nodes \cup {Null}
          /\ node[n].size \in Nat /\ node[n].size <= Len(node[n].data) /\ Len(node[n].data) \in Nat
      BY <2>2, FieldTypes
    <3> QED BY <3>1 DEF Types
  <2>4. \A f \in FDs : fd[f].node \in Nodes \cup {Null} /\ fd[f].pos \in Nat
    BY <2>1, EntryTypes
  <2>5. RTypeOK
    BY <2>1, <2>2, <2>3, <2>4 DEF RTypeOK
  <2> QED BY <2>1, <2>5 DEF TypeOK, Images
<1> QED BY <1>1, PersistInvariance, PTL

(***************************************************************************)
(* Every node leads up to the root.                                        *)
(***************************************************************************)
LEMMA LeadsUp == ASSUME Tree(node, live), NEW n \in live PROVE Root \in Above(n)
<1> DEFINE K == Cardinality(Nodes)
           T == Nodes \cup {Null}
           U(x) == IF x = Null THEN Null ELSE node[x].parent
           h == [k \in 1..K |-> [x \in T |-> U(x)]]
           E(g) == [k \in 0..K |-> IF k = 0 THEN n ELSE U(g[k - 1])]
           up == CHOOSE g : g = E(g)
<1>0. K \in Nat /\ Typed(node) /\ live \subseteq Nodes /\ n \in T /\ Null \notin Nodes
  BY Count, NodeFacts DEF Tree
<1>1. \A x \in T : U(x) \in T
  BY <1>0, FieldTypes
<1>2. h \in [1..K -> [T -> T]]
  <2> HIDE DEF U, T
  <2> QED BY <1>1
<1>3. PICK g : Iterates(g, T, n, h, K)
  <2> HIDE DEF h, T, K
  <2> QED BY <1>0, <1>2, IterateExists
<1>4. g = E(g)
  <2>0. \A i \in 1..K, x \in T : h[i][x] = U(x)
    OBVIOUS
  <2> HIDE DEF h, T, U, K
  <2>1. \A i \in 1..K : g[i - 1] \in T /\ g[i] = h[i][g[i - 1]]
    BY <1>0, <1>3 DEF Iterates
  <2>2. \A i \in 1..K : g[i] = U(g[i - 1])
    BY <2>0, <2>1
  <2>3. g = [i \in 0..K |-> g[i]] /\ g[0] = n
    BY <1>3 DEF Iterates
  <2>4. \A i \in 0..K : g[i] = IF i = 0 THEN n ELSE U(g[i - 1])
    <3>1. \A i \in 0..K : i = 0 \/ (i # 0 /\ i \in 1..K)
      BY <1>0
    <3> QED BY <2>2, <2>3, <3>1
  <2> QED BY <2>3, <2>4
<1>5. up = E(up)
  <2> HIDE DEF E
  <2> QED BY <1>4
<1>6. Above(n) = {up[k] : k \in DOMAIN up}
  BY DEF Above
<1> HIDE DEF up, K
<1>7. DOMAIN up = 0..K /\ up[0] = n /\ \A i \in 1..K : up[i] = U(up[i - 1])
  <2> HIDE DEF U
  <2>1. DOMAIN up = 0..K /\ \A i \in 0..K : up[i] = IF i = 0 THEN n ELSE U(up[i - 1])
    BY <1>5
  <2>2. 0 \in 0..K /\ \A i \in 1..K : i \in 0..K /\ i # 0
    BY <1>0
  <2> QED BY <2>1, <2>2
<1>8. PICK rank : Ranks(node, live, rank)
  BY DEF Tree
<1>9. PICK R \in Nat : R = rank[n] /\ R < K
  BY <1>0, <1>8, RankBound DEF Ranks, K
<1>10. \A x \in live : rank[x] \in Nat /\ (rank[x] = 0 <=> x = Root)
  BY <1>0, <1>8 DEF Ranks, Tree, Listed
<1>11. \A x \in live : rank[x] > 0 => node[x].parent \in live /\ rank[node[x].parent] = rank[x] - 1
  <2> TAKE x \in live
  <2> HAVE rank[x] > 0
  <2>1. x # Root
    BY <1>10
  <2>2. node[x].parent \in live /\ rank[x] = rank[node[x].parent] + 1
    BY <1>8, <2>1 DEF Ranks, Tree, Listed
  <2> QED BY <1>10, <2>2
<1> DEFINE S == {k \in Nat : up[k] \in live /\ rank[up[k]] = R - k}
<1>12. 0 \in S
  BY <1>7, <1>9
<1>13. ASSUME NEW k \in 1..R, k - 1 \in S PROVE k \in S
  <2>1. k \in 1..K /\ k \in Nat /\ R - (k - 1) > 0 /\ R - (k - 1) - 1 = R - k
    BY <1>0, <1>9
  <2>2. up[k - 1] \in live /\ rank[up[k - 1]] = R - (k - 1)
    BY <1>13
  <2>3. node[up[k - 1]].parent \in live /\ rank[node[up[k - 1]].parent] = R - k
    BY <1>11, <2>1, <2>2
  <2>4. up[k] = node[up[k - 1]].parent
    BY <1>0, <1>7, <2>1, <2>2
  <2> QED BY <2>1, <2>3, <2>4
<1>14. 0..R \subseteq S
  <2> HIDE DEF S
  <2> QED BY <1>12, <1>13, UpTo
<1>15. R \in 0..R /\ R \in 0..K /\ R - R = 0
  BY <1>0, <1>9
<1>16. up[R] = Root
  BY <1>10, <1>14, <1>15
<1> QED BY <1>6, <1>7, <1>15, <1>16

(***************************************************************************)
(* The nodes are one tree, in which two entries of a directory have the    *)
(* same name only if it is what str_copy has left of a longer one, through *)
(* every sequence of calls of all tasks and for every image read at boot,  *)
(* also one whose save was cut short between two sectors.                  *)
(***************************************************************************)
THEOREM TreeCorrect == Spec => []TreeOK
<1>1. PInv => TreeOK
  <2> SUFFICES ASSUME PInv PROVE TreeOK
    OBVIOUS
  <2>1. Tree(node, live)
    BY DEF PInv, RInv
  <2>2. Root \in live /\ node[Root].parent = Null
    BY <2>1 DEF Tree
  <2>3. ASSUME NEW n \in live \ {Root}
        PROVE  /\ node[n].parent \in live /\ Root \in Above(n)
               /\ Cardinality({i \in 1..Len(node[node[n].parent].kids) : node[node[n].parent].kids[i] = n}) = 1
    <3> DEFINE d == node[n].parent
               I == {i \in 1..Len(node[d].kids) : node[d].kids[i] = n}
    <3>1. d \in live
      BY <2>1 DEF Tree, Listed
    <3>2. PICK i \in 1..Len(node[d].kids) : node[d].kids[i] = n
      BY <2>1 DEF Tree, Listed
    <3>3. I = {i}
      BY <2>1, <3>1, <3>2, KidsDiffer
    <3>4. Root \in Above(n)
      BY <2>1, LeadsUp
    <3> HIDE DEF d
    <3>5. Cardinality(I) = 1
      BY <3>3, FS_Singleton
    <3> QED BY <3>1, <3>4, <3>5 DEF d
  <2>4. ASSUME NEW d \in live, NEW i \in 1..Len(node[d].kids), NEW j \in 1..Len(node[d].kids)
        PROVE  /\ node[d].type = NODE_DIR
               /\ node[d].kids[i] \in live /\ node[node[d].kids[i]].parent = d
               /\ i # j => \/ node[node[d].kids[i]].name # node[node[d].kids[j]].name
                           \/ node[node[d].kids[i]].name \in CutNames
    BY <2>1 DEF Tree, Children, Named, Apart
  <2> QED BY <2>2, <2>3, <2>4 DEF TreeOK
<1> QED BY <1>1, PersistInvariance, PTL

(***************************************************************************)
(* Positions lie within the file and every byte of a file was written to   *)
(* it, for any number of descriptors and redirected tasks on one file, but *)
(* for the files in cut.                                                   *)
(***************************************************************************)
THEOREM NoGapCorrect == Spec => []NoGap
<1>1. PInv => NoGap
  BY DEF PInv, RInv, Gapless, Inside, Clean, NoGap
<1> QED BY <1>1, PersistInvariance, PTL

(***************************************************************************)
(* SYS_READDIR returns every entry that was there when the directory was   *)
(* opened, whatever is created and removed meanwhile, with the exceptions  *)
(* ListingComplete names.                                                  *)
(***************************************************************************)
THEOREM ListingCorrect == Spec => []ListingComplete
<1>1. PInv => ListingComplete
  <2> SUFFICES ASSUME PInv, NEW f \in FDs, fd[f].dir, fd[f].node \in live,
                      fd[f].pos >= Len(node[fd[f].node].kids)
               PROVE  owed[f] = {}
    BY DEF ListingComplete
  <2>1. /\ Ahead(node[fd[f].node].kids, fd[f].pos, owed[f]) /\ Tree(node, live) /\ Tables(fd, redir, owed)
    BY DEF PInv, RInv, Listing
  <2>2. fd[f].pos \in Nat /\ Len(node[fd[f].node].kids) \in Nat
    BY <2>1, EntryTypes, FieldTypes DEF Tree
  <2>3. \A i \in 1..Len(node[fd[f].node].kids) : ~(i > fd[f].pos)
    BY <2>2
  <2> QED BY <2>1, <2>3 DEF Ahead
<1> QED BY <1>1, PersistInvariance, PTL

(***************************************************************************)
(* What is read at boot is what the last save wrote: persist_load undoes   *)
(* persist_save, for every tree that fits into the area, whatever an       *)
(* earlier image has left behind the end of the new one, unless a save     *)
(* has been cut short since; and if a directory of the tree has two        *)
(* entries of one name, what is read was at least among what was saved.    *)
(***************************************************************************)
THEOREM RestoredCorrect == Spec => Restored
<1>1. PInv /\ [Next]_vars => [boots' # boots /\ ~torn =>
                                /\ Files(node', live') \subseteq saved
                                /\ ~doubled => Files(node', live') = saved]_vars
  <2> SUFFICES ASSUME PInv, Next, boots' # boots, ~torn
               PROVE  /\ Files(node', live') \subseteq saved
                      /\ ~doubled => Files(node', live') = saved
    OBVIOUS
  <2>1. Boot
    BY DEF Next, Call, PersistSave, WriteSector
  <2>2. Kept(Files(node', live'), LastSaved)
    BY <2>1, BootStep
  <2> QED BY <2>2 DEF Kept, LastSaved
<1> QED BY <1>1, PersistInvariance, PTL DEF Spec, Restored
=============================================================================
