--------------------------- MODULE Ingest_proofs ---------------------------
(***************************************************************************)
(* The command line tool, for every list of files and options: each step   *)
(* of main and ingest preserves the inductive invariant, which gives what  *)
(* is ingested of each file, what the tool says of files it cannot use,    *)
(* when it gives up, where the year of a syslog comes from and what its    *)
(* exit code promises.                                                     *)
(***************************************************************************)
EXTENDS Ingest, Foundations_proofs

\* A set of naturals has an earliest member.
LEMMA EarliestIsLeast ==
    ASSUME NEW T \in SUBSET Nat, T # {}
    PROVE  Earliest(T) \in T /\ \A y \in T : Earliest(T) <= y
BY LeastExists DEF Earliest

\* A mode is chosen, whatever the flags.
LEMMA ModeChosen == ChosenMode \in ToSet(ModeOrder) \cup {"jsonl"}
<1> DEFINE asked == {k \in DOMAIN ModeOrder : Mentions(ModeOrder[k]) # {}}
<1>1. DOMAIN ModeOrder = 1..7
  BY DEF ModeOrder
<1>2. asked \in SUBSET Nat /\ asked \subseteq DOMAIN ModeOrder
  BY <1>1
<1>3. ChosenMode = IF asked = {} THEN "jsonl" ELSE ModeOrder[Earliest(asked)]
  BY DEF ChosenMode
<1> HIDE DEF asked
<1>4. asked # {} => Earliest(asked) \in DOMAIN ModeOrder
  BY <1>2, EarliestIsLeast
<1> QED
  BY <1>3, <1>4 DEF ToSet

\* Every file is taken for one of the kinds.
LEMMA SniffIsKind == ASSUME NEW markers PROVE Sniff(markers) \in Kind
<1> DEFINE seen == {k \in DOMAIN SniffOrder : SniffOrder[k] \in markers}
<1>1. DOMAIN SniffOrder = 1..9 /\ \A k \in 1..9 : SniffOrder[k] \in Kind
  BY DEF SniffOrder, Kind, Marker
<1>2. seen \in SUBSET Nat /\ seen \subseteq DOMAIN SniffOrder
  BY <1>1
<1>3. Sniff(markers) = IF seen # {} THEN SniffOrder[Earliest(seen)]
                       ELSE IF "usb_found" \in markers THEN "syslog" ELSE "setupapi"
  BY DEF Sniff
<1> HIDE DEF seen
<1>4. seen # {} => Earliest(seen) \in 1..9
  BY <1>1, <1>2, EarliestIsLeast
<1>5. {"syslog", "setupapi"} \subseteq Kind
  BY DEF Kind
<1> QED
  BY <1>1, <1>3, <1>4, <1>5

\* A value that an option has is on the command line.
LEMMA ParsedWasGiven ==
    ASSUME IsCommandLine(args), NEW name, FirstParsed(name) # None
    PROVE  \E k \in DOMAIN args : args[k].name = name /\ args[k].value = FirstParsed(name)
<1> DEFINE parsed == {i \in Mentions(name) : args[i].value # None}
<1>1. FirstParsed(name) = IF parsed = {} THEN None ELSE args[Earliest(parsed)].value
  BY DEF FirstParsed
<1>2. parsed \in SUBSET Nat /\ \A i \in parsed : i \in DOMAIN args /\ args[i].name = name
  BY DEF IsCommandLine, IsList, Mentions
<1> HIDE DEF parsed
<1>3. parsed # {} /\ Earliest(parsed) \in parsed
  BY <1>1, <1>2, EarliestIsLeast
<1> QED
  BY <1>1, <1>2, <1>3

-----------------------------------------------------------------------------
\* Counting the members of a set of positions up to a place: one more place
\* counts at most one more member, and only when it is one.
LEMMA CountStep ==
    ASSUME NEW n \in Nat, NEW P \in SUBSET (1..n), NEW m \in Nat
    PROVE  /\ Cardinality({j \in P : j <= m}) \in Nat
           /\ Cardinality({j \in P : j <= m + 1}) =
                Cardinality({j \in P : j <= m}) + (IF m + 1 \in P THEN 1 ELSE 0)
<1> DEFINE here == {j \in P : j <= m}
           on == {j \in P : j <= m + 1}
<1>1. IsFiniteSet(1..n)
  <2>1. \A k \in Nat : IsFiniteSet(1..k)
    BY FS_Interval
  <2> QED
    BY <2>1
<1>2. here \in SUBSET (1..n)
  OBVIOUS
<1>7. ASSUME NEW j PROVE j \in on <=> j \in P /\ (j \in here \/ j = m + 1)
  <2>1. CASE j \in P
    <3>1. j \in 1..n
      BY <2>1
    <3>2. j \in Int /\ (j <= m + 1 <=> j <= m \/ j = m + 1)
      BY <3>1
    <3> QED
      BY <2>1, <3>2
  <2>2. CASE j \notin P
    BY <2>2
  <2> QED
    BY <2>1, <2>2
<1>8. (m + 1) \notin here /\ here \subseteq P /\ on \subseteq P
  OBVIOUS
<1> HIDE DEF here, on
<1>3. IsFiniteSet(here)
  BY <1>1, <1>2, FS_Subset
<1>4. Cardinality(here) \in Nat
  BY <1>3, FS_CardinalityType
<1>5. CASE m + 1 \in P
  <2>1. on = here \cup {m + 1} /\ m + 1 \notin here
    BY <1>5, <1>7, <1>8
  <2>2. Cardinality(on) = Cardinality(here) + 1
    BY <1>3, <2>1, FS_AddElement
  <2>3. Cardinality(on) = Cardinality(here) + (IF m + 1 \in P THEN 1 ELSE 0)
    BY <1>5, <2>2
  <2> QED
    BY <1>4, <2>3 DEF here, on
<1>6. CASE m + 1 \notin P
  <2>1. on = here
    BY <1>6, <1>7, <1>8
  <2>2. Cardinality(on) = Cardinality(here) + 0
    BY <1>4, <2>1
  <2>3. Cardinality(on) = Cardinality(here) + (IF m + 1 \in P THEN 1 ELSE 0)
    BY <1>6, <2>2
  <2> QED
    BY <1>4, <2>3 DEF here, on
<1> QED
  BY <1>5, <1>6

\* The k-th of a set of positions exists.
LEMMA KthExists ==
    ASSUME NEW n \in Nat, NEW P \in SUBSET (1..n), NEW k \in 1..Cardinality(P)
    PROVE  \E i \in P : Cardinality({j \in P : j <= i}) = k
<1> DEFINE count(m) == Cardinality({j \in P : j <= m})
           reached == {m \in Nat : count(m) >= k}
<1>1. /\ \A m \in Nat : count(m) \in Nat
      /\ \A m \in Nat : count(m + 1) = count(m) + (IF m + 1 \in P THEN 1 ELSE 0)
  BY CountStep
<1>2. count(0) = 0 /\ count(n) = Cardinality(P)
  <2>1. \A j \in P : ~ (j <= 0) /\ j <= n
    OBVIOUS
  <2>2. {j \in P : j <= 0} = {}
    BY <2>1
  <2>3. {j \in P : j <= n} = P
    BY <2>1
  <2> QED
    BY <2>2, <2>3, FS_EmptySet
<1>3. reached \in SUBSET Nat /\ (\A m \in reached : count(m) >= k)
  OBVIOUS
<1>4. \A m \in Nat : m \notin reached => count(m) < k
  BY <1>1
<1> HIDE DEF reached, count
<1>5. k \in Nat /\ k >= 1 /\ n \in reached
  BY <1>1, <1>2 DEF reached
<1> DEFINE m == Earliest(reached)
<1>6. m \in reached /\ m \in Nat /\ \A y \in reached : m <= y
  BY <1>3, <1>5, EarliestIsLeast
<1> HIDE DEF m
<1>7. m # 0
  BY <1>2, <1>3, <1>5, <1>6
<1>8. m - 1 \in Nat /\ m - 1 \notin reached /\ (m - 1) + 1 = m
  BY <1>6, <1>7
<1>9. count(m - 1) < k /\ count(m) >= k
  BY <1>3, <1>4, <1>6, <1>8
<1>10. count(m) = count(m - 1) + (IF m \in P THEN 1 ELSE 0)
  BY <1>1, <1>8
<1>11. m \in P /\ count(m) = k
  BY <1>1, <1>5, <1>6, <1>8, <1>9, <1>10
<1> QED
  BY <1>11 DEF count

\* What is kept of a list is a list of some of its elements.
LEMMA KeptMembers ==
    ASSUME NEW n \in Nat, NEW list, NEW places \in SUBSET (1..n)
    PROVE  /\ Cardinality(places) \in Nat
           /\ Kept(list, places) = [k \in 1..Cardinality(places) |-> Kept(list, places)[k]]
           /\ \A k \in 1..Cardinality(places) : \E i \in places : Kept(list, places)[k] = list[i]
<1>1. Cardinality(places) \in Nat
  <2>1. \A k \in Nat : IsFiniteSet(1..k)
    BY FS_Interval
  <2>2. IsFiniteSet(places)
    BY <2>1, FS_Subset
  <2> QED
    BY <2>2, FS_CardinalityType
<1>2. Kept(list, places) =
        [k \in 1..Cardinality(places) |->
            list[CHOOSE i \in places : Cardinality({j \in places : j <= i}) = k]]
  BY DEF Kept
<1>3. ASSUME NEW k \in 1..Cardinality(places)
      PROVE  (CHOOSE i \in places : Cardinality({j \in places : j <= i}) = k) \in places
  BY KthExists
<1> QED
  BY <1>1, <1>2, <1>3

\* What is given without an option is a list of paths.
LEMMA GivenArePaths ==
    ASSUME IsCommandLine(args)
    PROVE  GivenPaths \in Seq(Paths)
<1>1. Len(args) \in Nat /\ Mentions("path") \in SUBSET (1..Len(args))
  BY DEF IsCommandLine, IsList, Mentions
<1>2. \A i \in Mentions("path") : args[i].value \in Paths
  BY DEF IsCommandLine, Mentions
<1>3. PICK given : given = Kept(args, Mentions("path"))
  OBVIOUS
<1>4. PICK m \in Nat : /\ given = [k \in 1..m |-> given[k]]
                       /\ \A k \in 1..m : \E i \in Mentions("path") : given[k] = args[i]
  BY <1>1, <1>3, KeptMembers
<1>5. GivenPaths = [k \in 1..m |-> given[k].value]
  BY <1>3, <1>4 DEF GivenPaths
<1>6. GivenPaths \in [1..m -> Paths]
  BY <1>2, <1>4, <1>5
<1> QED
  BY <1>6
-----------------------------------------------------------------------------
(***************************************************************************)
(* The trees of the profiler.  Walk is a function on the nodes that calls  *)
(* itself on what is below, so it is first shown that there is one.        *)
(***************************************************************************)
Closed(S) == S \in SUBSET TreeNodes /\ \A node \in S : ToSet(node.items) \subseteq S

OwnDevice(node) == IF IsDeviceNode(node) THEN <<MacUsbDevice(node)>> ELSE <<>>

\* What walk makes of a node, f being what it makes of those below.
WalkedBy(f, node) == OwnDevice(node) \o FlattenSeq([i \in DOMAIN node.items |-> f[node.items[i]]])

WalksOn(f, S) == \A node \in S : f[node] = WalkedBy(f, node)

LEMMA ItemsAreNodes ==
    \A node \in TreeNodes : /\ node.items \in Seq(TreeNodes) /\ Len(node.items) \in Nat
                            /\ DOMAIN node.items = 1..Len(node.items)
                            /\ \A x \in ToSet(node.items) : x \in TreeNodes
<1>1. ASSUME NEW node \in TreeNodes
      PROVE  /\ node.items \in Seq(TreeNodes) /\ Len(node.items) \in Nat
             /\ DOMAIN node.items = 1..Len(node.items)
             /\ \A i \in 1..Len(node.items) : node.items[i] \in TreeNodes
  BY TreeAssumption
<1> QED
  BY <1>1 DEF ToSet

LEMMA SameBelow ==
    ASSUME NEW f, NEW g, NEW node, \A x \in ToSet(node.items) : f[x] = g[x]
    PROVE  WalkedBy(f, node) = WalkedBy(g, node)
<1>1. \A i \in DOMAIN node.items : f[node.items[i]] = g[node.items[i]]
  BY DEF ToSet
<1>2. [i \in DOMAIN node.items |-> f[node.items[i]]] = [i \in DOMAIN node.items |-> g[node.items[i]]]
  BY <1>1
<1> QED
  BY <1>2 DEF WalkedBy

\* Of nodes that are bad in some way, one has none of them right below it.
LEMMA LowestNode ==
    ASSUME NEW S \in SUBSET TreeNodes, S # {}
    PROVE  \E node \in S : \A x \in ToSet(node.items) : x \in TreeNodes /\ x \notin S
<1>1. PICK node \in S : ToSet(node.items) \cap S = {}
  BY TreeAssumption
<1>2. ToSet(node.items) \subseteq TreeNodes
  BY ItemsAreNodes
<1> QED
  BY <1>1, <1>2

\* Two walks agree wherever both are right.
LEMMA WalksAgree ==
    ASSUME NEW S, Closed(S), NEW T, Closed(T), NEW f, WalksOn(f, S), NEW g, WalksOn(g, T)
    PROVE  \A node \in S \cap T : f[node] = g[node]
<1> DEFINE D == {node \in S \cap T : f[node] # g[node]}
<1>1. CASE D = {}
  BY <1>1
<1>2. CASE D # {}
  <2>1. D \in SUBSET TreeNodes
    BY DEF Closed
  <2>2. PICK node \in D : \A x \in ToSet(node.items) : x \in TreeNodes /\ x \notin D
    BY <1>2, <2>1, LowestNode
  <2>3. \A x \in ToSet(node.items) : x \in S \cap T
    BY DEF Closed
  <2>4. \A x \in ToSet(node.items) : f[x] = g[x]
    BY <2>2, <2>3
  <2>5. WalkedBy(f, node) = WalkedBy(g, node)
    BY <2>4, SameBelow
  <2>6. f[node] = g[node]
    BY <2>5 DEF WalksOn
  <2> QED
    BY <2>6
<1> QED
  BY <1>1, <1>2

\* The nodes that some walk is right on, with all below them.
Walkable == {node \in TreeNodes : \E S, f : Closed(S) /\ node \in S /\ WalksOn(f, S)}

LEMMA WalkableWalked == Closed(Walkable) /\ \E f : WalksOn(f, Walkable)
<1>1. ASSUME NEW node \in Walkable PROVE ToSet(node.items) \subseteq Walkable
  <2>1. PICK S, f : Closed(S) /\ node \in S /\ WalksOn(f, S)
    BY DEF Walkable
  <2>2. \A x \in ToSet(node.items) : x \in S /\ x \in TreeNodes
    BY <2>1 DEF Closed
  <2> QED
    BY <2>1, <2>2 DEF Walkable
<1>2. Closed(Walkable)
  BY <1>1 DEF Closed, Walkable
<1> DEFINE right(node) == CHOOSE v : \E S, f : Closed(S) /\ node \in S /\ WalksOn(f, S) /\ v = f[node]
           h == [node \in Walkable |-> right(node)]
<1>3. ASSUME NEW node \in Walkable, NEW S, NEW f, Closed(S), node \in S, WalksOn(f, S)
      PROVE  h[node] = f[node]
  <2>1. PICK T, g : Closed(T) /\ node \in T /\ WalksOn(g, T) /\ right(node) = g[node]
    <3>1. \E v : \E T, g : Closed(T) /\ node \in T /\ WalksOn(g, T) /\ v = g[node]
      BY <1>3
    <3> QED
      BY <3>1
  <2>2. f[node] = g[node]
    BY <1>3, <2>1, WalksAgree
  <2> QED
    BY <2>1, <2>2
<1> HIDE DEF h
<1>4. ASSUME NEW node \in Walkable PROVE h[node] = WalkedBy(h, node)
  <2>1. PICK S, f : Closed(S) /\ node \in S /\ WalksOn(f, S)
    BY DEF Walkable
  <2>2. \A x \in ToSet(node.items) : x \in S /\ x \in Walkable
    BY <1>1, <2>1 DEF Closed
  <2>3. \A x \in ToSet(node.items) : f[x] = h[x]
    BY <1>3, <2>1, <2>2
  <2>4. h[node] = f[node] /\ f[node] = WalkedBy(f, node)
    BY <1>3, <2>1 DEF WalksOn
  <2>5. WalkedBy(f, node) = WalkedBy(h, node)
    BY <2>3, SameBelow
  <2> QED
    BY <2>4, <2>5
<1> QED
  BY <1>2, <1>4 DEF WalksOn

LEMMA AllWalkable == Walkable = TreeNodes
<1> DEFINE bad == TreeNodes \ Walkable
<1>1. CASE bad = {}
  BY <1>1 DEF Walkable
<1>2. CASE bad # {}
  <2>1. PICK node \in bad : \A x \in ToSet(node.items) : x \in TreeNodes /\ x \notin bad
    BY <1>2, LowestNode
  <2>2. Closed(Walkable)
    BY WalkableWalked
  <2>3. PICK f : WalksOn(f, Walkable)
    BY WalkableWalked
  <2> DEFINE S == Walkable \cup {node}
             g == [x \in S |-> IF x = node THEN WalkedBy(f, node) ELSE f[x]]
  <2>4. \A x \in Walkable : x # node /\ g[x] = f[x]
    OBVIOUS
  <2>5. g[node] = WalkedBy(f, node)
    OBVIOUS
  <2>6. node \in TreeNodes /\ node \notin Walkable /\ \A x \in ToSet(node.items) : x \in Walkable
    BY <2>1
  <2>7. Closed(S)
    BY <2>2, <2>6 DEF Closed
  <2>8. S = Walkable \cup {node}
    OBVIOUS
  <2> HIDE DEF S, g
  <2>9. ASSUME NEW x \in S PROVE g[x] = WalkedBy(g, x)
    <3>1. \A y \in ToSet(x.items) : y \in Walkable
      BY <2>2, <2>6, <2>8 DEF Closed
    <3>2. \A y \in ToSet(x.items) : f[y] = g[y]
      BY <2>4, <3>1
    <3>3. WalkedBy(f, x) = WalkedBy(g, x)
      BY <3>2, SameBelow
    <3>4. g[x] = WalkedBy(f, x)
      BY <2>3, <2>4, <2>5, <2>8 DEF WalksOn
    <3> QED
      BY <3>3, <3>4
  <2>10. WalksOn(g, S)
    BY <2>9 DEF WalksOn
  <2>11. node \in Walkable
    BY <2>6, <2>7, <2>8, <2>10 DEF Walkable
  <2> QED
    BY <2>6, <2>11
<1> QED
  BY <1>1, <1>2

\* Walk does what its definition says.
LEMMA WalkRight == \A node \in TreeNodes : Walk[node] = WalkedBy(Walk, node)
<1> DEFINE Is(f) == f = [node \in TreeNodes |->
                            (IF IsDeviceNode(node) THEN <<MacUsbDevice(node)>> ELSE <<>>)
                            \o FlattenSeq([i \in DOMAIN node.items |-> f[node.items[i]]])]
<1>1. PICK f : \A node \in TreeNodes : f[node] = WalkedBy(f, node)
  BY WalkableWalked, AllWalkable DEF WalksOn
<1> DEFINE g == [node \in TreeNodes |-> f[node]]
<1>2. ASSUME NEW node \in TreeNodes PROVE g[node] = WalkedBy(g, node)
  <2>1. \A x \in ToSet(node.items) : x \in TreeNodes
    BY ItemsAreNodes
  <2>2. \A x \in ToSet(node.items) : f[x] = g[x]
    BY <2>1
  <2>3. WalkedBy(f, node) = WalkedBy(g, node)
    BY <2>2, SameBelow
  <2> QED
    BY <1>1, <2>3
<1>3. g = [node \in TreeNodes |-> g[node]]
  OBVIOUS
<1> HIDE DEF g
<1>4. Is(g)
  BY <1>2, <1>3 DEF WalkedBy, OwnDevice
<1>5. Walk = CHOOSE f_1 : Is(f_1)
  BY DEF Walk
<1>6. Is(Walk)
  BY <1>4, <1>5
<1> QED
  BY <1>6 DEF WalkedBy, OwnDevice

\* The device records of nodes.
DevicesOf(S) == {MacUsbDevice(node) : node \in {n \in S : IsDeviceNode(n)}}

\* The members of what a walk makes of a node.
LEMMA WalkedMembers ==
    ASSUME NEW node \in TreeNodes, NEW R,
           IsDeviceNode(node) => MacUsbDevice(node) \in R,
           \A x \in ToSet(node.items) : Walk[x] \in Seq(R)
    PROVE  /\ Walk[node] \in Seq(R)
           /\ \A dev : dev \in ToSet(Walk[node]) <=>
                 \/ IsDeviceNode(node) /\ dev = MacUsbDevice(node)
                 \/ \E x \in ToSet(node.items) : dev \in ToSet(Walk[x])
<1> DEFINE parts == [i \in DOMAIN node.items |-> Walk[node.items[i]]]
           own == OwnDevice(node)
<1>1. node.items \in Seq(TreeNodes) /\ Len(node.items) \in Nat /\ DOMAIN node.items = 1..Len(node.items)
  BY ItemsAreNodes
<1>2. \A i \in 1..Len(node.items) : Walk[node.items[i]] \in Seq(R)
  BY <1>1 DEF ToSet
<1>3. parts \in [1..Len(node.items) -> Seq(R)]
  BY <1>1, <1>2
<1>4. parts \in Seq(Seq(R)) /\ Len(parts) = Len(node.items)
  BY <1>1, <1>3, TupleIsSeq
<1>5. \A i \in 1..Len(node.items) : parts[i] = Walk[node.items[i]]
  BY <1>1
<1>6. own \in Seq(R)
  BY DEF OwnDevice
<1>7. \A dev : dev \in ToSet(own) <=> IsDeviceNode(node) /\ dev = MacUsbDevice(node)
  BY DEF OwnDevice, ToSet
<1>8. Walk[node] = own \o FlattenSeq(parts)
  BY WalkRight DEF WalkedBy
<1> HIDE DEF own, parts
<1>9. /\ FlattenSeq(parts) \in Seq(R)
      /\ \A dev : dev \in ToSet(FlattenSeq(parts)) <=>
                  \E i \in 1..Len(parts) : dev \in ToSet(parts[i])
  BY <1>4, FlattenMembers
<1>10. /\ own \o FlattenSeq(parts) \in Seq(R)
       /\ ToSet(own \o FlattenSeq(parts)) = ToSet(own) \cup ToSet(FlattenSeq(parts))
  BY <1>6, <1>9, JoinedMembers
<1>11. ASSUME NEW dev
       PROVE  (\E i \in 1..Len(parts) : dev \in ToSet(parts[i]))
                  <=> \E x \in ToSet(node.items) : dev \in ToSet(Walk[x])
  <2>1. \A x : x \in ToSet(node.items) <=> \E i \in 1..Len(node.items) : x = node.items[i]
    BY <1>1 DEF ToSet
  <2>2. \A i \in 1..Len(parts) : i \in 1..Len(node.items) /\ parts[i] = Walk[node.items[i]]
    BY <1>4, <1>5
  <2>3. \A i \in 1..Len(node.items) : i \in 1..Len(parts)
    BY <1>4
  <2>4. ASSUME NEW i \in 1..Len(parts), dev \in ToSet(parts[i])
        PROVE  \E x \in ToSet(node.items) : dev \in ToSet(Walk[x])
    BY <2>1, <2>2, <2>4
  <2>5. ASSUME NEW x \in ToSet(node.items), dev \in ToSet(Walk[x])
        PROVE  \E i \in 1..Len(parts) : dev \in ToSet(parts[i])
    BY <2>1, <2>2, <2>3, <2>5
  <2> QED
    BY <2>4, <2>5
<1> QED
  BY <1>7, <1>8, <1>9, <1>10, <1>11

LEMMA WalkType == \A node \in TreeNodes : Walk[node] \in Seq(DevicesOf(TreeNodes))
<1> DEFINE R == DevicesOf(TreeNodes)
           bad == {node \in TreeNodes : Walk[node] \notin Seq(R)}
<1>1. CASE bad = {}
  BY <1>1
<1>2. CASE bad # {}
  <2>1. PICK node \in bad : \A x \in ToSet(node.items) : x \in TreeNodes /\ x \notin bad
    BY <1>2, LowestNode
  <2>2. \A x \in ToSet(node.items) : Walk[x] \in Seq(R)
    BY <2>1
  <2>3. node \in TreeNodes /\ Walk[node] \notin Seq(R)
    OBVIOUS
  <2>4. IsDeviceNode(node) => MacUsbDevice(node) \in R
    BY <2>3 DEF DevicesOf
  <2> HIDE DEF R, bad
  <2>5. Walk[node] \in Seq(R)
    BY <2>2, <2>3, <2>4, WalkedMembers
  <2> QED
    BY <2>3, <2>5
<1> QED
  BY <1>1, <1>2

\* A node is below itself, and what is below its items is below it.
LEMMA BelowNode ==
    ASSUME NEW node \in TreeNodes
    PROVE  \A k : k \in Below({node}) <=> k = node \/ \E x \in ToSet(node.items) : k \in Below({x})
<1> DEFINE whole == {node} \cup UNION {Below({x}) : x \in ToSet(node.items)}
<1>1. ToSet(node.items) \subseteq TreeNodes
  BY ItemsAreNodes
<1>2. \A x \in TreeNodes : x \in Below({x}) /\ Below({x}) \subseteq TreeNodes
  BY DEF Below
<1>3. ASSUME NEW x \in TreeNodes, NEW k \in Below({x}), NEW y \in ToSet(k.items)
      PROVE  y \in Below({x})
  <2>1. k \in TreeNodes /\ y \in TreeNodes
    BY <1>2, ItemsAreNodes
  <2> QED
    BY <2>1 DEF Below
<1>4. ASSUME NEW k \in whole PROVE ToSet(k.items) \subseteq whole
  <2>1. CASE k = node
    BY <1>1, <1>2, <2>1
  <2>2. CASE k # node
    <3>1. PICK x \in ToSet(node.items) : k \in Below({x})
      BY <2>2
    <3>2. \A y \in ToSet(k.items) : y \in Below({x})
      BY <1>1, <1>3, <3>1
    <3> QED
      BY <3>2
  <2> QED
    BY <2>1, <2>2
<1>5. whole \in SUBSET TreeNodes /\ {node} \subseteq whole
  BY <1>1, <1>2
<1>6. Below({node}) \subseteq whole
  <2> HIDE DEF whole
  <2> QED
    BY <1>4, <1>5 DEF Below
<1>7. ASSUME NEW k \in whole PROVE k \in Below({node})
  <2>1. CASE k = node
    BY <1>2, <2>1
  <2>2. CASE k # node
    <3>1. PICK x \in ToSet(node.items) : k \in Below({x})
      BY <2>2
    <3>2. ASSUME NEW S \in SUBSET TreeNodes, {node} \subseteq S,
                 \A n \in S : ToSet(n.items) \subseteq S
          PROVE  k \in S
      <4>1. {x} \subseteq S
        BY <3>2
      <4> QED
        BY <3>1, <3>2, <4>1 DEF Below
    <3> QED
      BY <1>5, <3>2 DEF Below
  <2> QED
    BY <2>1, <2>2
<1> QED
  BY <1>6, <1>7

\* walk finds the devices below a node, and nothing else.
LEMMA WalkFinds == \A node \in TreeNodes : ToSet(Walk[node]) = DevicesOf(Below({node}))
<1> DEFINE R == DevicesOf(TreeNodes)
           bad == {node \in TreeNodes : ToSet(Walk[node]) # DevicesOf(Below({node}))}
<1>1. CASE bad = {}
  BY <1>1
<1>2. CASE bad # {}
  <2>1. PICK node \in bad : \A x \in ToSet(node.items) : x \in TreeNodes /\ x \notin bad
    BY <1>2, LowestNode
  <2>2. \A x \in ToSet(node.items) : Walk[x] \in Seq(R)
    BY <2>1, WalkType
  <2>3. node \in TreeNodes /\ ToSet(Walk[node]) # DevicesOf(Below({node}))
    OBVIOUS
  <2>4. IsDeviceNode(node) => MacUsbDevice(node) \in R
    BY <2>3 DEF DevicesOf
  <2>5. \A x \in ToSet(node.items) : ToSet(Walk[x]) = DevicesOf(Below({x}))
    BY <2>1
  <2> HIDE DEF R, bad
  <2>6. \A dev : dev \in ToSet(Walk[node]) <=>
                 \/ IsDeviceNode(node) /\ dev = MacUsbDevice(node)
                 \/ \E x \in ToSet(node.items) : dev \in ToSet(Walk[x])
    BY <2>2, <2>3, <2>4, WalkedMembers
  <2>7. ASSUME NEW dev
        PROVE  dev \in DevicesOf(Below({node})) <=>
                 \/ IsDeviceNode(node) /\ dev = MacUsbDevice(node)
                 \/ \E x \in ToSet(node.items) : dev \in DevicesOf(Below({x}))
    <3>1. \A k : k \in Below({node}) <=> k = node \/ \E x \in ToSet(node.items) : k \in Below({x})
      BY <2>3, BelowNode
    <3> QED
      BY <3>1 DEF DevicesOf
  <2>8. ASSUME NEW dev PROVE dev \in ToSet(Walk[node]) <=> dev \in DevicesOf(Below({node}))
    <3>1. (\E x \in ToSet(node.items) : dev \in ToSet(Walk[x]))
              <=> \E x \in ToSet(node.items) : dev \in DevicesOf(Below({x}))
      BY <2>5
    <3> QED
      BY <2>6, <2>7, <3>1
  <2> QED
    BY <2>3, <2>8
<1> QED
  BY <1>1, <1>2

\* Of some trees, what is below each.
LEMMA BelowTrees ==
    ASSUME NEW T \in SUBSET TreeNodes
    PROVE  \A k : k \in Below(T) <=> \E x \in T : k \in Below({x})
<1> DEFINE whole == UNION {Below({x}) : x \in T}
<1>1. \A x \in TreeNodes : x \in Below({x}) /\ Below({x}) \subseteq TreeNodes
  BY DEF Below
<1>2. ASSUME NEW k \in whole, NEW y \in ToSet(k.items) PROVE y \in whole
  <2>1. PICK x \in T : k \in Below({x})
    OBVIOUS
  <2>2. k \in TreeNodes /\ y \in TreeNodes
    BY <1>1, <2>1, ItemsAreNodes
  <2>3. y \in Below({x})
    BY <2>1, <2>2 DEF Below
  <2> QED
    BY <2>3
<1>3. whole \in SUBSET TreeNodes /\ T \subseteq whole
  BY <1>1
<1>4. Below(T) \subseteq whole
  <2>1. \A k \in whole : ToSet(k.items) \subseteq whole
    BY <1>2
  <2> HIDE DEF whole
  <2> QED
    BY <1>3, <2>1 DEF Below
<1>5. ASSUME NEW x \in T, NEW k \in Below({x}) PROVE k \in Below(T)
  BY DEF Below
<1> QED
  BY <1>4, <1>5

\* The devices of a capture are those below its trees.
LEMMA ProfilerFinds ==
    ASSUME NEW trees, IsList(trees), ToSet(trees) \subseteq TreeNodes
    PROVE  /\ SystemProfilerDevices(trees) \in Seq(DevicesOf(TreeNodes))
           /\ ToSet(SystemProfilerDevices(trees)) = DevicesOf(Below(ToSet(trees)))
<1> DEFINE parts == [i \in DOMAIN trees |-> Walk[trees[i]]]
           R == DevicesOf(TreeNodes)
<1>1. Len(trees) \in Nat /\ DOMAIN trees = 1..Len(trees)
  BY DEF IsList
<1>2. \A i \in 1..Len(trees) : trees[i] \in ToSet(trees) /\ trees[i] \in TreeNodes
  BY <1>1 DEF ToSet
<1>3. \A i \in 1..Len(trees) : Walk[trees[i]] \in Seq(R)
  BY <1>2, WalkType
<1> HIDE DEF R
<1>4. parts \in [1..Len(trees) -> Seq(R)]
  BY <1>1, <1>3
<1>5. parts \in Seq(Seq(R)) /\ Len(parts) = Len(trees)
  BY <1>1, <1>4, TupleIsSeq
<1>6. \A i \in 1..Len(trees) : ToSet(parts[i]) = DevicesOf(Below({trees[i]}))
  BY <1>1, <1>2, WalkFinds
<1>7. SystemProfilerDevices(trees) = FlattenSeq(parts)
  BY DEF SystemProfilerDevices
<1> HIDE DEF parts
<1>8. /\ FlattenSeq(parts) \in Seq(R)
      /\ \A dev : dev \in ToSet(FlattenSeq(parts)) <=>
                  \E i \in 1..Len(parts) : dev \in ToSet(parts[i])
  BY <1>5, FlattenMembers
<1>9. \A node : node \in Below(ToSet(trees)) <=> \E i \in 1..Len(trees) : node \in Below({trees[i]})
  <2>1. ToSet(trees) \in SUBSET TreeNodes
    OBVIOUS
  <2>2. \A x : x \in ToSet(trees) <=> \E i \in 1..Len(trees) : x = trees[i]
    BY <1>1 DEF ToSet
  <2>3. PICK T \in SUBSET TreeNodes : T = ToSet(trees)
    BY <2>1
  <2>4. \A node : node \in Below(T) <=> \E x \in T : node \in Below({x})
    BY BelowTrees
  <2> QED
    BY <2>2, <2>3, <2>4
<1>10. ASSUME NEW dev
       PROVE  dev \in DevicesOf(Below(ToSet(trees)))
                  <=> \E i \in 1..Len(trees) : dev \in DevicesOf(Below({trees[i]}))
  BY <1>9 DEF DevicesOf
<1>11. ASSUME NEW dev
       PROVE  dev \in ToSet(FlattenSeq(parts)) <=> dev \in DevicesOf(Below(ToSet(trees)))
  <2>1. (\E i \in 1..Len(parts) : dev \in ToSet(parts[i]))
            <=> \E i \in 1..Len(trees) : dev \in DevicesOf(Below({trees[i]}))
    BY <1>5, <1>6
  <2> QED
    BY <1>8, <1>10, <2>1
<1> QED
  BY <1>7, <1>8, <1>11 DEF R

-----------------------------------------------------------------------------
(***************************************************************************)
(* What is ingested.  Records are told apart by places: of their file in   *)
(* the list, and of their own in the file.                                 *)
(***************************************************************************)
\* The places of two records are compared as their files are, then as they are.
LEMMA PlacesCompared ==
    ASSUME NEW r, NEW q, r.file \in Int, q.file \in Int
    PROVE  /\ r.file < q.file => Before(Place(r), Place(q))
           /\ r.file = q.file /\ r.nr \in Int /\ q.nr \in Int /\ r.nr < q.nr
                => Before(Place(r), Place(q))
<1>1. /\ DOMAIN Place(r) = 1..2
      /\ Place(r)[1] = r.file /\ Place(r)[2] = r.nr
      /\ Place(q)[1] = q.file /\ Place(q)[2] = q.nr
  BY DEF Place
<1>2. ASSUME r.file < q.file PROVE Before(Place(r), Place(q))
  <2>1. 1 \in DOMAIN Place(r) /\ 1..(1 - 1) = {}
    BY <1>1
  <2> QED
    BY <1>1, <1>2, <2>1 DEF Before
<1>3. ASSUME r.file = q.file, r.nr < q.nr, r.nr \in Int, q.nr \in Int
      PROVE  Before(Place(r), Place(q))
  <2>1. 2 \in DOMAIN Place(r) /\ 1..(2 - 1) = {1}
    BY <1>1
  <2> QED
    BY <1>1, <1>3, <2>1 DEF Before
<1> QED
  BY <1>2, <1>3

\* Every reader makes a list of what a file holds.
LEMMA DecodedLists ==
    ASSUME NEW path \in Paths, NEW o \in Origin
    PROVE  \E n \in Nat : DOMAIN Decoded[path][o] = 1..n
<1> DEFINE raw == FileAt[path].holds[o]
<1>1. IsList(raw)
  BY IngestAssumption
<1>2. Len(raw) \in Nat /\ DOMAIN raw = 1..Len(raw)
  BY <1>1 DEF IsList
<1>3. Decoded[path][o] =
        CASE o = "kernel_pnp" -> KernelPnpEvents(raw)
          [] o = "driver_framework" -> DriverFrameworkEvents(raw)
          [] o = "mac_log" -> UnifiedLogEvents(raw)
          [] o = "mac_usb" -> SystemProfilerDevices(raw)
          [] o = "apple_devices" -> IPodDevices(raw)
          [] OTHER -> raw
  BY DEF Decoded
<1>4. ASSUME NEW places \in SUBSET DOMAIN raw
      PROVE  \E n \in Nat : DOMAIN Kept(raw, places) = 1..n
  BY <1>2, KeptMembers
<1>5. CASE o = "kernel_pnp"
  <2> DEFINE places == {i \in DOMAIN raw : IsKernelPnpEvent(raw[i])}
  <2>1. DOMAIN KernelPnpEvents(raw) = DOMAIN Kept(raw, places)
    BY DEF KernelPnpEvents
  <2> QED
    BY <1>3, <1>4, <1>5, <2>1
<1>6. CASE o = "driver_framework"
  <2> DEFINE places == {i \in DOMAIN raw : IsDriverFrameworkEvent(raw[i])}
  <2>1. DOMAIN DriverFrameworkEvents(raw) = DOMAIN Kept(raw, places)
    BY DEF DriverFrameworkEvents
  <2> QED
    BY <1>3, <1>4, <1>6, <2>1
<1>7. CASE o = "mac_log"
  <2> DEFINE places == {i \in DOMAIN raw : IsEnumeration(raw[i])}
  <2>1. DOMAIN UnifiedLogEvents(raw) = DOMAIN Kept(raw, places)
    BY DEF UnifiedLogEvents
  <2> QED
    BY <1>3, <1>4, <1>7, <2>1
<1>8. CASE o = "mac_usb"
  <2>1. Decoded[path][o] = SystemProfilerDevices(FileAt[path].holds["mac_usb"])
    BY <1>3, <1>8
  <2>2. PICK trees : trees = FileAt[path].holds["mac_usb"] /\ IsList(trees) /\ ToSet(trees) \subseteq TreeNodes
    BY <1>8, IngestAssumption
  <2>3. PICK R : SystemProfilerDevices(trees) \in Seq(R)
    BY <2>2, ProfilerFinds
  <2> QED
    BY <2>1, <2>2, <2>3
<1>9. CASE o = "apple_devices"
  <2> DEFINE places == {i \in DOMAIN raw : raw[i].is_dictionary}
  <2>1. DOMAIN IPodDevices(raw) = DOMAIN Kept(raw, places)
    BY DEF IPodDevices
  <2> QED
    BY <1>3, <1>4, <1>9, <2>1
<1>10. CASE o \notin {"kernel_pnp", "driver_framework", "mac_log", "mac_usb", "apple_devices"}
  BY <1>2, <1>3, <1>10
<1> QED
  BY <1>5, <1>6, <1>7, <1>8, <1>9, <1>10

\* A list of records that says what was found in the k-th file.
AsFound(records, k, o) ==
    /\ DOMAIN records = DOMAIN Found(k, o)
    /\ records = [i \in DOMAIN records |-> records[i]]
    /\ \A i \in DOMAIN records :
        records[i].file = k /\ records[i].nr = i /\ records[i].record = Found(k, o)[i].record

LEMMA FoundRight ==
    ASSUME NEW k, paths[k] \in Paths, NEW o \in Origin
    PROVE  AsFound(Found(k, o), k, o) /\ \E n \in Nat : DOMAIN Found(k, o) = 1..n
<1>1. PICK n \in Nat : DOMAIN Decoded[paths[k]][o] = 1..n
  BY DecodedLists
<1> QED
  BY <1>1 DEF Found, AsFound

LEMMA FoundContents ==
    ASSUME NEW k, NEW o, NEW records, AsFound(records, k, o), AsFound(Found(k, o), k, o)
    PROVE  Contents(ToSet(records)) = Contents(ToSet(Found(k, o)))
<1>1. \A i \in DOMAIN records : /\ records[i].file = Found(k, o)[i].file
                                /\ records[i].nr = Found(k, o)[i].nr
                                /\ records[i].record = Found(k, o)[i].record
  BY DEF AsFound
<1>2. DOMAIN records = DOMAIN Found(k, o)
  BY DEF AsFound
<1> QED
  BY <1>1, <1>2 DEF Contents, ToSet

\* A file's records after those of the files before it.
LEMMA FileAppended ==
    ASSUME NEW list, IsList(list), InFileOrder(list), NEW k \in Nat, NEW o, NEW records,
           \A r \in ToSet(list) : r.file \in 1..(k - 1),
           AsFound(records, k, o), NEW n \in Nat, DOMAIN records = 1..n
    PROVE  /\ IsList(list \o records) /\ InFileOrder(list \o records)
           /\ ToSet(list \o records) = ToSet(list) \cup ToSet(records)
<1>1. list \in Seq(ToSet(list)) /\ Len(list) \in Nat /\ DOMAIN list = 1..Len(list)
  BY DEF IsList
<1>2. records \in Seq(ToSet(records)) /\ Len(records) = n
  BY DEF AsFound, ToSet
<1> DEFINE whole == list \o records
<1>3. /\ whole \in Seq(ToSet(list) \cup ToSet(records))
      /\ Len(whole) = Len(list) + n /\ DOMAIN whole = 1..(Len(list) + n)
      /\ \A i \in 1..(Len(list) + n) :
            whole[i] = IF i <= Len(list) THEN list[i] ELSE records[i - Len(list)]
  BY <1>1, <1>2
<1> HIDE DEF whole
<1>4. \A i \in 1..Len(list) : whole[i] = list[i]
  BY <1>1, <1>3
<1>5. \A i \in 1..n : whole[Len(list) + i] = records[i]
  BY <1>1, <1>3
<1>6. ToSet(whole) = ToSet(list) \cup ToSet(records)
  <2>1. ASSUME NEW x \in ToSet(list) PROVE x \in ToSet(whole)
    BY <1>1, <1>3, <1>4 DEF ToSet
  <2>2. ASSUME NEW x \in ToSet(records) PROVE x \in ToSet(whole)
    <3>1. PICK i \in 1..n : x = records[i]
      BY DEF ToSet
    <3>2. Len(list) + i \in DOMAIN whole
      BY <1>1, <1>3
    <3> QED
      BY <1>5, <3>1, <3>2 DEF ToSet
  <2>3. ToSet(whole) \subseteq ToSet(list) \cup ToSet(records)
    <3>1. \A i \in DOMAIN whole : whole[i] \in ToSet(list) \cup ToSet(records)
      BY <1>3
    <3> QED
      BY <3>1 DEF ToSet
  <2> QED
    BY <2>1, <2>2, <2>3
<1>7. IsList(whole)
  BY <1>3, <1>6 DEF IsList
<1>8. ASSUME NEW i \in DOMAIN whole, NEW j \in DOMAIN whole, i < j
      PROVE  Before(Place(whole[i]), Place(whole[j]))
  <2>1. CASE j <= Len(list)
    <3>1. i \in DOMAIN list /\ j \in DOMAIN list
      BY <1>1, <1>3, <1>8, <2>1
    <3> QED
      BY <1>1, <1>4, <1>8, <3>1 DEF InFileOrder
  <2>2. CASE i <= Len(list) /\ ~ (j <= Len(list))
    <3>1. i \in DOMAIN list /\ j - Len(list) \in 1..n
      BY <1>1, <1>3, <1>8, <2>2
    <3>2. whole[i].file \in 1..(k - 1) /\ whole[j].file = k
      BY <1>1, <1>3, <2>2, <3>1 DEF ToSet, AsFound
    <3>3. whole[i].file \in Int /\ whole[i].file < whole[j].file /\ whole[j].file \in Int
      BY <3>2
    <3> QED
      BY <3>3, PlacesCompared
  <2>3. CASE ~ (i <= Len(list))
    <3>1. /\ i - Len(list) \in 1..n /\ j - Len(list) \in 1..n
          /\ whole[i] = records[i - Len(list)] /\ whole[j] = records[j - Len(list)]
      BY <1>1, <1>3, <1>8, <2>3
    <3>2. /\ whole[i].file = k /\ whole[j].file = k
          /\ whole[i].nr = i - Len(list) /\ whole[j].nr = j - Len(list)
      BY <3>1 DEF AsFound
    <3>3. whole[i].nr \in Int /\ whole[j].nr \in Int /\ whole[i].nr < whole[j].nr
      BY <1>1, <1>3, <1>8, <3>1, <3>2
    <3> QED
      BY <3>2, <3>3, PlacesCompared
  <2> QED
    BY <1>3, <2>1, <2>2, <2>3
<1>9. InFileOrder(whole)
  BY <1>8 DEF InFileOrder
<1> QED
  BY <1>6, <1>7, <1>9 DEF whole

-----------------------------------------------------------------------------
\* The initial states satisfy the inductive invariant.
LEMMA InitStage == Init => Stage
<1> SUFFICES ASSUME Init PROVE Stage
  OBVIOUS
<1>1. IsCommandLine(args)
  BY IngestAssumption DEF Init
<1>2. /\ pc = "args" /\ mode = "jsonl" /\ year = None
      /\ paths = <<>> /\ Len(paths) = 0 /\ next = 1 /\ sniffed = None
      /\ gone = {} /\ reported = {}
      /\ ingested = [o \in Origin |-> <<>>]
      /\ output = [shown |-> "nothing", broken |-> FALSE]
  BY DEF Init
<1>3. TypeOK
  <2>1. paths \in Seq(Paths) /\ next \in 1..(Len(paths) + 1)
    BY <1>2
  <2>2. DOMAIN ingested = Origin
    BY <1>2
  <2>3. output \in [shown : {"nothing", "part", "all"}, broken : BOOLEAN]
    BY <1>2
  <2> QED
    BY <1>1, <1>2, <2>1, <2>2, <2>3 DEF TypeOK
<1>4. Reading
  BY <1>2 DEF Reading
<1>5. Progress
  BY <1>2 DEF Progress
<1>6. YearKept
  <2>1. "linux" \in Origin
    BY DEF Origin
  <2>2. ingested["linux"] = <<>>
    BY <1>2, <2>1
  <2>3. <<>> \in Seq(ToSet(<<>>)) /\ DOMAIN ingested["linux"] = {}
    BY <2>2
  <2> QED
    BY <1>2, <2>2, <2>3 DEF YearKept, IsList
<1>7. Written
  BY <1>2 DEF Written
<1> QED
  BY <1>3, <1>4, <1>5, <1>6, <1>7 DEF Stage

\* More file names on stderr take nothing back from a file left behind.
LEMMA HandledStays ==
    ASSUME UNCHANGED <<year>>, reported \subseteq reported', NEW path, Handled(path)
    PROVE  Handled(path)'
BY DEF Handled, Damaged, Recognised

\* A record list that grows by records of other origins keeps its syslogs.
LEMMA YearUntouched ==
    ASSUME YearKept, UNCHANGED <<args, year>>,
           ingested'["linux"] = ingested["linux"]
    PROVE  YearKept'
BY DEF YearKept

\* Extended adds nothing to an origin that is not asked for.
LEMMA ExtendedElsewhere ==
    ASSUME YearKept, NEW origins, "linux" \notin origins
    PROVE  /\ DOMAIN Extended(origins) = Origin
           /\ Extended(origins)["linux"] = ingested["linux"]
<1>1. "linux" \in Origin
  BY DEF Origin
<1>2. ingested["linux"] \in Seq(ToSet(ingested["linux"]))
  BY DEF YearKept, IsList
<1>3. Extended(origins)["linux"] = ingested["linux"] \o <<>>
  BY <1>1 DEF Extended
<1> QED
  BY <1>2, <1>3 DEF Extended

\* The file at hand is one of those given.
LEMMA CurrentPath ==
    ASSUME TypeOK, next <= Len(paths)
    PROVE  Len(paths) \in Nat /\ next \in 1..Len(paths) /\ Path \in Paths
<1>1. paths \in Seq(Paths) /\ next \in 1..(Len(paths) + 1)
  BY DEF TypeOK
<1>2. Len(paths) \in Nat
  BY <1>1
<1> QED
  BY <1>1, <1>2 DEF Path

\* A step that leaves the file behind preserves the invariant, when a file it
\* could make nothing of is named and no syslog passes without a year.
LEMMA NextFileKeeps ==
    ASSUME Stage, sniffed # None, NextFile,
           UNCHANGED <<args, pc, mode, tz, year, paths, gone, output>>,
           reported' \in {reported, reported \cup {Path}},
           DOMAIN ingested' = Origin, YearKept',
           Recognised => /\ File.kind = "syslog" => year # None
                         /\ Damaged(Path) => Path \in reported'
    PROVE  Stage'
<1> USE DEF Stage
<1>1. /\ pc = "ingest" /\ next <= Len(paths) /\ File.readable
      /\ Len(paths) \in Nat /\ next \in 1..Len(paths) /\ Path \in Paths
  BY CurrentPath DEF Reading
<1>2. next' = next + 1 /\ sniffed' = None /\ reported \subseteq reported'
  BY DEF NextFile
<1>3. TypeOK'
  BY <1>1, <1>2 DEF TypeOK
<1>4. Reading'
  BY <1>2 DEF Reading
<1>5. Progress'
  <2>1. ASSUME NEW k \in 1..next PROVE Handled(paths[k])'
    <3>1. CASE k = next
      BY <1>1, <3>1 DEF Handled, File, Path, Damaged, Recognised
    <3>2. CASE k # next
      <4>1. k \in 1..(next - 1)
        BY <1>1, <3>2
      <4>2. Handled(paths[k])
        BY <4>1 DEF Progress
      <4> QED
        BY <1>2, <4>2, HandledStays
    <3> QED
      BY <3>1, <3>2
  <2>2. next' - 1 = next
    BY <1>1, <1>2
  <2> QED
    BY <1>1, <2>1, <2>2 DEF Progress
<1>6. Written'
  BY DEF Written
<1> QED
  BY <1>3, <1>4, <1>5, <1>6

\* Skip names the file.
LEMMA SkipKeeps ==
    ASSUME Stage, sniffed # None, Skip, UNCHANGED output, Recognised => File.kind # "syslog"
    PROVE  Stage'
<1>1. YearKept'
  BY YearUntouched DEF Stage, Skip
<1> QED
  BY <1>1, NextFileKeeps DEF Stage, Skip, TypeOK

\* Take is for files that are intact, or that hold nothing to damage.
LEMMA TakeKeeps ==
    ASSUME Stage, sniffed # None, NEW origins, "linux" \notin origins,
           Take(origins), UNCHANGED output,
           Recognised => File.kind # "syslog" /\ ~ Damaged(Path)
    PROVE  Stage'
<1>1. DOMAIN ingested' = Origin /\ ingested'["linux"] = ingested["linux"]
  BY ExtendedElsewhere DEF Stage, Take
<1>2. YearKept'
  BY <1>1, YearUntouched DEF Stage, Take
<1> QED
  BY <1>1, <1>2, NextFileKeeps DEF Stage, Take

\* A step within one file preserves the invariant.
LEMMA SameFileKeeps ==
    ASSUME Stage, sniffed' # None, pc = "ingest", next <= Len(paths), File.readable,
           UNCHANGED <<args, pc, mode, tz, year, paths, next, gone, output>>,
           reported' \in {reported, reported \cup {Path}},
           sniffed' \in Reader,
           IF sniffed' \in {"evtx pnp", "evtx umdf"}
           THEN Sniff(File.markers) = "evtx" /\ (File.intact \/ Path \in reported')
           ELSE sniffed' = Sniff(File.markers),
           DOMAIN ingested' = Origin, ingested'["linux"] = ingested["linux"]
    PROVE  Stage'
<1> USE DEF Stage
<1>1. Len(paths) \in Nat /\ next \in 1..Len(paths) /\ Path \in Paths
  BY CurrentPath
<1>2. TypeOK'
  BY <1>1 DEF TypeOK
<1>3. Reading'
  BY DEF Reading, File, Path
<1>4. Progress'
  <2>1. ASSUME NEW k \in 1..(next - 1) PROVE Handled(paths[k])'
    BY HandledStays DEF Progress
  <2> QED
    BY <2>1 DEF Progress
<1>5. YearKept'
  BY YearUntouched
<1>6. Written'
  BY DEF Written
<1> QED
  BY <1>2, <1>3, <1>4, <1>5, <1>6
-----------------------------------------------------------------------------
\* A sequence is one of its own elements.
LEMMA SequenceIsList ==
    ASSUME NEW T, NEW list \in Seq(T)
    PROVE  IsList(list)
<1>1. Len(list) \in Nat /\ list \in [1..Len(list) -> T]
  OBVIOUS
<1>2. \A i \in 1..Len(list) : list[i] \in ToSet(list)
  BY <1>1 DEF ToSet
<1>3. list \in [1..Len(list) -> ToSet(list)]
  BY <1>1, <1>2
<1> QED
  BY <1>1, <1>3 DEF IsList

\* What is known while a file is being read; when the markers tell the kinds
\* apart, it is of the kind it is taken for.
LEMMA WhileReading ==
    ASSUME Stage, sniffed # None
    PROVE  /\ pc = "ingest" /\ next <= Len(paths) /\ File.readable /\ Path \in Paths
           /\ Recognised /\ sniffed \notin {"evtx pnp", "evtx umdf"} => File.kind = sniffed
           /\ sniffed \in {"evtx pnp", "evtx umdf"} =>
                /\ Sniff(File.markers) = "evtx" /\ (File.intact \/ Path \in reported)
                /\ Recognised => File.kind = "evtx"
<1>1. pc = "ingest" /\ next <= Len(paths) /\ File.readable
  BY DEF Stage, Reading
<1>2. Path \in Paths
  BY <1>1, CurrentPath DEF Stage
<1>3. Recognised => Sniff(File.markers) = File.kind
  BY <1>1, <1>2 DEF Recognised, File
<1> QED
  BY <1>1, <1>2, <1>3 DEF Stage, Reading

\* No kind is an absent one.
LEMMA KindsAreThere ==
    /\ None \notin Kind
    /\ "evtx pnp" # None /\ "evtx umdf" # None
    /\ Kind \cap {"evtx pnp", "evtx umdf"} = {}
    /\ Kind \subseteq Reader /\ {"evtx pnp", "evtx umdf"} \subseteq Reader
    /\ Kind = {"compound", "link", "hive", "unified_log", "profiler", "plist", "e01",
                "boot", "evtx", "syslog", "setupapi"}
<1>1. Kind = {"compound", "link", "hive", "unified_log", "profiler", "plist", "e01",
              "boot", "evtx", "syslog", "setupapi"}
  BY DEF Kind, Marker
<1> QED
  BY <1>1, IngestAssumption DEF Reader

\* The steps of main before the first file.
LEMMA MainKeeps ==
    ASSUME Stage, ShowVersion \/ ShowUsage \/ ParseArgs, UNCHANGED output
    PROVE  Stage'
<1> USE DEF Stage
<1>1. pc = "args" /\ paths = <<>> /\ sniffed = None
  BY DEF ShowVersion, ShowUsage, ParseArgs, Progress
<1>2. paths \in Seq(Paths) /\ Len(paths) = 0 /\ next = 1
  BY <1>1 DEF TypeOK
<1>3. CASE ShowVersion \/ ShowUsage
  <2>1. /\ UNCHANGED <<args, mode, tz, year, paths, next, sniffed, gone, ingested, reported>>
        /\ pc' \in {"done", "failed"}
    BY <1>3 DEF ShowVersion, ShowUsage
  <2>2. TypeOK'
    BY <2>1 DEF TypeOK
  <2>3. Reading'
    BY <1>1, <2>1 DEF Reading
  <2>4. Progress'
    BY <1>1, <1>2, <2>1 DEF Progress
  <2>5. YearKept'
    BY <2>1, YearUntouched
  <2>6. Written'
    BY <1>1, <2>1 DEF Written
  <2> QED
    BY <2>2, <2>3, <2>4, <2>5, <2>6
<1>4. CASE ParseArgs
  <2>1. /\ UNCHANGED <<args, next, sniffed, gone, ingested, reported>>
        /\ pc' = "ingest" /\ mode' = ChosenMode /\ paths' = GivenPaths
        /\ year' = FirstParsed("year")
    BY <1>4 DEF ParseArgs
  <2>2. TypeOK'
    <3>1. paths' \in Seq(Paths) /\ IsCommandLine(args')
      BY <2>1, GivenArePaths DEF TypeOK
    <3>2. Len(paths') \in Nat /\ next' \in 1..(Len(paths') + 1)
      BY <1>2, <2>1, <3>1
    <3>3. mode' \in ToSet(ModeOrder) \cup {"jsonl"}
      BY <2>1, ModeChosen
    <3> QED
      BY <2>1, <3>1, <3>2, <3>3 DEF TypeOK
  <2>3. Reading'
    BY <1>1, <2>1 DEF Reading
  <2>4. Progress'
    BY <1>2, <2>1 DEF Progress
  <2>5. YearKept'
    <3>1. DOMAIN ingested["linux"] = {} \/ year # None
      BY DEF YearKept
    <3>2. year = None
      BY <1>1 DEF Progress
    <3>3. year' # None => \E k \in DOMAIN args :
                args[k].name = "year" /\ args[k].value = year'
      BY <2>1, ParsedWasGiven DEF TypeOK
    <3> QED
      BY <2>1, <3>1, <3>2, <3>3 DEF YearKept
  <2>6. Written'
    BY <1>1, <2>1 DEF Written
  <2> QED
    BY <2>2, <2>3, <2>4, <2>5, <2>6
<1> QED
  BY <1>3, <1>4

\* A file is opened: it cannot be read, or is taken for one of the kinds.
LEMMA OpenKeeps ==
    ASSUME Stage, CannotRead \/ ReadFile, UNCHANGED output
    PROVE  Stage'
<1>1. /\ pc = "ingest" /\ next <= Len(paths) /\ sniffed = None
      /\ Path \in Paths /\ next \in 1..Len(paths) /\ Path \in ToSet(paths)
  <2>1. pc = "ingest" /\ next <= Len(paths) /\ sniffed = None
    BY DEF CannotRead, ReadFile
  <2>2. Path \in Paths /\ next \in 1..Len(paths)
    BY <2>1, CurrentPath DEF Stage
  <2>3. DOMAIN paths = 1..Len(paths)
    BY DEF Stage, TypeOK
  <2> QED
    BY <2>1, <2>2, <2>3 DEF Path, ToSet
<1>2. CASE CannotRead
  <2> USE DEF Stage
  <2>1. /\ UNCHANGED <<args, mode, tz, year, paths, next, sniffed, gone, ingested>>
        /\ pc' = "failed" /\ reported' = reported \cup {Path} /\ ~ There
    BY <1>2 DEF CannotRead
  <2>2. TypeOK'
    BY <1>1, <2>1 DEF TypeOK
  <2>3. Reading'
    BY <1>1, <2>1 DEF Reading
  <2>4. Progress'
    <3>1. ASSUME NEW k \in 1..(next - 1) PROVE Handled(paths[k])'
      BY <2>1, HandledStays DEF Progress
    <3>2. PICK p : p = Path
      OBVIOUS
    <3>3. Fatal(p)' /\ p \in reported' /\ p \in ToSet(paths')
      BY <1>1, <2>1, <3>2 DEF Fatal, There, File
    <3>4. \E path \in ToSet(paths') : Fatal(path)' /\ path \in reported'
      BY <3>3
    <3> QED
      BY <2>1, <3>1, <3>4 DEF Progress
  <2>5. YearKept'
    BY <2>1, YearUntouched
  <2>6. Written'
    BY <1>1, <2>1 DEF Written
  <2> QED
    BY <2>2, <2>3, <2>4, <2>5, <2>6
<1>3. CASE ReadFile
  <2>1. /\ UNCHANGED <<args, pc, mode, tz, year, paths, next, gone, ingested, reported>>
        /\ sniffed' = Sniff(File.markers) /\ There
    BY <1>3 DEF ReadFile
  <2>2. sniffed' \in Kind
    BY <2>1, SniffIsKind
  <2>3. sniffed' # None /\ sniffed' \in Reader /\ sniffed' \notin {"evtx pnp", "evtx umdf"}
    BY <2>2, KindsAreThere
  <2>4. File.readable /\ DOMAIN ingested' = Origin
    BY <2>1 DEF There, Stage, TypeOK
  <2> QED
    BY <1>1, <2>1, <2>3, <2>4, SameFileKeeps
<1> QED
  BY <1>2, <1>3
\* The readers of whole files: what they cannot make sense of they name.
LEMMA ReaderKeeps ==
    ASSUME Stage, UNCHANGED output,
           \/ IngestJumpList \/ IngestLink \/ IngestHive
           \/ IngestUnifiedLog \/ IngestProfiler \/ IngestPlist
           \/ IngestE01 \/ IngestImage \/ IngestSetupApi
    PROVE  Stage'
<1> DEFINE wholes == {{"jumplists"}, {"lnk"}, HiveOrigins, {"mac_log"}, {"mac_usb"},
                      {"apple_devices"}, {"device_images"}, {"setupapi"}}
<1>1. \A origins \in wholes : "linux" \notin origins
  BY DEF HiveOrigins
<1>2. sniffed \in Kind \ {"syslog", "evtx"}
  BY KindsAreThere DEF IngestJumpList, IngestLink, IngestHive, IngestUnifiedLog,
        IngestProfiler, IngestPlist, IngestE01, IngestImage, IngestSetupApi, IngestCapture
<1>3. sniffed # None /\ sniffed \notin {"evtx pnp", "evtx umdf"}
  BY <1>2, KindsAreThere
<1>4. Recognised => File.kind = sniffed
  BY <1>3, WhileReading
<1>5. \/ Skip
      \/ \E origins \in wholes : Take(origins) /\ (File.intact \/ sniffed = "setupapi")
  BY DEF IngestJumpList, IngestLink, IngestHive, IngestUnifiedLog,
         IngestProfiler, IngestPlist, IngestE01, IngestImage, IngestSetupApi, IngestCapture
<1> HIDE DEF wholes
<1>6. CASE Skip
  BY <1>2, <1>3, <1>4, <1>6, SkipKeeps
<1>7. ASSUME NEW origins \in wholes, Take(origins), File.intact \/ sniffed = "setupapi"
      PROVE  Stage'
  <2>1. "setupapi" \notin Marker
    BY DEF Marker
  <2>2. Recognised => File.kind # "syslog" /\ ~ Damaged(Path)
    BY <1>2, <1>4, <1>7, <2>1 DEF Damaged, File
  <2> QED
    BY <1>1, <1>3, <1>7, <2>2, TakeKeeps
<1> QED
  BY <1>5, <1>6, <1>7

\* The three readers of an event log.
LEMMA EventLogKeeps ==
    ASSUME Stage, UNCHANGED output,
           IngestPartitionDiag \/ IngestKernelPnp \/ IngestDriverFramework
    PROVE  Stage'
<1>1. "linux" \notin LogOrigins /\ "evtx" \in Kind
  BY KindsAreThere DEF LogOrigins
<1>2. sniffed \in {"evtx", "evtx pnp", "evtx umdf"} /\ sniffed # None
  BY <1>1, KindsAreThere DEF IngestPartitionDiag, IngestKernelPnp, IngestDriverFramework
<1>3. /\ pc = "ingest" /\ next <= Len(paths) /\ File.readable /\ Path \in Paths
      /\ Sniff(File.markers) = "evtx"
      /\ Recognised => File.kind = "evtx"
  BY <1>2, WhileReading, KindsAreThere DEF Stage, Reading
<1>4. \A o \in LogOrigins : DOMAIN Extended({o}) = Origin
                           /\ Extended({o})["linux"] = ingested["linux"]
  <2>1. ASSUME NEW o \in LogOrigins PROVE "linux" \notin {o}
    BY <1>1
  <2> QED
    BY <2>1, ExtendedElsewhere DEF Stage
<1>5. DOMAIN ingested = Origin
  BY DEF Stage, TypeOK
<1>6. {"partition_diag", "kernel_pnp", "driver_framework"} = LogOrigins
  BY DEF LogOrigins
<1>7. CASE IngestPartitionDiag
  <2>1. /\ UNCHANGED <<args, pc, mode, tz, year, paths, next, gone>>
        /\ sniffed' = "evtx pnp"
        /\ reported' \in {reported, reported \cup {Path}}
        /\ File.intact \/ Path \in reported'
        /\ DOMAIN ingested' = Origin /\ ingested'["linux"] = ingested["linux"]
    BY <1>4, <1>5, <1>6, <1>7 DEF IngestPartitionDiag
  <2>2. sniffed' # None /\ sniffed' \in Reader /\ sniffed' \in {"evtx pnp", "evtx umdf"}
    BY <2>1, KindsAreThere
  <2> QED
    BY <1>3, <2>1, <2>2, SameFileKeeps
<1>8. CASE IngestKernelPnp
  <2>1. /\ UNCHANGED <<args, pc, mode, tz, year, paths, next, gone, reported>>
        /\ sniffed = "evtx pnp" /\ sniffed' = "evtx umdf"
        /\ DOMAIN ingested' = Origin /\ ingested'["linux"] = ingested["linux"]
    BY <1>4, <1>5, <1>6, <1>8 DEF IngestKernelPnp
  <2>2. sniffed' # None /\ sniffed' \in Reader /\ sniffed' \in {"evtx pnp", "evtx umdf"}
    BY <2>1, KindsAreThere
  <2>3. File.intact \/ Path \in reported
    BY <1>2, <2>1, WhileReading
  <2> QED
    BY <1>3, <2>1, <2>2, <2>3, SameFileKeeps
<1>9. CASE IngestDriverFramework
  <2>1. /\ UNCHANGED <<args, pc, mode, tz, year, paths, gone, reported>>
        /\ sniffed = "evtx umdf" /\ NextFile
        /\ DOMAIN ingested' = Origin /\ ingested'["linux"] = ingested["linux"]
    BY <1>4, <1>5, <1>6, <1>9 DEF IngestDriverFramework
  <2>2. File.intact \/ Path \in reported
    BY <1>2, <2>1, WhileReading
  <2>3. Recognised => /\ File.kind = "syslog" => year # None
                      /\ Damaged(Path) => Path \in reported'
    BY <1>3, <2>1, <2>2 DEF Damaged, File
  <2>4. YearKept'
    BY <2>1, YearUntouched DEF Stage
  <2> QED
    BY <1>2, <2>1, <2>3, <2>4, NextFileKeeps
<1> QED
  BY <1>7, <1>8, <1>9

\* A syslog is read for the year given, and ends the run when none is.
LEMMA SyslogKeeps ==
    ASSUME Stage, UNCHANGED output, NoYear \/ IngestSyslog
    PROVE  Stage'
<1>1. sniffed = "syslog" /\ sniffed # None /\ sniffed \notin {"evtx pnp", "evtx umdf"}
  BY KindsAreThere DEF NoYear, IngestSyslog
<1>2. /\ pc = "ingest" /\ next <= Len(paths) /\ Path \in Paths
      /\ Recognised => File.kind = "syslog"
      /\ next \in 1..Len(paths)
  BY <1>1, WhileReading, CurrentPath DEF Stage
<1>3. CASE NoYear
  <2> USE DEF Stage
  <2>1. /\ UNCHANGED <<args, mode, tz, year, paths, next, gone, ingested>>
        /\ pc' = "failed" /\ sniffed' = None /\ reported' = reported \cup {Path} /\ year = None
    BY <1>3 DEF NoYear
  <2>2. TypeOK'
    BY <1>2, <2>1 DEF TypeOK
  <2>3. Reading'
    BY <2>1 DEF Reading
  <2>4. Progress'
    <3>1. ASSUME NEW k \in 1..(next - 1) PROVE Handled(paths[k])'
      BY <2>1, HandledStays DEF Progress
    <3>2. PICK p : p = Path
      OBVIOUS
    <3>3. p \in ToSet(paths)
      <4>1. DOMAIN paths = 1..Len(paths)
        BY DEF TypeOK
      <4> QED
        BY <1>2, <3>2, <4>1 DEF Path, ToSet
    <3>4. Recognised => Fatal(p)'
      BY <1>2, <2>1, <3>2 DEF Fatal, File
    <3>5. Recognised => \E path \in ToSet(paths') : Fatal(path)' /\ path \in reported'
      BY <2>1, <3>2, <3>3, <3>4
    <3> QED
      BY <2>1, <3>1, <3>5 DEF Progress, Recognised
  <2>5. YearKept'
    BY <2>1, YearUntouched
  <2>6. Written'
    BY <1>2, <2>1 DEF Written
  <2> QED
    BY <2>2, <2>3, <2>4, <2>5, <2>6
<1>4. CASE IngestSyslog
  <2> DEFINE before == ingested["linux"]
             found == Found(next, "linux")
             dated == [i \in DOMAIN found |->
                        [file |-> next, nr |-> i, year |-> year, record |-> found[i].record]]
  <2>1. /\ UNCHANGED <<args, pc, mode, tz, year, paths, gone, reported>>
        /\ NextFile /\ year # None
        /\ ingested' = [ingested EXCEPT !["linux"] = before \o dated]
    BY <1>4 DEF IngestSyslog
  <2>2. DOMAIN ingested = Origin /\ "linux" \in Origin
    BY DEF Stage, TypeOK, Origin
  <2>3. DOMAIN ingested' = Origin /\ ingested'["linux"] = before \o dated
    BY <2>1, <2>2
  <2>4. before \in Seq(ToSet(before))
        /\ \A i \in DOMAIN before : "year" \in DOMAIN before[i] /\ before[i].year = year
    BY DEF Stage, YearKept, IsList
  <2>5. AsFound(found, next, "linux")
    BY <1>2, <2>2, FoundRight DEF Path
  <2>6. PICK n \in Nat : DOMAIN found = 1..n
    BY <1>2, <2>2, FoundRight DEF Path
  <2> HIDE DEF found, before
  <2>7. \A i \in 1..n : "year" \in DOMAIN dated[i] /\ dated[i].year = year
    BY <2>6
  <2>8. dated \in Seq(ToSet(dated)) /\ Len(dated) = n /\ DOMAIN dated = 1..n
    BY <2>6 DEF ToSet
  <2> HIDE DEF dated
  <2>9. /\ before \o dated \in Seq(ToSet(before) \cup ToSet(dated))
        /\ DOMAIN (before \o dated) = 1..(Len(before) + n)
        /\ Len(before) \in Nat /\ DOMAIN before = 1..Len(before)
        /\ \A i \in 1..(Len(before) + n) :
              (before \o dated)[i] = IF i <= Len(before) THEN before[i] ELSE dated[i - Len(before)]
    BY <2>4, <2>8
  <2>10. IsList(before \o dated)
    BY <2>9, SequenceIsList
  <2>11. ASSUME NEW i \in DOMAIN (before \o dated)
         PROVE  /\ "year" \in DOMAIN (before \o dated)[i]
                /\ (before \o dated)[i].year = year
    <3>1. CASE i <= Len(before)
      BY <2>4, <2>9, <3>1
    <3>2. CASE ~ (i <= Len(before))
      <4>1. i - Len(before) \in 1..n
        BY <2>9, <3>2
      <4> QED
        BY <2>7, <2>9, <3>2, <4>1
    <3> QED
      BY <3>1, <3>2
  <2>12. YearKept'
    <3>1. year # None => \E k \in DOMAIN args : args[k].name = "year" /\ args[k].value = year
      BY DEF Stage, YearKept
    <3> QED
      BY <2>1, <2>3, <2>10, <2>11, <3>1 DEF YearKept
  <2>13. "syslog" \notin Marker
    BY DEF Marker
  <2>14. Recognised => ~ Damaged(Path)
    BY <1>2, <2>13 DEF Damaged, File
  <2> QED
    BY <1>1, <2>1, <2>3, <2>12, <2>14, NextFileKeeps
<1> QED
  BY <1>3, <1>4

\* The end of the list, and the writing of the output.
LEMMA WriteKeeps ==
    ASSUME Stage,
           \/ IngestEnd /\ UNCHANGED output
           \/ WriteAll \/ WriteFails \/ WriteDocx \/ FlushAtExit
    PROVE  Stage'
<1> USE DEF Stage
<1>1. /\ UNCHANGED <<args, mode, tz, year, paths, next, sniffed, gone, ingested, reported>>
      /\ pc \in {"ingest", "write", "exit"} /\ pc' \in {"write", "exit", "done", "aborted"}
      /\ pc = "ingest" => next > Len(paths)
  BY DEF IngestEnd, WriteAll, WriteFails, WriteDocx, FlushAtExit, inputVars
<1>2. sniffed = None
  <2>1. next \in 1..(Len(paths) + 1) /\ Len(paths) \in Nat
    BY DEF TypeOK
  <2>2. ASSUME sniffed # None PROVE FALSE
    <3>1. pc = "ingest" /\ next <= Len(paths)
      BY <2>2 DEF Reading
    <3> QED
      BY <1>1, <2>1, <3>1
  <2> QED
    BY <2>2
<1>3. pc = "ingest" => next = Len(paths) + 1
  <2>1. next \in 1..(Len(paths) + 1) /\ Len(paths) \in Nat
    BY DEF TypeOK
  <2> QED
    BY <1>1, <2>1
<1>4. /\ output' \in [shown : {"nothing", "part", "all"}, broken : BOOLEAN]
      /\ Written'
  <2>1. output \in [shown : {"nothing", "part", "all"}, broken : BOOLEAN]
    BY DEF TypeOK
  <2>2. CASE IngestEnd /\ UNCHANGED output
    BY <2>1, <2>2 DEF IngestEnd, Written
  <2>3. CASE WriteAll
    BY <2>1, <2>3, <1>1 DEF WriteAll, Written
  <2>4. CASE WriteFails
    BY <2>1, <2>4, <1>1 DEF WriteFails, Written
  <2>5. CASE WriteDocx
    BY <2>1, <2>5, <1>1 DEF WriteDocx, Written
  <2>6. CASE FlushAtExit
    BY <2>1, <2>6, <1>1 DEF FlushAtExit, Written
  <2> QED
    BY <2>2, <2>3, <2>4, <2>5, <2>6
<1>5. TypeOK'
  BY <1>1, <1>4 DEF TypeOK
<1>6. Reading'
  BY <1>1, <1>2 DEF Reading
<1>7. Progress'
  <2>1. ASSUME NEW k \in 1..(next - 1) PROVE Handled(paths[k])'
    BY <1>1, HandledStays DEF Progress
  <2> QED
    BY <1>1, <1>3, <2>1 DEF Progress
<1>8. YearKept'
  BY <1>1, YearUntouched
<1> QED
  BY <1>4, <1>5, <1>6, <1>7, <1>8

\* The environment takes files away and breaks the output.
LEMMA EnvironmentKeeps ==
    ASSUME Stage, Environment \/ UNCHANGED vars
    PROVE  Stage'
<1> USE DEF Stage
<1>1. /\ UNCHANGED <<args, pc, mode, tz, year, paths, next, sniffed, ingested, reported>>
      /\ gone' = gone \/ (pc = "ingest" /\ gone' \subseteq Fragile)
      /\ \/ output' = output
         \/ pc \in {"write", "exit"} /\ output' = [output EXCEPT !.broken = TRUE]
  BY DEF Environment, Vanish, BreakOutput, vars, inputVars, TypeOK
<1>2. /\ output' \in [shown : {"nothing", "part", "all"}, broken : BOOLEAN]
      /\ output'.shown = output.shown
  BY <1>1 DEF TypeOK
<1>3. TypeOK'
  BY <1>1, <1>2 DEF TypeOK
<1>4. Reading'
  BY <1>1 DEF Reading, File, Path
<1>5. Progress'
  <2>1. ASSUME NEW k \in 1..(next - 1) PROVE Handled(paths[k])'
    BY <1>1, HandledStays DEF Progress
  <2>2. pc = "failed" => \A path : Fatal(path) => Fatal(path)'
    BY <1>1 DEF Fatal
  <2> QED
    BY <1>1, <2>1, <2>2 DEF Progress, Recognised
<1>6. YearKept'
  BY <1>1, YearUntouched
<1>7. Written'
  BY <1>1, <1>2 DEF Written
<1> QED
  BY <1>3, <1>4, <1>5, <1>6, <1>7

\* Every step preserves the inductive invariant.
LEMMA NextStage == Stage /\ [Next]_vars => Stage'
BY MainKeeps, OpenKeeps, ReaderKeeps, EventLogKeeps, SyslogKeeps, WriteKeeps, EnvironmentKeeps
   DEF Next, Tool, Ingesting

-----------------------------------------------------------------------------
(***************************************************************************)
(* The files are handed to the readers one after the other.                *)
(***************************************************************************)
\* Whether the reader of origin o has the file at hand, or says that it has not; two
\* readers of event logs say nothing.
Told(o) == Path \notin gone \/ (o \notin LateOrigins /\ Path \notin reported')

\* What a step does with the file at hand for the reader of origin o: nothing,
\* when it has nothing for that reader, or what was found is appended.
Given(o) ==
    \/ /\ ingested'[o] = ingested[o]
       /\ Told(o) => Genuine(Sniff(File.markers), next, o) = {}
    \/ \E records :
        /\ AsFound(records, next, o) /\ ingested'[o] = ingested[o] \o records
        /\ Told(o) =>
                Genuine(Sniff(File.markers), next, o) = Contents(ToSet(Found(next, o)))

\* What was filed stays, when an origin is not touched.
LEMMA FiledStays ==
    ASSUME NEW o, NEW n, FiledUpTo(o, n), ingested'[o] = ingested[o], paths' = paths,
           gone \subseteq gone', reported \subseteq reported'
    PROVE  FiledUpTo(o, n)'
<1>1. \A k : Found(k, o)' = Found(k, o) /\ FromFile(o, k)' = FromFile(o, k)
  BY DEF Found, FromFile
<1>2. \A kind, k : Genuine(kind, k, o)' = Genuine(kind, k, o)
  BY <1>1 DEF Genuine
<1>3. \A path : Accounted(o, path)' => Accounted(o, path)
  BY DEF Accounted
<1> QED
  BY <1>1, <1>2, <1>3 DEF FiledUpTo

\* One file more.
LEMMA FileAdded ==
    ASSUME NEW o \in Origin, FiledUpTo(o, next - 1), next \in Nat, next > 0, Path \in Paths,
           UNCHANGED <<paths, gone>>, reported \subseteq reported', Given(o), NEW n, n = next
    PROVE  FiledUpTo(o, n)'
<1>1. /\ IsList(ingested[o]) /\ InFileOrder(ingested[o])
      /\ \A r \in ToSet(ingested[o]) :
            r.file \in 1..(n - 1) /\ Contents({r}) \subseteq Contents(ToSet(Found(r.file, o)))
      /\ \A k \in 1..(n - 1) : Accounted(o, paths[k])' =>
            Contents(FromFile(o, k)) = Genuine(Sniff(FileAt[paths[k]].markers), k, o)
  <2>1. \A path : Accounted(o, path)' => Accounted(o, path)
    BY DEF Accounted
  <2> QED
    BY <2>1 DEF FiledUpTo
<1>2. n \in Nat /\ n > 0 /\ \A x \in 1..(n - 1) : x \in 1..n /\ x # n
  OBVIOUS
<1>3. \A r \in ToSet(ingested[o]) : r.file \in 1..n /\ r.file # n
  BY <1>1, <1>2
<1>4. \A k : Found(k, o)' = Found(k, o)
  BY DEF Found
<1>5. \A kind, k : Genuine(kind, k, o)' = Genuine(kind, k, o)
  BY <1>4 DEF Genuine
<1>6. AsFound(Found(n, o), n, o) /\ \E m \in Nat : DOMAIN Found(n, o) = 1..m
  BY FoundRight DEF Path
<1>7. Accounted(o, paths[n])' => Told(o)
  BY DEF Accounted, Told, Path
<1>8. CASE /\ ingested'[o] = ingested[o]
           /\ Told(o) => Genuine(Sniff(File.markers), next, o) = {}
  <2>1. \A k : FromFile(o, k)' = FromFile(o, k)
    BY <1>8 DEF FromFile
  <2>2. FromFile(o, n) = {}
    BY <1>3 DEF FromFile
  <2>3. Told(o) =>
            Contents(FromFile(o, n)) = Genuine(Sniff(FileAt[paths[n]].markers), n, o)
    BY <1>8, <2>2 DEF Contents, File, Path
  <2>4. ASSUME NEW k \in 1..n, Accounted(o, paths[k])'
        PROVE  Contents(FromFile(o, k)) = Genuine(Sniff(FileAt[paths[k]].markers), k, o)
    BY <1>1, <1>7, <2>3, <2>4
  <2> QED
    BY <1>1, <1>4, <1>5, <1>8, <1>3, <2>1, <2>4 DEF FiledUpTo
<1>9. ASSUME NEW records, AsFound(records, n, o), ingested'[o] = ingested[o] \o records,
             Told(o) =>
                Genuine(Sniff(File.markers), next, o) = Contents(ToSet(Found(n, o)))
      PROVE  FiledUpTo(o, n)'
  <2>1. PICK m \in Nat : DOMAIN records = 1..m
    BY <1>6, <1>9 DEF AsFound
  <2>2. /\ IsList(ingested'[o]) /\ InFileOrder(ingested'[o])
        /\ ToSet(ingested'[o]) = ToSet(ingested[o]) \cup ToSet(records)
    <3>1. \A r \in ToSet(ingested[o]) : r.file \in 1..(n - 1)
      BY <1>1
    <3>2. PICK list : list = ingested[o]
      OBVIOUS
    <3>3. /\ IsList(list) /\ InFileOrder(list) /\ n \in Nat
          /\ \A r \in ToSet(list) : r.file \in 1..(n - 1)
          /\ AsFound(records, n, o)
      BY <1>1, <1>2, <1>9, <3>1, <3>2
    <3>4. /\ IsList(list \o records) /\ InFileOrder(list \o records)
          /\ ToSet(list \o records) = ToSet(list) \cup ToSet(records)
      BY ONLY <2>1, <3>3, FileAppended
    <3> QED
      BY <1>9, <3>2, <3>4
  <2>3. Contents(ToSet(records)) = Contents(ToSet(Found(n, o)))
    BY <1>6, <1>9, FoundContents
  <2>4. \A r \in ToSet(records) : r.file = n
    BY <1>9 DEF AsFound, ToSet
  <2>5. ASSUME NEW r \in ToSet(ingested'[o])
        PROVE  r.file \in 1..n /\ Contents({r}) \subseteq Contents(ToSet(Found(r.file, o)))
    <3>1. CASE r \in ToSet(ingested[o])
      BY <1>1, <1>3, <3>1
    <3>2. CASE r \in ToSet(records)
      <4>1. Contents({r}) \subseteq Contents(ToSet(records))
        BY <3>2 DEF Contents
      <4> QED
        <5>1. r.file = n /\ n \in 1..n
          BY <1>2, <2>4, <3>2
        <5> QED
          BY <2>3, <4>1, <5>1
    <3> QED
      BY <2>2, <3>1, <3>2
  <2>6. ASSUME NEW k \in 1..(n - 1) PROVE FromFile(o, k)' = FromFile(o, k)
    BY <2>2, <2>4 DEF FromFile
  <2>7. FromFile(o, n)' = ToSet(records)
    BY <1>3, <2>2, <2>4 DEF FromFile
  <2>8. ASSUME NEW k \in 1..n, Accounted(o, paths[k])'
        PROVE  Contents(FromFile(o, k)') = Genuine(Sniff(FileAt[paths[k]].markers), k, o)
    <3>1. CASE k = n
      BY <1>7, <1>9, <2>3, <2>7, <2>8, <3>1 DEF File, Path
    <3>2. CASE k \in 1..(n - 1)
      BY <1>1, <2>6, <2>8, <3>2
    <3> QED
      BY <3>1, <3>2
  <2> QED
    BY <1>4, <1>5, <2>2, <2>5, <2>8 DEF FiledUpTo
<1> QED
  BY <1>8, <1>9 DEF Given

\* What Take and Skip do for one origin.
LEMMA TakenGiven ==
    ASSUME NEW o \in Origin, NEW origins, IsList(ingested[o]), Path \in Paths,
           ingested'[o] = Extended(origins)[o],
           Told(o) => Genuine(Sniff(File.markers), next, o)
                          = IF o \in origins THEN Contents(ToSet(Found(next, o))) ELSE {}
    PROVE  Given(o)
<1>1. AsFound(Found(next, o), next, o)
  BY FoundRight DEF Path
<1>2. CASE o \in origins
  <2>1. ingested'[o] = ingested[o] \o Found(next, o)
    BY <1>2 DEF Extended
  <2> QED
    BY <1>1, <1>2, <2>1 DEF Given
<1>3. CASE o \notin origins
  <2>1. ingested'[o] = ingested[o] \o <<>>
    BY <1>3 DEF Extended
  <2>2. ingested'[o] = ingested[o]
    BY <2>1 DEF IsList
  <2> QED
    BY <1>3, <2>2 DEF Given
<1> QED
  BY <1>2, <1>3

\* Outside an event log every reader has been given the files before this one.
LEMMA ReachedBefore ==
    ASSUME sniffed \notin {"evtx pnp", "evtx umdf"}
    PROVE  \A o : Reached(o) = next - 1
BY DEF Reached

LEMMA NextIsNat ==
    ASSUME Stage
    PROVE  next \in Nat /\ next > 0
<1>1. paths \in Seq(Paths) /\ next \in 1..(Len(paths) + 1)
  BY DEF Stage, TypeOK
<1>2. Len(paths) \in Nat
  BY <1>1
<1> QED
  BY <1>1, <1>2

\* A file that one reader deals with.
LEMMA WholeFiled ==
    ASSUME Stage, Filed, sniffed \notin {"evtx pnp", "evtx umdf"}, sniffed # None,
           NextFile, UNCHANGED <<paths, gone>>, reported \subseteq reported',
           \A o \in Origin : Given(o)
    PROVE  Filed'
<1>1. next \in Nat /\ next > 0 /\ Path \in Paths
  BY WhileReading, NextIsNat
<1>2. sniffed' \notin {"evtx pnp", "evtx umdf"} /\ next' - 1 = next
  <2>1. sniffed' = None /\ next' = next + 1
    BY DEF NextFile
  <2>2. sniffed' \notin {"evtx pnp", "evtx umdf"}
    BY <2>1, KindsAreThere
  <2>3. next \in Nat
    BY <1>1
  <2>4. (next + 1) - 1 = next
    BY ONLY <2>3
  <2> QED
    BY <2>1, <2>2, <2>4
<1>3. \A o : Reached(o) = next - 1 /\ Reached(o)' = next
  BY <1>2, ReachedBefore DEF Reached
<1>4. ASSUME NEW o \in Origin PROVE FiledUpTo(o, Reached(o))'
  <2>1. FiledUpTo(o, next - 1)
    BY <1>3 DEF Filed
  <2>2. PICK n : n = next
    OBVIOUS
  <2>3. FiledUpTo(o, n)'
    BY <1>1, <2>1, <2>2, FileAdded
  <2>4. Reached(o)' = n
    BY <1>3, <2>2
  <2> QED
    BY <2>3, <2>4
<1> QED
  BY <1>4 DEF Filed


\* A file passed over has nothing for any reader.
LEMMA SkipFiled ==
    ASSUME Stage, Filed, sniffed \in Kind, Skip,
           Path \notin gone => \A o \in Origin : Genuine(Sniff(File.markers), next, o) = {}
    PROVE  Filed'
<1>1. /\ NextFile /\ UNCHANGED <<paths, gone, ingested>>
      /\ Path \in reported' /\ reported \subseteq reported'
  BY DEF Skip
<1>2. sniffed # None /\ sniffed \notin {"evtx pnp", "evtx umdf"}
  BY KindsAreThere
<1>3. \A o \in Origin : Given(o)
  BY <1>1 DEF Given, Told
<1> QED
  BY <1>1, <1>2, <1>3, WholeFiled

\* A file that is taken goes to the origins of its kind.
LEMMA TakeFiled ==
    ASSUME Stage, Filed, sniffed \in Kind, NEW origins, Take(origins),
           origins = OriginsOf(sniffed), sniffed \in Marker => File.intact
    PROVE  Filed'
<1>1. NextFile /\ UNCHANGED <<paths, gone, reported>> /\ ingested' = Extended(origins)
  BY DEF Take
<1>2. sniffed # None /\ sniffed \notin {"evtx pnp", "evtx umdf"}
  BY KindsAreThere
<1>3. sniffed = Sniff(File.markers) /\ Path \in Paths
  BY <1>2, WhileReading DEF Stage, Reading
<1>4. ASSUME NEW o \in Origin PROVE Given(o)
  <2>1. IsList(ingested[o])
    BY DEF Filed, FiledUpTo
  <2>2. Genuine(Sniff(File.markers), next, o)
            = IF o \in origins THEN Contents(ToSet(Found(next, o))) ELSE {}
    BY <1>3 DEF Genuine, File, Path
  <2> QED
    BY <1>1, <1>3, <2>1, <2>2, TakenGiven
<1> QED
  BY <1>1, <1>2, <1>4, WholeFiled

\* The readers of whole files file what they take.
LEMMA ReaderFiled ==
    ASSUME Stage, Filed,
           \/ IngestJumpList \/ IngestLink \/ IngestHive
           \/ IngestUnifiedLog \/ IngestProfiler \/ IngestPlist
           \/ IngestE01 \/ IngestImage \/ IngestSetupApi
    PROVE  Filed'
<1>1. sniffed \in Kind \ {"syslog", "evtx"} /\ (sniffed # "setupapi" => sniffed \in Marker)
  BY KindsAreThere DEF IngestJumpList, IngestLink, IngestHive, IngestUnifiedLog,
        IngestProfiler, IngestPlist, IngestE01, IngestImage, IngestSetupApi, IngestCapture, Marker
<1>2. /\ sniffed = Sniff(File.markers) /\ File.readable /\ Path \in Paths
  <2>1. sniffed # None /\ sniffed \notin {"evtx pnp", "evtx umdf"}
    BY <1>1, KindsAreThere
  <2> QED
    BY <2>1, WhileReading DEF Stage, Reading
<1>3. ASSUME \A o \in OriginsOf(sniffed) : Contents(ToSet(Found(next, o))) = {}
      PROVE  \A o \in Origin : Genuine(sniffed, next, o) = {}
  BY <1>3 DEF Genuine
<1>4. ASSUME sniffed \in Marker, ~ File.intact
      PROVE  \A o \in Origin : Genuine(sniffed, next, o) = {}
  BY <1>4 DEF Genuine, File, Path
<1>5. CASE sniffed = "setupapi"
  <2>1. Take({"setupapi"}) /\ OriginsOf(sniffed) = {"setupapi"} /\ sniffed \notin Marker
    BY <1>5 DEF IngestJumpList, IngestLink, IngestHive, IngestUnifiedLog, IngestProfiler,
                IngestPlist, IngestE01, IngestImage, IngestSetupApi, IngestCapture, OriginsOf,
                Marker
  <2> QED
    BY <1>1, <2>1, TakeFiled
<1>6. CASE sniffed = "e01"
  <2>1. IF File.intact /\ There THEN Take({"device_images"}) ELSE Skip
    BY <1>6 DEF IngestJumpList, IngestLink, IngestHive, IngestUnifiedLog, IngestProfiler,
                IngestPlist, IngestE01, IngestImage, IngestSetupApi, IngestCapture
  <2>2. OriginsOf(sniffed) = {"device_images"} /\ sniffed \in Marker
    BY <1>1, <1>6 DEF OriginsOf
  <2>3. CASE File.intact /\ There
    BY <1>1, <2>1, <2>2, <2>3, TakeFiled
  <2>4. CASE ~ (File.intact /\ There)
    <3>1. Path \notin gone => ~ File.intact
      BY <1>2, <2>4 DEF There
    <3>2. Path \notin gone => \A o \in Origin : Genuine(Sniff(File.markers), next, o) = {}
      BY <1>2, <1>4, <2>2, <3>1
    <3> QED
      BY <1>1, <2>1, <2>4, <3>2, SkipFiled
  <2> QED
    BY <2>3, <2>4
<1>7. CASE sniffed \in {"unified_log", "profiler", "plist"}
  <2>1. PICK o : /\ OriginsOf(sniffed) = {o} /\ o \in {"mac_log", "mac_usb", "apple_devices"}
                 /\ IF File.intact /\ Found(next, o) # <<>> THEN Take({o}) ELSE Skip
    BY <1>7 DEF IngestJumpList, IngestLink, IngestHive, IngestUnifiedLog, IngestProfiler,
                IngestPlist, IngestE01, IngestImage, IngestSetupApi, IngestCapture, OriginsOf
  <2>2. sniffed \in Marker
    BY <1>1, <1>7
  <2>3. CASE File.intact /\ Found(next, o) # <<>>
    BY <1>1, <2>1, <2>2, <2>3, TakeFiled
  <2>4. CASE ~ (File.intact /\ Found(next, o) # <<>>)
    <3>1. Found(next, o) = <<>> => Contents(ToSet(Found(next, o))) = {}
      BY DEF Contents, ToSet
    <3>2. \A q \in Origin : Genuine(sniffed, next, q) = {}
      BY <1>3, <1>4, <2>1, <2>2, <2>4, <3>1
    <3> QED
      BY <1>1, <1>2, <2>1, <2>4, <3>2, SkipFiled
  <2> QED
    BY <2>3, <2>4
<1>8. CASE sniffed \in {"compound", "link", "hive", "boot"}
  <2>1. PICK origins : /\ OriginsOf(sniffed) = origins
                       /\ IF File.intact THEN Take(origins) ELSE Skip
    BY <1>8 DEF IngestJumpList, IngestLink, IngestHive, IngestUnifiedLog, IngestProfiler,
                IngestPlist, IngestE01, IngestImage, IngestSetupApi, IngestCapture, OriginsOf
  <2>2. sniffed \in Marker
    BY <1>1, <1>8
  <2>3. CASE File.intact
    BY <1>1, <2>1, <2>2, <2>3, TakeFiled
  <2>4. CASE ~ File.intact
    BY <1>1, <1>2, <1>4, <2>1, <2>2, <2>4, SkipFiled
  <2> QED
    BY <2>3, <2>4
<1> QED
  BY <1>1, <1>5, <1>6, <1>7, <1>8, KindsAreThere

\* Each reader of an event log files what it takes, while the others wait.
LEMMA EventLogFiled ==
    ASSUME Stage, Filed, IngestPartitionDiag \/ IngestKernelPnp \/ IngestDriverFramework
    PROVE  Filed'
<1>1. /\ sniffed \in {"evtx", "evtx pnp", "evtx umdf"} /\ sniffed # None
      /\ UNCHANGED <<paths, gone>> /\ reported \subseteq reported'
  BY KindsAreThere DEF IngestPartitionDiag, IngestKernelPnp, IngestDriverFramework
<1>2. /\ Sniff(File.markers) = "evtx" /\ File.readable /\ Path \in Paths
      /\ next \in Nat /\ next > 0
  BY <1>1, WhileReading, KindsAreThere, NextIsNat DEF Stage, Reading
<1>3. /\ OriginsOf("evtx") = LogOrigins /\ "evtx" \in Marker
      /\ LogOrigins = {"partition_diag", "kernel_pnp", "driver_framework"}
      /\ LogOrigins \subseteq Origin /\ LateOrigins = {"kernel_pnp", "driver_framework"}
  BY DEF OriginsOf, Marker, LogOrigins, Origin, LateOrigins
<1>4. ASSUME NEW o \in Origin PROVE IsList(ingested[o])
  BY DEF Filed, FiledUpTo
<1>5. ASSUME NEW o \in LogOrigins,
             ingested' = IF File.intact /\ There THEN Extended({o}) ELSE ingested,
             o \in LateOrigins \/ (File.intact /\ There) \/ Path \in reported'
      PROVE  /\ Given(o)
             /\ \A q \in Origin \ {o} : ingested'[q] = ingested[q]
  <2>1. Genuine("evtx", next, o)
            = IF File.intact THEN Contents(ToSet(Found(next, o))) ELSE {}
    BY <1>3 DEF Genuine, File, Path
  <2>2. There <=> Path \notin gone
    BY <1>2 DEF There
  <2>3. CASE File.intact /\ There
    <3>1. ingested' = Extended({o})
      BY <1>5, <2>3
    <3>2. Given(o)
      BY <1>2, <1>3, <1>4, <2>1, <2>3, <3>1, TakenGiven
    <3>3. ASSUME NEW q \in Origin \ {o} PROVE ingested'[q] = ingested[q]
      <4>1. ingested'[q] = ingested[q] \o <<>>
        BY <3>1 DEF Extended
      <4> QED
        BY <1>4, <4>1 DEF IsList
    <3> QED
      BY <3>2, <3>3
  <2>4. CASE ~ (File.intact /\ There)
    <3>1. ingested' = ingested
      BY <1>5, <2>4
    <3> QED
      BY <1>2, <1>5, <2>1, <2>2, <2>4, <3>1 DEF Given, Told
  <2> QED
    BY <2>3, <2>4
<1>6. ASSUME NEW o \in LogOrigins, NEW n, n = next, Given(o), FiledUpTo(o, next - 1)
      PROVE  FiledUpTo(o, n)'
  BY <1>1, <1>2, <1>3, <1>6, FileAdded
<1>7. ASSUME NEW o, NEW n, FiledUpTo(o, n), ingested'[o] = ingested[o]
      PROVE  FiledUpTo(o, n)'
  BY <1>1, <1>7, FiledStays
<1>8. PICK n : n = next
  OBVIOUS
<1>9. CASE IngestPartitionDiag
  <2>1. /\ sniffed = "evtx" /\ sniffed' = "evtx pnp" /\ next' = next
        /\ ingested' = IF File.intact /\ There THEN Extended({"partition_diag"}) ELSE ingested
        /\ (File.intact /\ There) \/ Path \in reported'
    BY <1>9 DEF IngestPartitionDiag
  <2>2. /\ \A o : Reached(o) = n - 1
        /\ \A o : Reached(o)' = IF o = "partition_diag" THEN n ELSE n - 1
    BY <1>8, <2>1 DEF Reached
  <2>3. ASSUME NEW o \in Origin PROVE FiledUpTo(o, Reached(o))'
    <3>1. FiledUpTo(o, n - 1)
      BY <2>2 DEF Filed
    <3>2. CASE o = "partition_diag"
      <4>1. FiledUpTo(o, n)'
        BY <1>3, <1>5, <1>6, <1>8, <2>1, <3>1, <3>2
      <4>2. Reached(o)' = n
        BY <2>2, <3>2
      <4> QED
        BY <4>1, <4>2
    <3>3. CASE o # "partition_diag"
      <4>1. ingested'[o] = ingested[o]
        BY <1>3, <1>5, <2>1, <3>3
      <4>2. PICK m : m = n - 1
        OBVIOUS
      <4>3. FiledUpTo(o, m)'
        BY <1>7, <3>1, <4>1, <4>2
      <4>4. Reached(o)' = m
        BY <2>2, <3>3, <4>2
      <4> QED
        BY <4>3, <4>4
    <3> QED
      BY <3>2, <3>3
  <2> QED
    BY <2>3 DEF Filed
<1>10. CASE IngestKernelPnp
  <2>1. /\ sniffed = "evtx pnp" /\ sniffed' = "evtx umdf" /\ next' = next
        /\ ingested' = IF File.intact /\ There THEN Extended({"kernel_pnp"}) ELSE ingested
    BY <1>10 DEF IngestKernelPnp
  <2>2. /\ \A o : Reached(o) = IF o = "partition_diag" THEN n ELSE n - 1
        /\ \A o : Reached(o)' = IF o \in {"partition_diag", "kernel_pnp"} THEN n ELSE n - 1
    BY <1>8, <2>1 DEF Reached
  <2>3. ASSUME NEW o \in Origin PROVE FiledUpTo(o, Reached(o))'
    <3>1. CASE o = "kernel_pnp"
      <4>1. FiledUpTo(o, n - 1)
        BY <2>2, <3>1 DEF Filed
      <4>2. FiledUpTo(o, n)'
        BY <1>3, <1>5, <1>6, <1>8, <2>1, <3>1, <4>1
      <4>3. Reached(o)' = n
        BY <2>2, <3>1
      <4> QED
        BY <4>2, <4>3
    <3>2. CASE o # "kernel_pnp"
      <4>1. ingested'[o] = ingested[o]
        BY <1>3, <1>5, <2>1, <3>2
      <4>2. PICK m : m = Reached(o)
        OBVIOUS
      <4>3. FiledUpTo(o, m)'
        BY <1>7, <4>1, <4>2 DEF Filed
      <4>4. Reached(o)' = m
        BY <2>2, <3>2, <4>2
      <4> QED
        BY <4>3, <4>4
    <3> QED
      BY <3>1, <3>2
  <2> QED
    BY <2>3 DEF Filed
<1>11. CASE IngestDriverFramework
  <2>1. /\ sniffed = "evtx umdf" /\ NextFile
        /\ ingested' = IF File.intact /\ There THEN Extended({"driver_framework"}) ELSE ingested
    BY <1>11 DEF IngestDriverFramework
  <2>2. /\ \A o : Reached(o) = IF o \in {"partition_diag", "kernel_pnp"} THEN n ELSE n - 1
        /\ \A o : Reached(o)' = n
    <3>1. sniffed' \notin {"evtx pnp", "evtx umdf"} /\ next' - 1 = n
      <4>1. sniffed' = None /\ next' = next + 1
        BY <2>1 DEF NextFile
      <4>2. sniffed' \notin {"evtx pnp", "evtx umdf"}
        BY <4>1, KindsAreThere
      <4>3. next \in Nat
        BY <1>2
      <4>4. (next + 1) - 1 = next
        BY ONLY <4>3
      <4> QED
        BY <1>8, <4>1, <4>2, <4>4
    <3> QED
      BY <1>8, <2>1, <3>1 DEF Reached
  <2>3. ASSUME NEW o \in Origin PROVE FiledUpTo(o, Reached(o))'
    <3>1. CASE o \in {"partition_diag", "kernel_pnp"}
      <4>1. FiledUpTo(o, n)
        BY <2>2, <3>1 DEF Filed
      <4>2. ingested'[o] = ingested[o]
        <5>1. "driver_framework" \in LogOrigins /\ o \in Origin \ {"driver_framework"}
          BY <1>3, <3>1
        <5> QED
          BY <1>5, <2>1, <5>1
      <4>3. FiledUpTo(o, n)'
        BY <1>7, <4>1, <4>2
      <4> QED
        BY <2>2, <4>3
    <3>2. CASE o \notin {"partition_diag", "kernel_pnp"}
      <4>1. FiledUpTo(o, next - 1)
        BY <1>8, <2>2, <3>2 DEF Filed
      <4>2. Given(o)
        <5>1. CASE o = "driver_framework"
          BY <1>3, <1>5, <2>1, <5>1
        <5>2. CASE o # "driver_framework"
          <6>1. ingested'[o] = ingested[o]
            <7>1. "driver_framework" \in LogOrigins /\ o \in Origin \ {"driver_framework"}
              BY <1>3, <5>2
            <7> QED
              BY <1>5, <2>1, <7>1
          <6>2. Genuine("evtx", next, o) = {}
            BY <1>3, <3>2, <5>2 DEF Genuine
          <6> QED
            BY <1>2, <6>1, <6>2 DEF Given
        <5> QED
          BY <5>1, <5>2
      <4>3. FiledUpTo(o, n)'
        BY <1>1, <1>2, <1>8, <4>1, <4>2, FileAdded
      <4> QED
        BY <2>2, <4>3
    <3> QED
      BY <3>1, <3>2
  <2> QED
    BY <2>3 DEF Filed
<1> QED
  BY <1>9, <1>10, <1>11

\* A syslog is filed with the year.
LEMMA SyslogFiled ==
    ASSUME Stage, Filed, IngestSyslog
    PROVE  Filed'
<1> DEFINE found == Found(next, "linux")
           dated == [i \in DOMAIN found |->
                      [file |-> next, nr |-> i, year |-> year, record |-> found[i].record]]
<1>1. /\ sniffed = "syslog" /\ NextFile /\ UNCHANGED <<paths, gone, reported>>
      /\ ingested' = [ingested EXCEPT !["linux"] = ingested["linux"] \o dated]
  BY DEF IngestSyslog
<1>2. sniffed # None /\ sniffed \notin {"evtx pnp", "evtx umdf"}
  BY <1>1, KindsAreThere
<1>3. "syslog" = Sniff(File.markers) /\ Path \in Paths
  BY <1>1, <1>2, WhileReading DEF Stage, Reading
<1>4. /\ "syslog" \notin Marker /\ OriginsOf("syslog") = {"linux"} /\ "linux" \in Origin
      /\ DOMAIN ingested = Origin
  BY DEF Marker, OriginsOf, Origin, Stage, TypeOK
<1>5. AsFound(found, next, "linux")
  BY <1>3, <1>4, FoundRight DEF Path
<1>6. AsFound(dated, next, "linux")
  BY <1>5 DEF AsFound
<1> HIDE DEF dated, found
<1>7. ASSUME NEW o \in Origin PROVE Given(o)
  <2>1. CASE o = "linux"
    <3>1. ingested'[o] = ingested[o] \o dated
      BY <1>1, <1>4, <2>1
    <3>2. Genuine(Sniff(File.markers), next, o) = Contents(ToSet(Found(next, o)))
      BY <1>3, <1>4, <2>1 DEF Genuine
    <3> QED
      BY <1>6, <2>1, <3>1, <3>2 DEF Given
  <2>2. CASE o # "linux"
    BY <1>1, <1>3, <1>4, <2>2 DEF Genuine, Given
  <2> QED
    BY <2>1, <2>2
<1> QED
  BY <1>1, <1>2, <1>7, WholeFiled

\* Nothing else files anything; a file that goes away takes nothing with it.
LEMMA OtherFiled ==
    ASSUME Filed, UNCHANGED <<ingested, next, paths>>, gone \subseteq gone',
           reported \subseteq reported',
           \/ sniffed' = sniffed
           \/ {sniffed, sniffed'} \cap {"evtx pnp", "evtx umdf"} = {}
    PROVE  Filed'
<1>1. \A o : Reached(o)' = Reached(o)
  BY DEF Reached
<1>2. ASSUME NEW o \in Origin PROVE FiledUpTo(o, Reached(o))'
  <2>1. PICK n : n = Reached(o)
    OBVIOUS
  <2>2. FiledUpTo(o, n)'
    BY <2>1, FiledStays DEF Filed
  <2> QED
    BY <1>1, <2>1, <2>2
<1> QED
  BY <1>2 DEF Filed

\* Before the first file nothing is filed.
LEMMA NothingFiled ==
    ASSUME Stage, Filed, pc = "args", UNCHANGED <<ingested, next, sniffed>>
    PROVE  Filed'
<1>1. /\ sniffed = None /\ next = 1
  <2>1. paths \in Seq(Paths) /\ paths = <<>> /\ next \in 1..(Len(paths) + 1) /\ sniffed = None
    BY DEF Stage, TypeOK, Progress
  <2>2. Len(paths) = 0
    BY <2>1
  <2> QED
    BY <2>1, <2>2
<1>2. \A o : Reached(o) = 0 /\ Reached(o)' = 0
  <2>1. sniffed \notin {"evtx pnp", "evtx umdf"} /\ sniffed' \notin {"evtx pnp", "evtx umdf"}
    BY <1>1, KindsAreThere
  <2>2. next - 1 = 0 /\ next' - 1 = 0
    BY <1>1
  <2> QED
    BY <2>1, <2>2 DEF Reached
<1>3. ASSUME NEW o \in Origin PROVE FiledUpTo(o, Reached(o))'
  <2>1. FiledUpTo(o, 0)
    BY <1>2 DEF Filed
  <2>2. ToSet(ingested[o]) = {}
    BY <2>1 DEF FiledUpTo
  <2>3. FiledUpTo(o, 0)'
    BY <2>1, <2>2 DEF FiledUpTo
  <2> QED
    BY <1>2, <2>3
<1> QED
  BY <1>3 DEF Filed

LEMMA InitFiled == Init => Filed
<1> SUFFICES ASSUME Init PROVE Filed
  OBVIOUS
<1>1. \A o : Reached(o) = 0
  <2>1. sniffed = None /\ next - 1 = 0
    BY DEF Init
  <2>2. sniffed \notin {"evtx pnp", "evtx umdf"}
    BY <2>1, KindsAreThere
  <2> QED
    BY <2>1, <2>2 DEF Reached
<1>2. ASSUME NEW o \in Origin PROVE FiledUpTo(o, 0)
  <2>1. ingested[o] = <<>>
    BY DEF Init
  <2>2. IsList(<<>>) /\ DOMAIN <<>> = {} /\ ToSet(<<>>) = {}
    BY DEF IsList, ToSet
  <2> QED
    BY <2>1, <2>2 DEF FiledUpTo, InFileOrder
<1> QED
  BY <1>1, <1>2 DEF Filed

LEMMA NextFiled == IInv /\ [Next]_vars => Filed'
<1> SUFFICES ASSUME Stage, Filed, [Next]_vars PROVE Filed'
  BY DEF IInv
<1>1. CASE ShowVersion \/ ShowUsage \/ ParseArgs
  BY <1>1, NothingFiled DEF ShowVersion, ShowUsage, ParseArgs
<1>2. CASE \/ IngestJumpList \/ IngestLink \/ IngestHive
           \/ IngestUnifiedLog \/ IngestProfiler \/ IngestPlist
           \/ IngestE01 \/ IngestImage \/ IngestSetupApi
  BY <1>2, ReaderFiled
<1>3. CASE IngestPartitionDiag \/ IngestKernelPnp \/ IngestDriverFramework
  BY <1>3, EventLogFiled
<1>4. CASE IngestSyslog
  BY <1>4, SyslogFiled
<1>5. CASE ReadFile
  <2>1. sniffed' \in Kind /\ sniffed = None /\ UNCHANGED <<ingested, next, paths, gone, reported>>
    BY <1>5, SniffIsKind DEF ReadFile
  <2> QED
    BY <2>1, KindsAreThere, OtherFiled
<1>6. CASE NoYear
  <2>1. sniffed' = None /\ sniffed = "syslog" /\ UNCHANGED <<ingested, next, paths, gone>>
        /\ reported \subseteq reported'
    BY <1>6 DEF NoYear
  <2> QED
    BY <2>1, KindsAreThere, OtherFiled
<1>7. CASE \/ CannotRead \/ IngestEnd \/ WriteAll \/ WriteFails \/ WriteDocx \/ FlushAtExit
           \/ Environment \/ UNCHANGED vars
  <2>1. UNCHANGED <<ingested, next, paths, sniffed>> /\ gone \subseteq gone'
        /\ reported \subseteq reported'
    BY <1>7 DEF CannotRead, IngestEnd, WriteAll, WriteFails, WriteDocx, FlushAtExit,
                Environment, Vanish, BreakOutput, vars, inputVars
  <2> QED
    BY <2>1, OtherFiled
<1> QED
  BY <1>1, <1>2, <1>3, <1>4, <1>5, <1>6, <1>7 DEF Next, Tool, Ingesting

-----------------------------------------------------------------------------
(***************************************************************************)
(* The invariant of main and ingest holds for every list of files, every   *)
(* command line and every way in which files go away (usb4n6.rs:41-84,     *)
(* 265-364).                                                               *)
(***************************************************************************)
THEOREM IngestInvariant == Spec => []IInv
BY InitStage, InitFiled, NextStage, NextFiled, PTL DEF Spec, IInv

\* When the tool is done it has dealt with every file.
LEMMA DoneIsAllHandled ==
    ASSUME IInv, pc = "done"
    PROVE  \A path \in ToSet(paths) : Handled(path)
<1>1. paths \in Seq(Paths) /\ Len(paths) \in Nat
  BY DEF IInv, Stage, TypeOK
<1>2. ASSUME NEW path \in ToSet(paths) PROVE Handled(path)
  <2>1. PICK k \in 1..Len(paths) : path = paths[k]
    BY <1>1 DEF ToSet
  <2>2. paths # <<>> /\ next - 1 = Len(paths)
    BY <1>1, <2>1 DEF IInv, Stage, Progress
  <2> QED
    BY <2>1, <2>2 DEF IInv, Stage, Progress
<1> QED
  BY <1>2

(***************************************************************************)
(* Where the markers of every file tell what it is, the tool gives up only *)
(* on a file it cannot read and on a syslog without a year, and on these   *)
(* always (usb4n6.rs:263).                                                 *)
(***************************************************************************)
THEOREM FatalOnlyAsDocumentedAlways == Spec => [](Recognised => FatalOnlyAsDocumented)
<1>1. ASSUME IInv, Recognised PROVE FatalOnlyAsDocumented
  <2>1. pc = "failed" /\ paths # <<>> =>
            \E path \in ToSet(paths) : Fatal(path) /\ path \in reported
    BY <1>1 DEF IInv, Stage, Progress
  <2>2. pc = "done" => \A path \in ToSet(paths) \ gone : ~ Fatal(path)
    BY <1>1, DoneIsAllHandled DEF Handled, Fatal
  <2> QED
    BY <2>1, <2>2 DEF FatalOnlyAsDocumented
<1>2. IInv => (Recognised => FatalOnlyAsDocumented)
  BY <1>1
<1> QED
  BY <1>2, IngestInvariant, PTL

(***************************************************************************)
(* No syslog record has a year that the examiner did not give, and no two  *)
(* have different ones (usb4n6.rs:264).                                    *)
(***************************************************************************)
THEOREM YearNeverGuessedAlways == Spec => []YearNeverGuessed
<1>1. IInv => YearNeverGuessed
  BY DEF IInv, Stage, YearKept, YearNeverGuessed
<1> QED
  BY <1>1, IngestInvariant, PTL

(***************************************************************************)
(* Success means that the whole rendering is on stdout, and anything else  *)
(* that it is not, but for a DOCX (usb4n6.rs:202).                         *)
(***************************************************************************)
THEOREM SuccessIsCompleteAlways == Spec => []SuccessIsComplete
<1>1. IInv => SuccessIsComplete
  BY DEF IInv, Stage, Written, SuccessIsComplete
<1> QED
  BY <1>1, IngestInvariant, PTL

\* When the tool is done every reader has been given every file.
LEMMA DoneIsAllFiled ==
    ASSUME IInv, pc = "done"
    PROVE  \A o \in Origin : FiledUpTo(o, Len(paths)) /\ DOMAIN paths = 1..Len(paths)
<1>1. /\ paths \in Seq(Paths) /\ Len(paths) \in Nat /\ DOMAIN paths = 1..Len(paths)
      /\ next \in 1..(Len(paths) + 1)
  BY DEF IInv, Stage, TypeOK
<1>2. next - 1 = Len(paths)
  <2>1. CASE paths = <<>>
    <3>1. Len(paths) = 0
      BY <2>1
    <3> QED
      BY <1>1, <3>1
  <2>2. CASE paths # <<>>
    BY <1>1, <2>2 DEF IInv, Stage, Progress
  <2> QED
    BY <2>1, <2>2
<1>3. sniffed \notin {"evtx pnp", "evtx umdf"}
  BY KindsAreThere DEF IInv, Stage, Reading
<1>4. \A o : Reached(o) = Len(paths)
  BY <1>2, <1>3, ReachedBefore
<1> QED
  BY <1>1, <1>4 DEF IInv, Filed

\* And each file was what the tool took it for.
LEMMA DoneKnowsAll ==
    ASSUME IInv, Recognised, pc = "done", NEW k \in DOMAIN paths
    PROVE  Sniff(FileAt[paths[k]].markers) = FileAt[paths[k]].kind
<1>1. paths[k] \in ToSet(paths) /\ paths[k] \in Paths
  BY DEF ToSet, IInv, Stage, TypeOK
<1>2. FileAt[paths[k]].readable
  BY <1>1, DoneIsAllHandled DEF Handled
<1> QED
  BY <1>1, <1>2 DEF Recognised

LEMMA DoneReadsAll == ASSUME IInv, Recognised PROVE EveryFileReadAsItself
<1> SUFFICES ASSUME pc = "done", NEW o \in Origin
             PROVE  /\ InFileOrder(ingested[o])
                    /\ \A r \in ToSet(ingested[o]) : r.file \in DOMAIN paths
                    /\ \A k \in DOMAIN paths : paths[k] \notin gone =>
                          Contents(FromFile(o, k)) = Genuine(FileAt[paths[k]].kind, k, o)
  BY DEF EveryFileReadAsItself
<1>1. FiledUpTo(o, Len(paths)) /\ DOMAIN paths = 1..Len(paths)
  BY DoneIsAllFiled
<1> QED
  BY <1>1, DoneKnowsAll DEF FiledUpTo, Accounted

(***************************************************************************)
(* Where the markers of every file tell what it is, each origin holds what *)
(* the files of its kind hold, once and in the order given, for every list *)
(* of files and however some of them go away (usb4n6.rs:262).              *)
(***************************************************************************)
THEOREM EveryFileReadAsItselfAlways == Spec => [](Recognised => EveryFileReadAsItself)
<1>1. IInv => (Recognised => EveryFileReadAsItself)
  BY DoneReadsAll
<1> QED
  BY <1>1, IngestInvariant, PTL

(***************************************************************************)
(* Where the markers of every file tell what it is, a file that stderr     *)
(* does not name was sound and has left all it holds, but with the two     *)
(* readers that open an event log again; for every list of files and       *)
(* however some of them go away between two reads (usb4n6.rs:277-347).     *)
(***************************************************************************)
THEOREM DamageReportedAlways == Spec => [](Recognised => DamageReported)
<1>1. ASSUME IInv, Recognised PROVE DamageReported
  <2> SUFFICES ASSUME pc = "done", NEW k \in DOMAIN paths, paths[k] \notin reported
               PROVE  /\ ~ Damaged(paths[k])
                      /\ \A o \in Origin \ LateOrigins :
                            Contents(FromFile(o, k)) = Genuine(FileAt[paths[k]].kind, k, o)
    BY DEF DamageReported
  <2>1. paths[k] \in ToSet(paths)
    BY DEF ToSet
  <2>2. ~ Damaged(paths[k])
    BY <1>1, <2>1, DoneIsAllHandled DEF Handled
  <2>3. ASSUME NEW o \in Origin \ LateOrigins
        PROVE  Contents(FromFile(o, k)) = Genuine(FileAt[paths[k]].kind, k, o)
    <3>1. FiledUpTo(o, Len(paths)) /\ DOMAIN paths = 1..Len(paths)
      BY <1>1, DoneIsAllFiled
    <3>2. Sniff(FileAt[paths[k]].markers) = FileAt[paths[k]].kind
      BY <1>1, DoneKnowsAll
    <3>3. Accounted(o, paths[k])
      BY DEF Accounted
    <3> QED
      BY <3>1, <3>2, <3>3 DEF FiledUpTo
  <2> QED
    BY <2>2, <2>3
<1>2. IInv => (Recognised => DamageReported)
  BY <1>1
<1> QED
  BY <1>2, IngestInvariant, PTL

\* At most two claims, of one device.
LEMMA OneKey ==
    ASSUME NEW key, NEW a, NEW b,
           a = <<>> \/ \E c : a = <<c>> /\ c.device = key,
           b = <<>> \/ \E c : b = <<c>> /\ c.device = key
    PROVE  \A k \in Keys(a \o b) : k = key
BY DEF Keys, ToSet

\* Both captures file a device that reports a serial under it.
LEMMA KeyIsSerial ==
    ASSUME NEW dev, dev.serial # None, NEW locator
    PROVE  /\ \A k \in Keys(MacUsbClaims(dev, locator)) : k = dev.serial
           /\ \A k \in Keys(AppleIPodClaims(dev, locator)) : k = dev.serial
<1>1. /\ OrElse(dev.serial, dev.name) = dev.serial
      /\ OrElse(dev.serial, dev.id) = dev.serial
  BY DEF OrElse
<1>2. \A attribute, value, record : ClaimOf(dev.serial, attribute, value, record).device = dev.serial
  BY DEF ClaimOf
<1>3. \A k \in Keys(MacUsbClaims(dev, locator)) : k = dev.serial
  <2>1. PICK a, b : /\ MacUsbClaims(dev, locator) = a \o b
                    /\ a = <<>> \/ \E c : a = <<c>> /\ c.device = dev.serial
                    /\ b = <<>> \/ \E c : b = <<c>> /\ c.device = dev.serial
    BY <1>1, <1>2 DEF MacUsbClaims, MacUsbClaimsOf
  <2> QED
    BY <2>1, OneKey
<1>4. \A k \in Keys(AppleIPodClaims(dev, locator)) : k = dev.serial
  <2>1. PICK a, b : /\ AppleIPodClaims(dev, locator) = a \o b
                    /\ a = <<>> \/ \E c : a = <<c>> /\ c.device = dev.serial
                    /\ b = <<>> \/ \E c : b = <<c>> /\ c.device = dev.serial
    BY <1>1, <1>2 DEF AppleIPodClaims, IfPresent
  <2> QED
    BY <2>1, OneKey
<1> QED
  BY <1>3, <1>4

\* Every record is one that the decoder of its file yields.
LEMMA RecordWitnessed ==
    ASSUME IInv, pc = "done", NEW o \in Origin, NEW r \in ToSet(ingested[o])
    PROVE  r.record \in Witnessed(o)
<1>1. r.file \in 1..Len(paths) /\ Contents({r}) \subseteq Contents(ToSet(Found(r.file, o)))
  BY DoneIsAllFiled DEF FiledUpTo
<1>2. paths \in Seq(Paths)
  BY DEF IInv, Stage, TypeOK
<1>3. PICK path \in Paths : path = paths[r.file]
  BY <1>1, <1>2
<1>4. PICK f \in ToSet(Found(r.file, o)) : f.record = r.record
  <2>1. <<r.file, r.nr, r.record>> \in Contents({r})
    BY DEF Contents
  <2>2. <<r.file, r.nr, r.record>> \in Contents(ToSet(Found(r.file, o)))
    BY <1>1, <2>1
  <2> QED
    BY <2>2 DEF Contents
<1>5. r.record \in ToSet(Decoded[path][o])
  <2>1. PICK k : k = r.file
    OBVIOUS
  <2>2. PICK records : records = Decoded[paths[k]][o]
    OBVIOUS
  <2>3. Found(k, o) = [i \in DOMAIN records |-> [file |-> k, nr |-> i, record |-> records[i]]]
    BY <2>2 DEF Found
  <2>4. PICK i \in DOMAIN records : f = [file |-> k, nr |-> i, record |-> records[i]]
    BY <1>4, <2>1, <2>3 DEF ToSet
  <2>5. f.record = records[i]
    BY <2>4
  <2> QED
    BY <1>3, <1>4, <2>1, <2>2, <2>4, <2>5 DEF ToSet
<1> QED
  BY <1>5 DEF Witnessed

(***************************************************************************)
(* Of captures whose serials tell the devices apart, the claims of two     *)
(* records with a serial fall under one key just when they are of one      *)
(* device, in the profiler, in the plist and across the two                *)
(* (apple_ipod.rs:96, macos_usb.rs:100).                                   *)
(***************************************************************************)
THEOREM SerialIsTheKeyAlways ==
    ASSUME SerialsTellSticks
    PROVE  Spec => []SerialIsTheKey
<1>1. ASSUME IInv PROVE SerialIsTheKey
  <2> SUFFICES ASSUME pc = "done", NEW o1 \in {"mac_usb", "apple_devices"},
                      NEW o2 \in {"mac_usb", "apple_devices"},
                      NEW r1 \in ToSet(ingested[o1]), NEW r2 \in ToSet(ingested[o2]),
                      r1.record.serial # None, r2.record.serial # None,
                      NEW key1 \in KeysOf(o1, r1), NEW key2 \in KeysOf(o2, r2)
               PROVE  key1 = key2 <=> r1.record.stick = r2.record.stick
    BY DEF SerialIsTheKey
  <2>1. {"mac_usb", "apple_devices"} \subseteq Origin
    BY DEF Origin, WholeOrigins
  <2>2. r1.record \in Witnessed(o1) /\ r2.record \in Witnessed(o2)
    BY <1>1, <2>1, RecordWitnessed
  <2>3. key1 = r1.record.serial /\ key2 = r2.record.serial
    BY KeyIsSerial DEF KeysOf
  <2> QED
    BY <2>2, <2>3 DEF SerialsTellSticks
<1>2. IInv => SerialIsTheKey
  BY <1>1
<1> QED
  BY <1>2, IngestInvariant, PTL
(***************************************************************************)
(* What the readers of event logs and captures find.                       *)
(***************************************************************************)
\* What is kept of a list are the elements at the places, all of them.
LEMMA KeptExactly ==
    ASSUME NEW list, IsList(list), NEW places \in SUBSET DOMAIN list
    PROVE  /\ \A k \in DOMAIN Kept(list, places) : \E i \in places : Kept(list, places)[k] = list[i]
           /\ \A i \in places : \E k \in DOMAIN Kept(list, places) : Kept(list, places)[k] = list[i]
<1> DEFINE N == Cardinality(places)
           upTo(i) == Cardinality({j \in places : j <= i})
<1>1. Len(list) \in Nat /\ DOMAIN list = 1..Len(list)
  BY DEF IsList
<1>2. places \in SUBSET (1..Len(list)) /\ IsFiniteSet(places) /\ N \in Nat
  BY <1>1, PlacesFinite
<1>3. Kept(list, places) = [k \in 1..N |-> list[CHOOSE i \in places : upTo(i) = k]]
  BY DEF Kept
<1>4. \A k \in 1..N : \E i \in places : upTo(i) = k
  BY <1>1, <1>2, KthExists
<1>5. ASSUME NEW i \in places PROVE upTo(i) \in 1..N
  <2>1. {j \in places : j <= i} \in SUBSET places /\ i \in {j \in places : j <= i}
    BY <1>2
  <2>2. /\ upTo(i) \in Nat /\ upTo(i) <= N
        /\ {j \in places : j <= i} # {} /\ IsFiniteSet({j \in places : j <= i})
    BY <1>2, <2>1, FS_Subset, FS_CardinalityType
  <2>3. upTo(i) # 0
    BY <2>2, FS_EmptySet
  <2> QED
    BY <1>2, <2>2, <2>3
<1>6. ASSUME NEW i \in places, NEW k \in places, upTo(i) = upTo(k) PROVE i = k
  <2>1. \A a, b \in places : a < b => upTo(a) < upTo(b)
    <3> SUFFICES ASSUME NEW a \in places, NEW b \in places, a < b PROVE upTo(a) < upTo(b)
      OBVIOUS
    <3> DEFINE A == {j \in places : j <= a}
               B == {j \in places : j <= b}
    <3>1. a \in Int /\ b \in Int /\ \A j \in places : j \in Int
      BY <1>2
    <3>2. A \in SUBSET B /\ b \in B /\ b \notin A /\ B \in SUBSET places
      BY <3>1
    <3>3. IsFiniteSet(B)
      BY <1>2, <3>2, FS_Subset
    <3> HIDE DEF A, B
    <3>4. Cardinality(A) < Cardinality(B)
      BY <3>2, <3>3, SmallerPart
    <3> QED
      BY <3>4 DEF A, B
  <2>2. i \in Int /\ k \in Int /\ upTo(i) \in Int
    BY <1>2, <1>5
  <2> HIDE DEF upTo
  <2> QED
    BY <1>6, <2>1, <2>2
<1> HIDE DEF upTo
<1>7. ASSUME NEW i \in places PROVE \E k \in 1..N : list[CHOOSE l \in places : upTo(l) = k] = list[i]
  <2>1. (CHOOSE l \in places : upTo(l) = upTo(i)) = i
    BY <1>6
  <2> QED
    BY <1>5, <2>1
<1> QED
  BY <1>3, <1>4, <1>7

LEMMA KernelPnpFinds ==
    ASSUME NEW raws, IsList(raws), \A raw \in ToSet(raws) : raw.meaning = PnpMeaning(raw)
    PROVE  \A at : (\E event \in ToSet(KernelPnpEvents(raws)) : event.at = at)
                       <=> \E raw \in ToSet(raws) : raw.meaning = "configured" /\ raw.time = at
<1> DEFINE places == {i \in DOMAIN raws : IsKernelPnpEvent(raws[i])}
           kept == Kept(raws, places)
<1>1. KernelPnpEvents(raws) =
        [i \in DOMAIN kept |-> [serial |-> kept[i].instance.serial, at |-> kept[i].time]]
  BY DEF KernelPnpEvents
<1>2. \A i \in DOMAIN raws : i \in places <=> raws[i].meaning = "configured"
  BY DEF IsKernelPnpEvent, IsConfigEvent, IsUsbInstance, PnpMeaning, OfUsbDevice, ToSet
<1>3. places \in SUBSET DOMAIN raws
  OBVIOUS
<1> HIDE DEF places
<1>4. /\ \A k \in DOMAIN kept : \E i \in places : kept[k] = raws[i]
      /\ \A i \in places : \E k \in DOMAIN kept : kept[k] = raws[i]
  BY <1>3, KeptExactly
<1> HIDE DEF kept
<1>5. \A at : (\E event \in ToSet(KernelPnpEvents(raws)) : event.at = at)
                  <=> \E k \in DOMAIN kept : kept[k].time = at
  BY <1>1 DEF ToSet
<1>6. \A raw : raw \in ToSet(raws) /\ raw.meaning = "configured" <=> \E i \in places : raw = raws[i]
  BY <1>2, <1>3 DEF ToSet
<1> QED
  BY <1>4, <1>5, <1>6

\* The instance that a record names, if any, is the one of its event.
LEMMA InstanceNamed ==
    ASSUME NEW raw, IsList(raw.children), \A i, j \in Instances(raw) : i = j
    PROVE  /\ NamedInstance(raw.children) # None => NamedInstance(raw.children) \in Instances(raw)
           /\ Instances(raw) # {} => NamedInstance(raw.children) # None
<1> DEFINE children == raw.children
           naming == {i \in DOMAIN children : ChildInstance(children[i]) # None}
<1>1. NamedInstance(children) =
        IF naming = {} THEN None ELSE ChildInstance(children[Earliest(naming)])
  BY DEF NamedInstance
<1>2. naming \in SUBSET Nat
  BY DEF IsList
<1>3. \A i \in naming : ChildInstance(children[i]) # None /\ ChildInstance(children[i]) \in Instances(raw)
  BY DEF Instances, ToSet
<1>4. Instances(raw) # {} => naming # {}
  BY DEF Instances, ToSet
<1> HIDE DEF naming
<1>5. naming # {} => Earliest(naming) \in naming
  BY <1>2, EarliestIsLeast
<1> QED
  BY <1>1, <1>3, <1>4, <1>5

LEMMA DriverFrameworkFinds ==
    ASSUME NEW raws, IsList(raws),
           \A raw \in ToSet(raws) : /\ raw.meaning = UmdfMeaning(raw) /\ IsList(raw.children)
                                    /\ \A i, j \in Instances(raw) : i = j
    PROVE  \A at, removed :
                (\E event \in ToSet(DriverFrameworkEvents(raws)) :
                    event.at = at /\ event.disconnect = removed)
                    <=> \E raw \in ToSet(raws) : /\ raw.meaning \in {"arrived", "removed"}
                                                 /\ raw.time = at
                                                 /\ (raw.meaning = "removed") = removed
<1> DEFINE places == {i \in DOMAIN raws : IsDriverFrameworkEvent(raws[i])}
           kept == Kept(raws, places)
<1>1. DriverFrameworkEvents(raws) =
        [i \in DOMAIN kept |->
            [serial |-> NamedInstance(kept[i].children).serial, at |-> kept[i].time,
             disconnect |-> kept[i].event_id = 2102]]
  BY DEF DriverFrameworkEvents
<1>2. ASSUME NEW raw \in ToSet(raws)
      PROVE  /\ IsDriverFrameworkEvent(raw) <=> raw.meaning \in {"arrived", "removed"}
             /\ IsDriverFrameworkEvent(raw) => ((raw.meaning = "removed") <=> raw.event_id = 2102)
  <2>1. /\ NamedInstance(raw.children) # None => NamedInstance(raw.children) \in Instances(raw)
        /\ Instances(raw) # {} => NamedInstance(raw.children) # None
    BY InstanceNamed
  <2>2. (\E instance \in Instances(raw) : OfUsbDevice(instance))
            <=> NamedInstance(raw.children) # None /\ IsUsbInstance(NamedInstance(raw.children))
    BY <2>1 DEF OfUsbDevice, IsUsbInstance, Instances
  <2>3. raw.meaning = UmdfMeaning(raw)
    OBVIOUS
  <2>4. raw.meaning \in {"arrived", "removed"} <=>
          /\ raw.provider = "DriverFrameworks" /\ raw.event_id \in {2003, 2102}
          /\ raw.time # None /\ \E instance \in Instances(raw) : OfUsbDevice(instance)
    BY <2>3 DEF UmdfMeaning
  <2>5. IsDriverFrameworkEvent(raw) <=> raw.meaning \in {"arrived", "removed"}
    BY <2>2, <2>4 DEF IsDriverFrameworkEvent
  <2>6. raw.meaning \in {"arrived", "removed"} => (raw.meaning = "removed" <=> raw.event_id = 2102)
    BY <2>3 DEF UmdfMeaning
  <2> QED
    BY <2>5, <2>6
<1>3. \A i \in DOMAIN raws : i \in places <=> raws[i].meaning \in {"arrived", "removed"}
  BY <1>2 DEF ToSet
<1>4. places \in SUBSET DOMAIN raws
  OBVIOUS
<1>5. \A i \in places : (raws[i].event_id = 2102) = (raws[i].meaning = "removed")
  BY <1>2, <1>4 DEF ToSet
<1> HIDE DEF places
<1>6. /\ \A k \in DOMAIN kept : \E i \in places : kept[k] = raws[i]
      /\ \A i \in places : \E k \in DOMAIN kept : kept[k] = raws[i]
  BY <1>4, KeptExactly
<1> HIDE DEF kept
<1>7. \A at, removed :
        (\E event \in ToSet(DriverFrameworkEvents(raws)) :
            event.at = at /\ event.disconnect = removed)
            <=> \E k \in DOMAIN kept : kept[k].time = at /\ (kept[k].event_id = 2102) = removed
  BY <1>1 DEF ToSet
<1>8. \A at, removed :
        (\E k \in DOMAIN kept : kept[k].time = at /\ (kept[k].event_id = 2102) = removed)
            <=> \E i \in places : raws[i].time = at /\ (raws[i].meaning = "removed") = removed
  BY <1>5, <1>6
<1>9. \A raw : raw \in ToSet(raws) /\ raw.meaning \in {"arrived", "removed"}
                  <=> \E i \in places : raw = raws[i]
  BY <1>3, <1>4 DEF ToSet
<1> QED
  BY <1>7, <1>8, <1>9

LEMMA UnifiedLogFinds ==
    ASSUME NEW lines, IsList(lines), \A line \in ToSet(lines) : LineIsTrue(line)
    PROVE  \A seen : (\E dev \in ToSet(UnifiedLogEvents(lines)) : seen = Sighting("mac_log", dev))
                         <=> seen \in SawInLog(lines)
<1> DEFINE places == {i \in DOMAIN lines : IsEnumeration(lines[i])}
           kept == Kept(lines, places)
<1>1. UnifiedLogEvents(lines) =
        [i \in DOMAIN kept |->
            [vid |-> kept[i].message.vid, pid |-> kept[i].message.pid,
             name |-> kept[i].message.name, when |-> LogTime(kept[i].timestamp),
             stick |-> kept[i].stick]]
  BY DEF UnifiedLogEvents
<1>2. \A i \in DOMAIN lines : i \in places <=> lines[i].stick # None /\ lines[i].timestamp # None
  BY DEF IsEnumeration, LineIsTrue, ToSet
<1>3. places \in SUBSET DOMAIN lines
  OBVIOUS
<1> HIDE DEF places
<1>4. /\ \A k \in DOMAIN kept : \E i \in places : kept[k] = lines[i]
      /\ \A i \in places : \E k \in DOMAIN kept : kept[k] = lines[i]
  BY <1>3, KeptExactly
<1> HIDE DEF kept
<1>5. \A seen : (\E dev \in ToSet(UnifiedLogEvents(lines)) : seen = Sighting("mac_log", dev))
                    <=> \E k \in DOMAIN kept : seen = <<kept[k].stick, LogTime(kept[k].timestamp)>>
  BY <1>1 DEF ToSet, Sighting
<1>6. \A line : line \in {l \in ToSet(lines) : l.stick # None /\ l.timestamp # None}
                    <=> \E i \in places : line = lines[i]
  BY <1>2, <1>3 DEF ToSet
<1> QED
  BY <1>4, <1>5, <1>6 DEF SawInLog, LogTime

LEMMA PlistFinds ==
    ASSUME NEW entries, IsList(entries), \A entry \in ToSet(entries) : EntryIsTrue(entry)
    PROVE  \A seen : (\E dev \in ToSet(IPodDevices(entries)) : seen = Sighting("apple_devices", dev))
                         <=> seen \in SawInPlist(entries)
<1> DEFINE places == {i \in DOMAIN entries : entries[i].is_dictionary}
           kept == Kept(entries, places)
<1>1. IPodDevices(entries) =
        [i \in DOMAIN kept |->
            [serial |-> kept[i].serial_number, id |-> OrElse(kept[i].id, kept[i].key),
             model |-> OrElse(kept[i].product_type, kept[i].device_class),
             last_connected |-> EpochSeconds(kept[i].connected), stick |-> kept[i].stick]]
  BY DEF IPodDevices
<1>2. \A i \in DOMAIN entries : EpochSeconds(entries[i].connected) = entries[i].connected
  BY DEF EpochSeconds, EntryIsTrue, ToSet
<1>3. places \in SUBSET DOMAIN entries
  OBVIOUS
<1>4. \A entry : entry \in {e \in ToSet(entries) : e.is_dictionary}
                     <=> \E i \in places : entry = entries[i]
  BY DEF ToSet
<1> HIDE DEF places
<1>5. /\ \A k \in DOMAIN kept : \E i \in places : kept[k] = entries[i]
      /\ \A i \in places : \E k \in DOMAIN kept : kept[k] = entries[i]
  BY <1>3, KeptExactly
<1> HIDE DEF kept
<1>6. \A seen : (\E dev \in ToSet(IPodDevices(entries)) : seen = Sighting("apple_devices", dev))
                    <=> \E k \in DOMAIN kept : seen = <<kept[k].stick, EpochSeconds(kept[k].connected)>>
  BY <1>1 DEF ToSet, Sighting
<1> QED
  BY <1>2, <1>3, <1>4, <1>5, <1>6 DEF SawInPlist

LEMMA ProfilerSees ==
    ASSUME NEW trees, IsList(trees), ToSet(trees) \subseteq TreeNodes
    PROVE  \A seen : (\E dev \in ToSet(SystemProfilerDevices(trees)) : seen = Sighting("mac_usb", dev))
                         <=> seen \in SawInTrees(trees)
<1>1. ToSet(SystemProfilerDevices(trees)) = DevicesOf(Below(ToSet(trees)))
  BY ProfilerFinds
<1>2. ASSUME NEW node PROVE Sighting("mac_usb", MacUsbDevice(node)) = <<node.stick, None>>
  BY DEF Sighting, MacUsbDevice
<1> QED
  BY <1>1, <1>2 DEF DevicesOf, SawInTrees, IsDeviceNode

\* At the end, the records of a file that is still there are what its reader
\* finds in it.
LEMMA RecordsOfFile ==
    ASSUME IInv, Recognised, pc = "done", NEW path \in ToSet(paths) \ gone, NEW o \in Origin,
           FileAt[path].kind \in Marker, FileAt[path].intact, o \in OriginsOf(FileAt[path].kind)
    PROVE  path \in Paths /\ \A x : (\E r \in WitnessesOf(path, o) : r.record = x)
                                        <=> x \in ToSet(Decoded[path][o])
<1>1. /\ EveryFileReadAsItself /\ paths \in Seq(Paths) /\ DOMAIN paths = 1..Len(paths)
      /\ \A r \in ToSet(ingested[o]) : r.file \in DOMAIN paths
  BY DoneReadsAll DEF IInv, Stage, TypeOK, EveryFileReadAsItself
<1>2. path \in Paths
  BY <1>1 DEF ToSet
<1>3. ASSUME NEW k \in DOMAIN paths, paths[k] = path
      PROVE  Contents(FromFile(o, k)) = Contents(ToSet(Found(k, o)))
  BY <1>1, <1>3 DEF EveryFileReadAsItself, Genuine
<1>4. ASSUME NEW k \in DOMAIN paths, paths[k] = path
      PROVE  \A x : (\E r \in FromFile(o, k) : r.record = x) <=> x \in ToSet(Decoded[path][o])
  <2>1. \A x : (\E r \in FromFile(o, k) : r.record = x)
                  <=> \E r \in ToSet(Found(k, o)) : r.record = x
    <3>1. ASSUME NEW S, NEW T, Contents(S) = Contents(T), NEW r \in S
          PROVE  \E q \in T : q.record = r.record
      <4>1. <<r.file, r.nr, r.record>> \in Contents(T)
        BY <3>1 DEF Contents
      <4>2. PICK q \in T : <<r.file, r.nr, r.record>> = <<q.file, q.nr, q.record>>
        BY <4>1 DEF Contents
      <4> QED
        BY <4>2
    <3> QED
      BY <1>3, <1>4, <3>1
  <2>2. PICK records : records = Decoded[paths[k]][o]
    OBVIOUS
  <2>3. Found(k, o) = [i \in DOMAIN records |-> [file |-> k, nr |-> i, record |-> records[i]]]
    BY <2>2 DEF Found
  <2>4. \A x : (\E r \in ToSet(Found(k, o)) : r.record = x) <=> x \in ToSet(records)
    BY <2>3 DEF ToSet
  <2> QED
    BY <1>4, <2>1, <2>2, <2>4
<1>5. PICK k \in DOMAIN paths : paths[k] = path
  BY DEF ToSet
<1>6. \A r : r \in WitnessesOf(path, o) <=> \E l \in DOMAIN paths : paths[l] = path /\ r \in FromFile(o, l)
  BY <1>1 DEF WitnessesOf, FromFile
<1> QED
  BY <1>2, <1>4, <1>5, <1>6

(***************************************************************************)
(* Of files that are what they say, whatever their order, and however some *)
(* of them go away: an event log is a witness of the configurations,       *)
(* arrivals and removals of USB devices in it and of nothing else, and a   *)
(* macOS capture of every device in it, at the moment it says.             *)
(***************************************************************************)
THEOREM WitnessesRealAlways ==
    ASSUME FilesAreTrue
    PROVE  Spec => [](Recognised => WitnessesReal)
<1>1. ASSUME IInv, Recognised, pc = "done" PROVE LogWitnessesReal
  <2> SUFFICES ASSUME NEW path \in ToSet(paths) \ gone,
                      FileAt[path].kind = "evtx", FileAt[path].intact
               PROVE  /\ {r.record.at : r \in WitnessesOf(path, "kernel_pnp")}
                            = {raw.time : raw \in Meant(path, "kernel_pnp", {"configured"})}
                      /\ {<<r.record.at, r.record.disconnect>> :
                              r \in WitnessesOf(path, "driver_framework")}
                            = {<<raw.time, raw.meaning = "removed">> :
                                  raw \in Meant(path, "driver_framework", {"arrived", "removed"})}
    BY DEF LogWitnessesReal
  <2>1. FileAt[path].kind \in Marker /\ OriginsOf(FileAt[path].kind) = LogOrigins
    BY DEF Marker, OriginsOf
  <2>2. {"kernel_pnp", "driver_framework"} \subseteq Origin \cap LogOrigins
    BY DEF Origin, LogOrigins
  <2>3. path \in Paths
    BY <1>1 DEF ToSet, IInv, Stage, TypeOK
  <2>4. PICK pnp : pnp = FileAt[path].holds["kernel_pnp"]
    OBVIOUS
  <2>5. PICK umdf : umdf = FileAt[path].holds["driver_framework"]
    OBVIOUS
  <2>6. /\ Decoded[path]["kernel_pnp"] = KernelPnpEvents(pnp)
        /\ Decoded[path]["driver_framework"] = DriverFrameworkEvents(umdf)
    BY <2>2, <2>3, <2>4, <2>5 DEF Decoded
  <2>7. IsList(pnp) /\ IsList(umdf) /\ LogIsTrue(FileAt[path])
    BY <2>2, <2>3, <2>4, <2>5, IngestAssumption DEF FilesAreTrue
  <2>8. \A x : (\E r \in WitnessesOf(path, "kernel_pnp") : r.record = x)
                   <=> x \in ToSet(KernelPnpEvents(pnp))
    BY <1>1, <2>1, <2>2, <2>6, RecordsOfFile
  <2>9. \A x : (\E r \in WitnessesOf(path, "driver_framework") : r.record = x)
                   <=> x \in ToSet(DriverFrameworkEvents(umdf))
    BY <1>1, <2>1, <2>2, <2>6, RecordsOfFile
  <2>10. \A at : (\E event \in ToSet(KernelPnpEvents(pnp)) : event.at = at)
                     <=> \E raw \in ToSet(pnp) : raw.meaning = "configured" /\ raw.time = at
    BY <2>4, <2>7, KernelPnpFinds DEF LogIsTrue
  <2>11. \A at, removed :
            (\E event \in ToSet(DriverFrameworkEvents(umdf)) :
                event.at = at /\ event.disconnect = removed)
                <=> \E raw \in ToSet(umdf) : /\ raw.meaning \in {"arrived", "removed"}
                                             /\ raw.time = at
                                             /\ (raw.meaning = "removed") = removed
    BY <2>5, <2>7, DriverFrameworkFinds DEF LogIsTrue
  <2>12. {r.record.at : r \in WitnessesOf(path, "kernel_pnp")}
            = {raw.time : raw \in Meant(path, "kernel_pnp", {"configured"})}
    <3>1. \A at : at \in {r.record.at : r \in WitnessesOf(path, "kernel_pnp")}
                     <=> \E event \in ToSet(KernelPnpEvents(pnp)) : event.at = at
      BY <2>8
    <3>2. \A at : at \in {raw.time : raw \in Meant(path, "kernel_pnp", {"configured"})}
                     <=> \E raw \in ToSet(pnp) : raw.meaning = "configured" /\ raw.time = at
      BY <2>4 DEF Meant
    <3>3. \A at : at \in {r.record.at : r \in WitnessesOf(path, "kernel_pnp")}
                     <=> at \in {raw.time : raw \in Meant(path, "kernel_pnp", {"configured"})}
      BY <2>10, <3>1, <3>2
    <3> QED
      BY <3>3
  <2>13. {<<r.record.at, r.record.disconnect>> : r \in WitnessesOf(path, "driver_framework")}
            = {<<raw.time, raw.meaning = "removed">> :
                  raw \in Meant(path, "driver_framework", {"arrived", "removed"})}
    <3> DEFINE A == {<<r.record.at, r.record.disconnect>> : r \in WitnessesOf(path, "driver_framework")}
               B == {<<raw.time, raw.meaning = "removed">> :
                        raw \in Meant(path, "driver_framework", {"arrived", "removed"})}
    <3>1. ASSUME NEW x \in A PROVE x \in B
      <4>1. PICK r \in WitnessesOf(path, "driver_framework") : x = <<r.record.at, r.record.disconnect>>
        OBVIOUS
      <4>2. r.record \in ToSet(DriverFrameworkEvents(umdf))
        BY <2>9
      <4>3. PICK raw \in ToSet(umdf) : /\ raw.meaning \in {"arrived", "removed"}
                                       /\ raw.time = r.record.at
                                       /\ (raw.meaning = "removed") = r.record.disconnect
        BY <2>11, <4>2
      <4>4. raw \in Meant(path, "driver_framework", {"arrived", "removed"})
        BY <2>5, <4>3 DEF Meant
      <4>5. x = <<raw.time, raw.meaning = "removed">>
        BY <4>1, <4>3
      <4> QED
        BY <4>4, <4>5
    <3>2. ASSUME NEW x \in B PROVE x \in A
      <4>1. PICK raw \in Meant(path, "driver_framework", {"arrived", "removed"}) :
                x = <<raw.time, raw.meaning = "removed">>
        OBVIOUS
      <4>2. raw \in ToSet(umdf) /\ raw.meaning \in {"arrived", "removed"}
        BY <2>5 DEF Meant
      <4>3. PICK event \in ToSet(DriverFrameworkEvents(umdf)) :
                event.at = raw.time /\ event.disconnect = (raw.meaning = "removed")
        BY <2>11, <4>2
      <4>4. PICK r \in WitnessesOf(path, "driver_framework") : r.record = event
        BY <2>9
      <4> QED
        BY <4>1, <4>3, <4>4
    <3> HIDE DEF A, B
    <3>3. A = B
      BY <3>1, <3>2
    <3> QED
      BY <3>3 DEF A, B
  <2> QED
    BY <2>12, <2>13
<1>2. ASSUME IInv, Recognised, pc = "done" PROVE CaptureWitnessesReal
  <2> SUFFICES ASSUME NEW path \in ToSet(paths) \ gone,
                      NEW o \in {"mac_log", "mac_usb", "apple_devices"},
                      FileAt[path].intact, o \in OriginsOf(FileAt[path].kind)
               PROVE  {Sighting(o, r.record) : r \in WitnessesOf(path, o)} = FileAt[path].saw
    BY DEF CaptureWitnessesReal
  <2>1. path \in Paths /\ FileAt[path].kind \in Kind /\ o \in Origin
    <3>1. path \in Paths
      BY <1>2 DEF ToSet, IInv, Stage, TypeOK
    <3>2. o \in Origin
      BY DEF Origin, WholeOrigins
    <3> QED
      BY <3>1, <3>2, IngestAssumption
  <2>2. /\ o = "mac_log" => FileAt[path].kind = "unified_log"
        /\ o = "mac_usb" => FileAt[path].kind = "profiler"
        /\ o = "apple_devices" => FileAt[path].kind = "plist"
    BY <2>1 DEF OriginsOf, Kind, Marker, HiveOrigins, LogOrigins
  <2>3. FileAt[path].kind \in Marker
    BY <2>2 DEF Marker
  <2>4. PICK raw : raw = FileAt[path].holds[o]
    OBVIOUS
  <2>5. IsList(raw)
    BY <2>1, <2>4, IngestAssumption
  <2>6. \A x : (\E r \in WitnessesOf(path, o) : r.record = x) <=> x \in ToSet(Decoded[path][o])
    BY <1>2, <2>1, <2>3, RecordsOfFile
  <2>7. \A seen : (\E dev \in ToSet(Decoded[path][o]) : seen = Sighting(o, dev))
                      <=> seen \in FileAt[path].saw
    <3>1. CASE o = "mac_log"
      <4>1. Decoded[path][o] = UnifiedLogEvents(raw)
        BY <2>1, <2>4, <3>1 DEF Decoded
      <4>2. (\A line \in ToSet(raw) : LineIsTrue(line)) /\ FileAt[path].saw = SawInLog(raw)
        BY <2>1, <2>2, <2>4, <3>1 DEF FilesAreTrue
      <4> QED
        BY <2>5, <3>1, <4>1, <4>2, UnifiedLogFinds
    <3>2. CASE o = "mac_usb"
      <4>1. Decoded[path][o] = SystemProfilerDevices(raw)
        BY <2>1, <2>4, <3>2 DEF Decoded
      <4>2. ToSet(raw) \subseteq TreeNodes /\ FileAt[path].saw = SawInTrees(raw)
        BY <2>1, <2>2, <2>4, <3>2, IngestAssumption DEF FilesAreTrue
      <4> QED
        BY <2>5, <3>2, <4>1, <4>2, ProfilerSees
    <3>3. CASE o = "apple_devices"
      <4>1. Decoded[path][o] = IPodDevices(raw)
        BY <2>1, <2>4, <3>3 DEF Decoded
      <4>2. (\A entry \in ToSet(raw) : EntryIsTrue(entry)) /\ FileAt[path].saw = SawInPlist(raw)
        BY <2>1, <2>2, <2>4, <3>3 DEF FilesAreTrue
      <4> QED
        BY <2>5, <3>3, <4>1, <4>2, PlistFinds
    <3> QED
      BY <3>1, <3>2, <3>3
  <2>8. \A seen : seen \in {Sighting(o, r.record) : r \in WitnessesOf(path, o)}
                      <=> \E dev \in ToSet(Decoded[path][o]) : seen = Sighting(o, dev)
    BY <2>6
  <2>9. \A seen : seen \in {Sighting(o, r.record) : r \in WitnessesOf(path, o)}
                      <=> seen \in FileAt[path].saw
    BY <2>7, <2>8
  <2> QED
    BY <2>9
<1>3. IInv => (Recognised => WitnessesReal)
  BY <1>1, <1>2 DEF WitnessesReal
<1> QED
  BY <1>3, IngestInvariant, PTL
=============================================================================
