---------------------------- MODULE Walk_proofs ----------------------------
(***************************************************************************)
(* Theorems about Walk, for any file system, arguments and options: no     *)
(* file is given twice, none that cannot be reached, and none is missing.  *)
(* That the walk ends is left to TLC.                                      *)
(***************************************************************************)
EXTENDS Walk, TLAPS

\* The arguments that have been begun.
Begun == Args(arg)

\* The items whose node is on a way from those and whose root is a root.
OnTheWay == [node : Reach(Begun) \cup {Missing}, root : Roots(Begun)]

WalkIInv ==
  /\ TypeOK
  /\ given \subseteq processed /\ GivenOnce
  /\ todo \in Seq(OnTheWay)
  /\ given \subseteq Due(Begun)

-----------------------------------------------------------------------------
\* The parts of a world have their types.
LEMMA WorldParts ==
  ASSUME TypeOK
  PROVE  /\ world.kind \in [Nodes -> Kinds]
         /\ world.children \in [Nodes -> Seq(Nodes)]
         /\ world.target \in [Nodes -> Nodes \cup {Missing}]
         /\ world.wanted \subseteq Nodes
         /\ world.args \in Seq(Nodes)
BY WalkAssumption DEF TypeOK, WorldType

LEMMA BegunType == ASSUME TypeOK PROVE Begun \subseteq Nodes
<1>1. /\ world.args \in Seq(Nodes) /\ Len(world.args) \in Nat
      /\ arg \in 0 .. Len(world.args)
  BY WorldParts DEF TypeOK
<1>2. QED
  BY <1>1 DEF Begun, Args

\* Roots are nodes, and so are the nodes on the way.
LEMMA OnTheWayType ==
  ASSUME TypeOK PROVE OnTheWay \subseteq ItemType
<1>1. ASSUME NEW b \in Nodes, Mounts(b) PROVE Head(Inner(b)) \in Nodes
  <2>1. Inner(b) \in Seq(Nodes) /\ Inner(b) # <<>>
    BY <1>1, WorldParts DEF Mounts, Inner
  <2>2. QED
    BY <2>1
<1>2. Begun \subseteq Nodes
  BY BegunType
<1>3. Roots(Begun) \subseteq Nodes
  BY <1>1, <1>2 DEF Roots
<1>4. QED
  BY <1>3 DEF OnTheWay, ItemType, Reach

\* What is one step below what is reached is reached.
LEMMA ReachStep ==
  ASSUME NEW T, NEW n \in Reach(T), NEW m \in Nodes, Below(m, n, Roots(T))
  PROVE  m \in Reach(T)
BY DEF Reach, Closed

\* What is walked is reached.
LEMMA ReachStart == ASSUME NEW T \in SUBSET Nodes PROVE T \subseteq Reach(T)
BY DEF Reach

\* The more is walked, the more is reached.
LEMMA ReachMonotone ==
  ASSUME NEW T, NEW U, T \subseteq U
  PROVE  Reach(T) \subseteq Reach(U) /\ Roots(T) \subseteq Roots(U) /\ Due(T) \subseteq Due(U)
<1>1. Roots(T) \subseteq Roots(U)
  BY DEF Roots
<1>2. Reach(T) \subseteq Reach(U)
  <2>1. \A S : Closed(S, Roots(U)) => Closed(S, Roots(T))
    BY <1>1 DEF Closed, Below
  <2>2. QED
    BY <2>1 DEF Reach
<1>3. QED
  BY <1>1, <1>2 DEF Due

\* What is on the way depends on the arguments begun and on the options alone.
LEMMA OptionsFrame ==
  ASSUME UNCHANGED <<options, arg>>
  PROVE  OnTheWay' = OnTheWay /\ Due(Begun)' = Due(Begun)
<1>1. Reach(Begun)' = Reach(Begun) /\ Roots(Begun)' = Roots(Begun)
  BY DEF options, Reach, Roots, Begun, Args, Closed, Below, Elems, Mounts, Kind, Inner
<1>2. QED
  BY <1>1 DEF options, OnTheWay, Due, IsFile, HasSuffix, Kind, Inner

\* Now is on the way.
LEMMA NowOnTheWay ==
  ASSUME WalkIInv, todo # <<>>
  PROVE  /\ Now \in OnTheWay /\ Now.root \in Roots(Begun)
         /\ Node # Missing => Node \in Nodes /\ Node \in Reach(Begun)
<1>1. Now \in OnTheWay
  BY DEF WalkIInv, Now
<1>2. QED
  BY <1>1 DEF OnTheWay, Node, Reach

-----------------------------------------------------------------------------
LEMMA WalkInitInv == Init => WalkIInv
<1> SUFFICES ASSUME Init PROVE WalkIInv
  OBVIOUS
<1>1. world.args \in Seq(Nodes)
  BY WalkAssumption DEF Init, WorldType
<1>2. TypeOK
  <2>1. arg \in 0 .. Len(world.args)
    BY <1>1 DEF Init
  <2>2. todo \in Seq(ItemType)
    BY DEF Init
  <2>3. QED
    BY <2>1, <2>2 DEF Init, TypeOK
<1>3. QED
  BY <1>2 DEF Init, WalkIInv, GivenOnce

\* Nothing new is handed over, and what is left to do is on the way.
LEMMA NothingGivenInv ==
  ASSUME WalkIInv, UNCHANGED <<options, arg, given, again>>, todo' \in Seq(OnTheWay),
         processed \subseteq processed', processed' \subseteq Nodes, cancelled' \in BOOLEAN,
         outcome' \in {"walking", "done", "error", "canceled"}
  PROVE  WalkIInv'
<1>1. OnTheWay' = OnTheWay /\ Due(Begun)' = Due(Begun)
  BY OptionsFrame
<1>2. todo' \in Seq(ItemType)
  BY OnTheWayType DEF WalkIInv
<1>3. TypeOK'
  BY <1>2 DEF WalkIInv, TypeOK, options
<1>4. QED
  BY <1>1, <1>3 DEF WalkIInv, GivenOnce

\* A visit that hands nothing over.
LEMMA DescendInv ==
  ASSUME WalkIInv, todo # <<>>, NEW items \in Seq(OnTheWay), Descend(items),
         NEW noted \in SUBSET Nodes, processed' = processed \cup noted,
         UNCHANGED <<options, arg, given, again, cancelled, outcome>>
  PROVE  WalkIInv'
<1>1. todo' \in Seq(OnTheWay)
  <2>1. Tail(todo) \in Seq(OnTheWay)
    BY DEF WalkIInv
  <2>2. QED
    BY <2>1 DEF Descend
<1>2. /\ processed \subseteq processed' /\ processed' \subseteq Nodes
      /\ cancelled' \in BOOLEAN /\ outcome' \in {"walking", "done", "error", "canceled"}
  BY DEF WalkIInv, TypeOK
<1>3. QED
  BY <1>1, <1>2, NothingGivenInv

LEMMA AbandonInv ==
  ASSUME WalkIInv, NEW how \in {"error", "canceled"}, Abandon(how) PROVE WalkIInv'
<1>1. todo' \in Seq(OnTheWay)
  BY DEF Abandon
<1>2. /\ UNCHANGED <<options, arg, given, again>>
      /\ processed \subseteq processed' /\ processed' \subseteq Nodes /\ cancelled' \in BOOLEAN
      /\ outcome' \in {"walking", "done", "error", "canceled"}
  BY DEF Abandon, WalkIInv, TypeOK
<1>3. QED
  BY <1>1, <1>2, NothingGivenInv

LEMMA VisitDirInv == ASSUME WalkIInv, VisitDir PROVE WalkIInv'
<1> DEFINE items == [i \in DOMAIN world.children[Node] |->
                       Item(world.children[Node][i], Now.root)]
<1>1. /\ todo # <<>> /\ Node \in Nodes /\ Node \in Reach(Begun)
      /\ Now.root \in Roots(Begun)
  BY NowOnTheWay DEF VisitDir, Visiting
<1>2. world.children[Node] \in Seq(Nodes)
  BY <1>1, WorldParts DEF WalkIInv
<1>3. ASSUME recursive \/ Node = Now.root PROVE items \in Seq(OnTheWay)
  <2>1. ASSUME NEW i \in DOMAIN world.children[Node]
        PROVE  Item(world.children[Node][i], Now.root) \in OnTheWay
    <3>1. world.children[Node][i] \in Nodes
      BY <1>2
    <3>2. Below(world.children[Node][i], Node, Roots(Begun))
      BY <1>1, <1>3 DEF Below, Elems, VisitDir
    <3>3. world.children[Node][i] \in Reach(Begun)
      BY <1>1, <3>1, <3>2, ReachStep
    <3>4. QED
      BY <1>1, <3>3 DEF OnTheWay, Item
  <2>2. DOMAIN world.children[Node] = 1 .. Len(world.children[Node])
        /\ Len(world.children[Node]) \in Nat
    BY <1>2
  <2>3. QED
    BY <2>1, <2>2
<1>4. /\ UNCHANGED <<options, arg, given, again, cancelled, outcome>>
      /\ processed' = processed \cup {Node}
  BY DEF VisitDir
<1>5. CASE Descend(items) /\ (recursive \/ Node = Now.root)
  BY <1>1, <1>3, <1>4, <1>5, DescendInv
<1>6. CASE Descend(<<>>)
  <2>1. <<>> \in Seq(OnTheWay)
    OBVIOUS
  <2>2. QED
    BY <1>1, <1>4, <1>6, <2>1, DescendInv
<1>7. QED
  BY <1>5, <1>6 DEF VisitDir

\* The items take the place of Now and nothing else happens.
LEMMA ReplaceInv ==
  ASSUME WalkIInv, todo # <<>>, NEW items \in Seq(OnTheWay), Descend(items),
         UNCHANGED <<options, arg, processed, given, again, cancelled, outcome>>
  PROVE  WalkIInv'
<1>1. processed' = processed \cup {}
  OBVIOUS
<1>2. UNCHANGED <<options, arg, given, again, cancelled, outcome>>
  OBVIOUS
<1>3. {} \in SUBSET Nodes
  OBVIOUS
<1>4. QED
  BY <1>1, <1>2, <1>3, DescendInv

LEMMA VisitLinkInv == ASSUME WalkIInv, VisitLink PROVE WalkIInv'
<1>1. /\ todo # <<>> /\ Node \in Nodes /\ Node \in Reach(Begun)
      /\ Now.root \in Roots(Begun)
  BY NowOnTheWay DEF VisitLink, Visiting
<1>2. CASE Descend(<<>>) /\ UNCHANGED <<options, arg, processed, given, again, cancelled, outcome>>
  <2>1. <<>> \in Seq(OnTheWay)
    OBVIOUS
  <2>2. QED
    BY <1>1, <1>2, <2>1, ReplaceInv
<1>3. CASE /\ follow /\ Descend(<<Item(world.target[Node], Now.root)>>)
           /\ UNCHANGED <<options, arg, processed, given, again, cancelled, outcome>>
  <2>1. world.target[Node] \in Nodes \cup {Missing}
    BY <1>1, WorldParts DEF WalkIInv
  <2>2. Below(world.target[Node], Node, Roots(Begun))
    BY <1>3 DEF Below, VisitLink
  <2>3. world.target[Node] = Missing \/ world.target[Node] \in Reach(Begun)
    BY <1>1, <2>1, <2>2, ReachStep
  <2>4. <<Item(world.target[Node], Now.root)>> \in Seq(OnTheWay)
    BY <1>1, <2>3 DEF Item, OnTheWay
  <2>5. QED
    BY <1>1, <1>3, <2>4, ReplaceInv
<1>4. CASE Abandon("error")
  BY <1>4, AbandonInv
<1>5. QED
  BY <1>2, <1>3, <1>4 DEF VisitLink

LEMMA VisitArchiveInv == ASSUME WalkIInv, VisitArchive PROVE WalkIInv'
<1> DEFINE inner == Head(Inner(Node))
<1>1. todo # <<>> /\ Node \in Nodes /\ Node \in Reach(Begun)
  BY NowOnTheWay DEF VisitArchive, Visiting
<1>2. Inner(Node) \in Seq(Nodes) /\ Inner(Node) # <<>>
  BY <1>1, WorldParts DEF WalkIInv, VisitArchive, Mounts, Inner
<1>3. inner \in Nodes
  BY <1>2
<1>4. Below(inner, Node, Roots(Begun))
  BY DEF VisitArchive, Below
<1>5. inner \in Reach(Begun)
  BY <1>1, <1>3, <1>4, ReachStep
<1>6. inner \in Roots(Begun)
  BY <1>1 DEF VisitArchive, Roots
<1>7. <<Item(inner, inner)>> \in Seq(OnTheWay)
  BY <1>5, <1>6 DEF Item, OnTheWay
<1>8. QED
  BY <1>1, <1>7, ReplaceInv DEF VisitArchive

\* A file is handed over only when it was not processed, so never again.
LEMMA VisitFileInv == ASSUME WalkIInv, VisitFile PROVE WalkIInv'
<1>1. todo # <<>> /\ Node \in Nodes /\ Node \in Reach(Begun)
  BY NowOnTheWay DEF VisitFile, Visiting
<1>2. UNCHANGED <<options, arg, cancelled, outcome>> /\ todo' = Tail(todo)
  BY <1>1 DEF VisitFile, Descend, WalkIInv
<1>3. todo' \in Seq(OnTheWay) /\ todo' \in Seq(ItemType)
  <2>1. Tail(todo) \in Seq(OnTheWay)
    BY <1>1 DEF WalkIInv
  <2>2. QED
    BY <1>2, <2>1, OnTheWayType DEF WalkIInv
<1>4. OnTheWay' = OnTheWay /\ Due(Begun)' = Due(Begun)
  BY <1>2, OptionsFrame
<1>5. /\ processed' \subseteq Nodes /\ given' \subseteq Nodes /\ again' = {}
      /\ given' \subseteq processed'
      /\ given' \subseteq Due(Begun)
  BY <1>1 DEF VisitFile, WalkIInv, TypeOK, GivenOnce, Due
<1>6. TypeOK'
  BY <1>2, <1>3, <1>5 DEF WalkIInv, TypeOK, options
<1>7. QED
  BY <1>3, <1>4, <1>5, <1>6 DEF WalkIInv, GivenOnce

LEMMA NextArgInv == ASSUME WalkIInv, NextArg PROVE WalkIInv'
<1> DEFINE a == world.args[arg + 1]
<1>1. /\ world.args \in Seq(Nodes) /\ arg \in 0 .. Len(world.args) /\ arg < Len(world.args)
      /\ Len(world.args) \in Nat
  BY WorldParts DEF WalkIInv, TypeOK, NextArg
<1>2. a \in Nodes /\ a \in Begun' /\ Begun \subseteq Begun'
  BY <1>1 DEF Begun, Args, NextArg, options
<1>3. TypeOK'
  <2>1. arg' \in 0 .. Len(world.args)
    BY <1>1 DEF NextArg
  <2>2. todo' \in Seq(ItemType)
    BY <1>2 DEF NextArg, ItemType, Item
  <2>3. QED
    BY <2>1, <2>2 DEF WalkIInv, TypeOK, NextArg, options
<1>4. Due(Begun)' = Due(Begun') /\ Reach(Begun)' = Reach(Begun') /\ Roots(Begun)' = Roots(Begun')
  BY DEF NextArg, options, Reach, Due, IsFile, HasSuffix, Roots, Closed, Below, Elems, Mounts,
     Kind, Inner
<1>5. given' \subseteq Due(Begun)'
  BY <1>2, <1>4, ReachMonotone DEF WalkIInv, NextArg
<1>6. todo' \in Seq(OnTheWay')
  <2>1. Begun' \subseteq Nodes
    BY <1>1, <1>2, BegunType DEF WalkIInv, Begun, Args, NextArg, options
  <2>2. a \in Reach(Begun)' /\ a \in Roots(Begun)'
    BY <1>2, <1>4, <2>1, ReachStart DEF Roots
  <2>3. todo' = <<Item(a, a)>>
    BY DEF NextArg
  <2>4. QED
    BY <2>2, <2>3 DEF OnTheWay, Item
<1>7. QED
  BY <1>3, <1>5, <1>6 DEF WalkIInv, NextArg, GivenOnce

LEMMA WalkNextInv == WalkIInv /\ [Next]_vars => WalkIInv'
<1> SUFFICES ASSUME WalkIInv, [Next]_vars PROVE WalkIInv'
  OBVIOUS
<1>1. CASE NextArg
  BY <1>1, NextArgInv
<1>2. CASE Finish \/ Cancel \/ UNCHANGED vars
  <2>1. /\ UNCHANGED <<options, arg, given, again, todo, processed>>
        /\ cancelled' \in BOOLEAN
        /\ outcome' \in {"walking", "done", "error", "canceled"}
    BY <1>2 DEF Finish, Cancel, vars, WalkIInv, TypeOK
  <2>2. /\ todo' \in Seq(OnTheWay)
        /\ processed \subseteq processed' /\ processed' \subseteq Nodes
    BY <2>1 DEF WalkIInv, TypeOK
  <2>3. QED
    BY <2>1, <2>2, NothingGivenInv
<1>3. CASE Canceled
  BY <1>3, AbandonInv DEF Canceled
<1>4. CASE Fail
  BY <1>4, AbandonInv DEF Fail
<1>5. CASE VisitDir
  BY <1>5, VisitDirInv
<1>6. CASE VisitLink
  BY <1>6, VisitLinkInv
<1>7. CASE VisitArchive
  BY <1>7, VisitArchiveInv
<1>8. CASE VisitFile
  BY <1>8, VisitFileInv
<1>9. QED
  BY <1>1, <1>2, <1>3, <1>4, <1>5, <1>6, <1>7, <1>8 DEF Next, Walk, Visit

-----------------------------------------------------------------------------
(* The walk misses nothing: between what is settled and what is not yet    *)
(* walked lie the nodes to be visited.                                     *)

OpenRoots == Roots(Open(Len(world.args)))
Ahead     == {todo[i].node : i \in DOMAIN todo}

\* S is settled but for what is ahead: its files have been handed over, and what is one
\* step below it is settled or ahead.
Settled(S) ==
  \A n \in S : /\ IsFile(n) /\ HasSuffix(n) => n \in given
               /\ \A m \in Nodes : Below(m, n, OpenRoots) => m \in S \cup Ahead

\* S holds what has been walked: what is processed and what has been begun.
Frontier(S) ==
  /\ \A n \in processed : Kind(n) = "dir" => n \in S
  /\ Open(arg) \subseteq S \cup Ahead
  /\ Settled(S)

\* The directories that are roots are walked as roots before they are met otherwise:
\* that of an archive because nothing else leads to it, an argument because it is open.
RootsFirst ==
  /\ \A i \in DOMAIN todo : \A a \in Nodes :
       Mounts(a) /\ todo[i].node = Head(Inner(a)) => todo[i].root = todo[i].node
  /\ \A i \in 1 .. arg :
       ~Shadowed(i) /\ Kind(world.args[i]) = "dir" =>
         \/ world.args[i] \in processed
         \/ i = arg /\ todo = <<Item(world.args[i], world.args[i])>>

FrontierInv ==
  /\ outcome = "done" => todo = <<>> /\ arg = Len(world.args)
  /\ outcome \in {"walking", "done"} =>
       /\ \A n \in processed : Kind(n) = "dir" \/ n \in given
       /\ RootsFirst
       /\ \E S \in SUBSET Nodes : Frontier(S)
-----------------------------------------------------------------------------
\* What is a root, what is open and what lies below what depend on the options alone.
LEMMA RootsFrame ==
  ASSUME UNCHANGED options
  PROVE  /\ OpenRoots' = OpenRoots
         /\ \A i : Shadowed(i)' <=> Shadowed(i)
         /\ \A n : /\ Kind(n)' = Kind(n) /\ (Mounts(n)' <=> Mounts(n)) /\ Inner(n)' = Inner(n)
                   /\ (IsFile(n)' <=> IsFile(n)) /\ (HasSuffix(n)' <=> HasSuffix(n))
         /\ \A m, n : Below(m, n, OpenRoots)' <=> Below(m, n, OpenRoots)
<1>1. world' = world /\ recursive' = recursive /\ follow' = follow
  BY DEF options
<1>2. \A n : /\ Kind(n)' = Kind(n) /\ (Mounts(n)' <=> Mounts(n)) /\ Inner(n)' = Inner(n)
             /\ (IsFile(n)' <=> IsFile(n)) /\ (HasSuffix(n)' <=> HasSuffix(n))
  BY <1>1 DEF Kind, Mounts, Inner, IsFile, HasSuffix
<1>3. \A i : Shadowed(i)' <=> Shadowed(i)
  BY <1>1 DEF Shadowed, Reach, Roots, Args, Closed, Below, Elems, Mounts, Kind, Inner
<1>4. OpenRoots' = OpenRoots
  BY <1>1, <1>3 DEF OpenRoots, Open, Roots, Mounts, Kind, Inner
<1>5. \A m, n : Below(m, n, OpenRoots)' <=> Below(m, n, OpenRoots)
  BY <1>1, <1>4 DEF Below, Elems, Mounts, Kind, Inner
<1>6. QED
  BY <1>2, <1>3, <1>4, <1>5

\* What is to be visited after a visit: its items, and what was ahead of it.
LEMMA DescendElems ==
  ASSUME NEW T, todo \in Seq(T), todo # <<>>, NEW items \in Seq(T), Descend(items)
  PROVE  /\ \A j \in DOMAIN todo' : \/ \E i \in DOMAIN items : todo'[j] = items[i]
                                    \/ \E i \in DOMAIN todo : todo'[j] = todo[i]
         /\ \A i \in DOMAIN items : \E j \in DOMAIN todo' : todo'[j] = items[i]
         /\ \A i \in DOMAIN todo : i = 1 \/ \E j \in DOMAIN todo' : todo'[j] = todo[i]
<1>1. /\ Tail(todo) \in Seq(T) /\ Len(Tail(todo)) = Len(todo) - 1
      /\ \A i \in 1 .. Len(todo) - 1 : Tail(todo)[i] = todo[i + 1]
      /\ Len(todo) \in Nat /\ Len(todo) > 0 /\ DOMAIN todo = 1 .. Len(todo)
  OBVIOUS
<1>2. /\ Len(items) \in Nat /\ DOMAIN items = 1 .. Len(items)
      /\ DOMAIN todo' = 1 .. Len(items) + Len(todo) - 1
      /\ \A j \in DOMAIN todo' : todo'[j] = IF j <= Len(items) THEN items[j]
                                            ELSE Tail(todo)[j - Len(items)]
  BY <1>1 DEF Descend
<1>3. ASSUME NEW j \in DOMAIN todo'
      PROVE  \/ \E i \in DOMAIN items : todo'[j] = items[i]
             \/ \E i \in DOMAIN todo : todo'[j] = todo[i]
  <2>1. CASE j <= Len(items)
    BY <1>2, <2>1
  <2>2. CASE j > Len(items)
    <3>1. j - Len(items) \in 1 .. Len(todo) - 1 /\ j - Len(items) + 1 \in DOMAIN todo
      BY <1>1, <1>2, <2>2
    <3>2. todo'[j] = todo[j - Len(items) + 1]
      BY <1>1, <1>2, <2>2, <3>1
    <3>3. QED
      BY <3>1, <3>2
  <2>3. QED
    BY <1>2, <2>1, <2>2
<1>4. ASSUME NEW i \in DOMAIN items PROVE \E j \in DOMAIN todo' : todo'[j] = items[i]
  BY <1>1, <1>2
<1>5. ASSUME NEW i \in DOMAIN todo, i # 1 PROVE \E j \in DOMAIN todo' : todo'[j] = todo[i]
  <2>1. i - 1 \in 1 .. Len(todo) - 1 /\ Len(items) + i - 1 \in DOMAIN todo'
    BY <1>1, <1>2, <1>5
  <2>2. todo'[Len(items) + i - 1] = todo[i]
    BY <1>1, <1>2, <2>1
  <2>3. QED
    BY <2>1, <2>2
<1>6. QED
  BY <1>3, <1>4, <1>5

\* A visit that puts what is below its node ahead, or that has nothing to put.
LEMMA FrontierStep ==
  ASSUME TypeOK, FrontierInv, outcome = "walking", outcome' = "walking",
         todo # <<>>, Node \in Nodes, NEW items \in Seq(ItemType), Descend(items),
         UNCHANGED <<options, arg>>, processed \subseteq processed', given \subseteq given',
         \A n \in processed' : n \in processed \/ n = Node,
         Kind(Node) = "dir" => Node \in processed',
         Node \in processed' => Node \in processed \/ Kind(Node) = "dir" \/ Node \in given',
         IsFile(Node) /\ HasSuffix(Node) => Node \in given',
         \/ Node \in processed /\ Kind(Node) = "dir"
         \/ \A m \in Nodes : Below(m, Node, OpenRoots) =>
              \E i \in DOMAIN items : items[i].node = m,
         \A i \in DOMAIN items : \A a \in Nodes :
           Mounts(a) /\ items[i].node = Head(Inner(a)) => items[i].root = items[i].node
  PROVE  FrontierInv'
<1>1. /\ OpenRoots' = OpenRoots
      /\ \A i : Shadowed(i)' <=> Shadowed(i)
      /\ \A n : /\ Kind(n)' = Kind(n) /\ (Mounts(n)' <=> Mounts(n)) /\ Inner(n)' = Inner(n)
                /\ (IsFile(n)' <=> IsFile(n)) /\ (HasSuffix(n)' <=> HasSuffix(n))
      /\ \A m, n : Below(m, n, OpenRoots)' <=> Below(m, n, OpenRoots)
      /\ world' = world /\ arg' = arg
  BY RootsFrame DEF options
<1>2. todo \in Seq(ItemType)
  BY DEF TypeOK
<1>3. /\ \A j \in DOMAIN todo' : \/ \E i \in DOMAIN items : todo'[j] = items[i]
                                 \/ \E i \in DOMAIN todo : todo'[j] = todo[i]
      /\ \A i \in DOMAIN items : \E j \in DOMAIN todo' : todo'[j] = items[i]
      /\ \A i \in DOMAIN todo : i = 1 \/ \E j \in DOMAIN todo' : todo'[j] = todo[i]
  BY <1>2, DescendElems
<1>4. (\A n \in processed : Kind(n) = "dir" \/ n \in given)'
  BY <1>1 DEF FrontierInv
<1>5. RootsFirst'
  <2>1. ASSUME NEW j \in DOMAIN todo', NEW a \in Nodes,
               Mounts(a), todo'[j].node = Head(Inner(a))
        PROVE  todo'[j].root = todo'[j].node
    <3>1. CASE \E i \in DOMAIN items : todo'[j] = items[i]
      BY <2>1, <3>1
    <3>2. CASE \E i \in DOMAIN todo : todo'[j] = todo[i]
      BY <2>1, <3>2 DEF FrontierInv, RootsFirst
    <3>3. QED
      BY <1>3, <3>1, <3>2
  <2>2. ASSUME NEW i \in 1 .. arg, ~Shadowed(i), Kind(world.args[i]) = "dir"
        PROVE  world.args[i] \in processed'
    <3>1. CASE world.args[i] \in processed
      BY <3>1
    <3>2. CASE todo = <<Item(world.args[i], world.args[i])>>
      BY <2>2, <3>2 DEF Node, Now, Item
    <3>3. QED
      BY <2>2, <3>1, <3>2 DEF FrontierInv, RootsFirst
  <2>3. QED
    BY <1>1, <2>1, <2>2 DEF RootsFirst
<1>6. PICK S \in SUBSET Nodes : Frontier(S)
  BY DEF FrontierInv
<1>7. PICK here \in Nodes : here = Node
  OBVIOUS
<1> DEFINE S2 == S \cup {here}
<1>8. S \cup Ahead \subseteq S2 \cup Ahead'
  <2>1. Node = todo[1].node
    BY <1>2 DEF Node, Now
  <2>2. QED
    BY <1>3, <1>7, <2>1 DEF Ahead
<1>9. \A i \in DOMAIN items : items[i].node \in Ahead'
  BY <1>3 DEF Ahead
<1>10. ASSUME NEW n \in S2, NEW m \in Nodes, Below(m, n, OpenRoots) PROVE m \in S2 \cup Ahead'
  <2>1. CASE n \in S
    BY <1>6, <1>8, <1>10, <2>1 DEF Frontier, Settled
  <2>2. CASE n = here /\ n \notin S
    <3>1. ~(Node \in processed /\ Kind(Node) = "dir")
      BY <1>6, <1>7, <2>2 DEF Frontier
    <3>2. \E i \in DOMAIN items : items[i].node = m
      BY <1>10, <1>7, <2>2, <3>1
    <3>3. QED
      BY <1>9, <3>2
  <2>3. QED
    BY <2>1, <2>2
<1>11. \A n \in S2 : IsFile(n) /\ HasSuffix(n) => n \in given'
  BY <1>6, <1>7 DEF Frontier, Settled
<1>12. \A n \in processed' : Kind(n) = "dir" => n \in S2
  BY <1>6, <1>7 DEF Frontier
<1>13. Open(arg)' \subseteq S2 \cup Ahead'
  <2>1. Open(arg)' = Open(arg)
    BY <1>1 DEF Open
  <2>2. QED
    BY <1>6, <1>8, <2>1 DEF Frontier
<1>14. Settled(S2)'
  BY <1>1, <1>10, <1>11 DEF Settled
<1>15. Frontier(S2)'
  BY <1>1, <1>12, <1>13, <1>14 DEF Frontier
<1>16. S2 \in SUBSET Nodes
  OBVIOUS
<1>17. QED
  BY <1>4, <1>5, <1>15, <1>16 DEF FrontierInv

\* A root that is a directory is walked as one when it is met for the first time.
LEMMA RootIsFirst ==
  ASSUME WalkIInv, FrontierInv, outcome = "walking", todo # <<>>, Node \in Nodes,
         Kind(Node) = "dir", ~recursive, Node # Now.root, Node \in OpenRoots
  PROVE  Node \in processed
<1>1. Node \in Reach(Begun)
  BY NowOnTheWay, WalkAssumption
<1>2. todo \in Seq(ItemType) /\ 1 \in DOMAIN todo /\ todo[1] = Now
  BY DEF WalkIInv, TypeOK, Now
<1>3. \A a \in Nodes : Mounts(a) => Node # Head(Inner(a))
  BY <1>2 DEF FrontierInv, RootsFirst, Node
<1>4. PICK i \in 1 .. Len(world.args) : Node = world.args[i] /\ ~Shadowed(i)
  BY <1>3 DEF OpenRoots, Roots, Open
<1>5. arg \in 0 .. Len(world.args) /\ Len(world.args) \in Nat
  BY WorldParts DEF WalkIInv, TypeOK
<1>6. CASE i > arg
  <2>1. Begun \subseteq Args(i - 1)
    BY <1>5, <1>6 DEF Begun, Args
  <2>2. Node \in Reach(Args(i - 1))
    BY <1>1, <2>1, ReachMonotone
  <2>3. QED
    BY <1>4, <2>2 DEF Shadowed
<1>7. CASE i <= arg
  <2>1. i \in 1 .. arg
    BY <1>5, <1>7
  <2>2. todo # <<Item(world.args[i], world.args[i])>>
    BY <1>4 DEF Node, Now, Item
  <2>3. QED
    BY <1>4, <2>1, <2>2 DEF FrontierInv, RootsFirst
<1>8. QED
  BY <1>5, <1>6, <1>7

\* No link, directory or argument leads to the root of an archive.
LEMMA OwnRoot ==
  ASSUME TypeOK, NEW a \in Nodes, Mounts(a)
  PROVE  /\ \A n \in Nodes : Kind(n) = "dir" =>
              \A i \in DOMAIN world.children[n] : world.children[n][i] # Head(Inner(a))
         /\ \A n \in Nodes : world.target[n] # Head(Inner(a))
         /\ \A i \in DOMAIN world.args : world.args[i] # Head(Inner(a))
<1>1. OwnRoots(world)
  BY WalkAssumption DEF TypeOK
<1>2. QED
  BY <1>1 DEF OwnRoots, Mounts, Kind, Inner

-----------------------------------------------------------------------------
LEMMA FrontierInit == Init => FrontierInv
<1> SUFFICES ASSUME Init PROVE FrontierInv
  OBVIOUS
<1>1. Open(arg) = {} /\ Ahead = {} /\ RootsFirst
  BY DEF Init, Open, Ahead, RootsFirst
<1>2. Frontier({})
  BY <1>1 DEF Init, Frontier, Settled
<1>3. QED
  BY <1>1, <1>2 DEF Init, FrontierInv

\* The part of a visit that is common to directories, links and archives: nothing is
\* handed over, and Node is not a file.
LEMMA FrontierDescend ==
  ASSUME WalkIInv, FrontierInv, Visiting, Node \in Nodes, ~IsFile(Node),
         NEW items \in Seq(ItemType), Descend(items), UNCHANGED <<options, arg, given, outcome>>,
         \/ UNCHANGED processed /\ Kind(Node) # "dir"
         \/ processed' = processed \cup {Node} /\ Kind(Node) = "dir",
         \/ Node \in processed /\ Kind(Node) = "dir"
         \/ \A m \in Nodes : Below(m, Node, OpenRoots) =>
              \E i \in DOMAIN items : items[i].node = m,
         \A i \in DOMAIN items : \A a \in Nodes :
           Mounts(a) /\ items[i].node = Head(Inner(a)) => items[i].root = items[i].node
  PROVE  FrontierInv'
<1>1. TypeOK /\ outcome = "walking" /\ outcome' = "walking" /\ todo # <<>>
  BY DEF WalkIInv, Visiting
<1>2. /\ processed \subseteq processed' /\ given \subseteq given'
      /\ \A n \in processed' : n \in processed \/ n = Node
      /\ Kind(Node) = "dir" => Node \in processed'
      /\ Node \in processed' => Node \in processed \/ Kind(Node) = "dir" \/ Node \in given'
      /\ IsFile(Node) /\ HasSuffix(Node) => Node \in given'
  OBVIOUS
<1>3. QED
  BY <1>1, <1>2, FrontierStep

LEMMA FrontierDir == ASSUME WalkIInv, FrontierInv, VisitDir PROVE FrontierInv'
<1> DEFINE items == [i \in DOMAIN world.children[Node] |->
                       Item(world.children[Node][i], Now.root)]
<1>1. /\ todo # <<>> /\ Node \in Nodes /\ Visiting /\ Kind(Node) = "dir" /\ ~IsFile(Node)
      /\ TypeOK /\ outcome = "walking" /\ Now.root \in Nodes
  <2>1. Now \in ItemType
    BY DEF WalkIInv, TypeOK, VisitDir, Visiting, Now
  <2>2. QED
    BY <2>1, NowOnTheWay DEF VisitDir, Visiting, IsFile, WalkIInv, ItemType
<1>2. world.children[Node] \in Seq(Nodes)
  BY <1>1, WorldParts
<1>3. items \in Seq(ItemType)
  <2>1. \A i \in DOMAIN world.children[Node] :
          Item(world.children[Node][i], Now.root) \in ItemType
    BY <1>1, <1>2 DEF ItemType, Item
  <2>2. DOMAIN world.children[Node] = 1 .. Len(world.children[Node])
        /\ Len(world.children[Node]) \in Nat
    BY <1>2
  <2>3. QED
    BY <2>1, <2>2
<1>4. /\ UNCHANGED <<options, arg, given, outcome>>
      /\ processed' = processed \cup {Node}
  BY DEF VisitDir
<1>5. CASE Descend(items)
  <2>1. \A m \in Nodes : Below(m, Node, OpenRoots) => \E i \in DOMAIN items : items[i].node = m
    BY <1>1 DEF Below, Elems, Item, Mounts
  <2>2. \A i \in DOMAIN items : \A a \in Nodes :
          Mounts(a) /\ items[i].node = Head(Inner(a)) => items[i].root = items[i].node
    BY <1>1, OwnRoot DEF Item
  <2>3. QED
    BY <1>1, <1>3, <1>4, <1>5, <2>1, <2>2, FrontierDescend
<1>6. CASE /\ Descend(<<>>)
           /\ ~(Node \notin processed /\ (recursive \/ Node = Now.root))
  <2>1. \/ Node \in processed
        \/ \A m \in Nodes : ~Below(m, Node, OpenRoots)
    BY <1>1, <1>6, RootIsFirst DEF Below, Mounts
  <2> DEFINE none == <<>>
  <2>2. none \in Seq(ItemType) /\ DOMAIN none = {} /\ Descend(none)
    BY <1>6
  <2> HIDE DEF none
  <2>3. QED
    BY <1>1, <1>4, <1>6, <2>1, <2>2, FrontierDescend
<1>7. QED
  BY <1>5, <1>6 DEF VisitDir

LEMMA FrontierLink ==
  ASSUME WalkIInv, FrontierInv, VisitLink, outcome' = "walking" PROVE FrontierInv'
<1>1. /\ Node \in Nodes /\ Visiting /\ Kind(Node) = "link" /\ ~IsFile(Node)
      /\ TypeOK /\ Now.root \in Nodes
  <2>1. Now \in ItemType
    BY DEF WalkIInv, TypeOK, VisitLink, Visiting, Now
  <2>2. QED
    BY <2>1, NowOnTheWay DEF VisitLink, Visiting, IsFile, WalkIInv, ItemType
<1>2. CASE /\ ~follow /\ Descend(<<>>)
           /\ UNCHANGED <<options, arg, processed, given, again, cancelled, outcome>>
  <2>1. \A m \in Nodes : ~Below(m, Node, OpenRoots)
    BY <1>1, <1>2 DEF Below, Mounts
  <2> DEFINE none == <<>>
  <2>2. none \in Seq(ItemType) /\ DOMAIN none = {} /\ Descend(none)
    BY <1>2
  <2> HIDE DEF none
  <2>3. QED
    BY <1>1, <1>2, <2>1, <2>2, FrontierDescend
<1>3. CASE /\ follow /\ Descend(<<Item(world.target[Node], Now.root)>>)
           /\ UNCHANGED <<options, arg, processed, given, again, cancelled, outcome>>
  <2> DEFINE items == <<Item(world.target[Node], Now.root)>>
  <2>1. world.target[Node] \in Nodes \cup {Missing}
    BY <1>1, WorldParts
  <2>2. items \in Seq(ItemType) /\ DOMAIN items = {1} /\ items[1].node = world.target[Node]
    BY <1>1, <2>1 DEF Item, ItemType
  <2>3. \A m \in Nodes : Below(m, Node, OpenRoots) => \E i \in DOMAIN items : items[i].node = m
    BY <1>1, <2>2 DEF Below, Mounts
  <2>4. \A i \in DOMAIN items : \A a \in Nodes :
          Mounts(a) /\ items[i].node = Head(Inner(a)) => items[i].root = items[i].node
    BY <1>1, <2>2, OwnRoot
  <2> HIDE DEF items
  <2>5. Descend(items)
    BY <1>3 DEF items
  <2>6. QED
    BY <1>1, <1>3, <2>2, <2>3, <2>4, <2>5, FrontierDescend
<1>4. CASE Abandon("error")
  BY <1>4 DEF Abandon
<1>5. QED
  BY <1>2, <1>3, <1>4 DEF VisitLink

LEMMA FrontierArchive == ASSUME WalkIInv, FrontierInv, VisitArchive PROVE FrontierInv'
<1> DEFINE inner == Head(Inner(Node))
           items == <<Item(inner, inner)>>
<1>1. /\ Node \in Nodes /\ Visiting /\ Kind(Node) = "archive" /\ ~IsFile(Node) /\ Mounts(Node)
  BY NowOnTheWay DEF VisitArchive, Visiting, IsFile, WalkIInv, Mounts
<1>2. Inner(Node) \in Seq(Nodes) /\ Inner(Node) # <<>>
  BY <1>1, WorldParts DEF WalkIInv, Mounts, Inner
<1>3. inner \in Nodes
  BY <1>2
<1>4. items \in Seq(ItemType) /\ DOMAIN items = {1} /\ items[1] = Item(inner, inner)
  BY <1>3 DEF Item, ItemType
<1>5. \A m \in Nodes : Below(m, Node, OpenRoots) => \E i \in DOMAIN items : items[i].node = m
  BY <1>1, <1>4 DEF Below, Item
<1>6. \A i \in DOMAIN items : items[i].root = items[i].node
  BY <1>4 DEF Item
<1>7. Descend(items) /\ UNCHANGED <<options, arg, processed, given, outcome>>
  BY DEF VisitArchive
<1>8. QED
  BY <1>1, <1>4, <1>5, <1>6, <1>7, FrontierDescend

LEMMA FrontierFile == ASSUME WalkIInv, FrontierInv, VisitFile PROVE FrontierInv'
<1>1. /\ Node \in Nodes /\ Visiting /\ IsFile(Node) /\ Kind(Node) \notin {"dir", "link"}
      /\ ~Mounts(Node) /\ TypeOK /\ outcome = "walking" /\ outcome' = "walking" /\ todo # <<>>
  BY NowOnTheWay DEF VisitFile, Visiting, IsFile, WalkIInv, Mounts
<1>2. \A n \in processed : Kind(n) = "dir" \/ n \in given
  BY <1>1 DEF FrontierInv
<1>3. /\ processed \subseteq processed' /\ given \subseteq given'
      /\ \A n \in processed' : n \in processed \/ n = Node
      /\ Node \in processed' => Node \in given'
      /\ IsFile(Node) /\ HasSuffix(Node) => Node \in given'
  BY <1>1, <1>2 DEF VisitFile
<1>4. \A m \in Nodes : ~Below(m, Node, OpenRoots)
  BY <1>1 DEF Below
<1> DEFINE none == <<>>
<1>5. /\ none \in Seq(ItemType) /\ DOMAIN none = {} /\ Descend(none)
      /\ UNCHANGED <<options, arg>>
  BY DEF VisitFile
<1> HIDE DEF none
<1>6. QED
  BY <1>1, <1>3, <1>4, <1>5, FrontierStep

\* A new argument is ahead; all that was open before it is settled.
LEMMA FrontierNextArg == ASSUME WalkIInv, FrontierInv, NextArg PROVE FrontierInv'
<1> DEFINE a == world.args[arg + 1]
<1>1. /\ world.args \in Seq(Nodes) /\ arg \in 0 .. Len(world.args) /\ arg < Len(world.args)
      /\ Len(world.args) \in Nat /\ arg' = arg + 1 /\ todo = <<>> /\ outcome = "walking"
      /\ UNCHANGED <<options, processed, given, outcome>> /\ TypeOK
  BY WorldParts DEF WalkIInv, TypeOK, NextArg
<1>2. /\ OpenRoots' = OpenRoots /\ world' = world
      /\ \A i : Shadowed(i)' <=> Shadowed(i)
      /\ \A n : /\ Kind(n)' = Kind(n) /\ (Mounts(n)' <=> Mounts(n)) /\ Inner(n)' = Inner(n)
                /\ (IsFile(n)' <=> IsFile(n)) /\ (HasSuffix(n)' <=> HasSuffix(n))
      /\ \A m, n : Below(m, n, OpenRoots)' <=> Below(m, n, OpenRoots)
  BY <1>1, RootsFrame DEF options
<1>3. todo' = <<Item(a, a)>> /\ DOMAIN todo' = {1} /\ todo'[1] = Item(a, a)
  BY <1>1 DEF NextArg
<1>4. Ahead' = {a} /\ Ahead = {}
  BY <1>1, <1>3 DEF Ahead, Item
<1>5. RootsFirst'
  <2>1. \A i \in DOMAIN todo' : todo'[i].root = todo'[i].node
    BY <1>3 DEF Item
  <2>2. ASSUME NEW i \in 1 .. arg', ~Shadowed(i), Kind(world.args[i]) = "dir"
        PROVE  \/ world.args[i] \in processed
               \/ i = arg' /\ todo' = <<Item(world.args[i], world.args[i])>>
    <3>1. CASE i = arg + 1
      BY <1>1, <1>3, <3>1
    <3>2. CASE i \in 1 .. arg
      <4>1. todo # <<Item(world.args[i], world.args[i])>>
        BY <1>1
      <4>2. QED
        BY <1>1, <2>2, <3>2, <4>1 DEF FrontierInv, RootsFirst
    <3>3. QED
      BY <1>1, <3>1, <3>2
  <2>3. QED
    BY <1>1, <1>2, <2>1, <2>2 DEF RootsFirst
<1>6. PICK S \in SUBSET Nodes : Frontier(S)
  BY <1>1 DEF FrontierInv
<1>7. Open(arg)' \subseteq S \cup Ahead'
  <2>1. Open(arg)' \subseteq Open(arg) \cup {a}
    BY <1>1, <1>2 DEF Open
  <2>2. QED
    BY <1>4, <1>6, <2>1 DEF Frontier
<1>8. Settled(S)'
  BY <1>1, <1>2, <1>4, <1>6 DEF Frontier, Settled
<1>9. Frontier(S)'
  BY <1>1, <1>2, <1>6, <1>7, <1>8 DEF Frontier
<1>10. (\A n \in processed : Kind(n) = "dir" \/ n \in given)'
  BY <1>1, <1>2 DEF FrontierInv
<1>11. QED
  BY <1>1, <1>5, <1>9, <1>10 DEF FrontierInv

\* What is neither a visit nor a new argument leaves the frontier where it is.
LEMMA FrontierFrame ==
  ASSUME FrontierInv, UNCHANGED <<options, arg, todo, processed, given>>,
         outcome' = "done" => outcome \in {"walking", "done"} /\ todo = <<>> /\ arg = Len(world.args),
         outcome' = "walking" => outcome = "walking"
  PROVE  FrontierInv'
<1>1. CASE outcome' \notin {"walking", "done"}
  BY <1>1 DEF FrontierInv
<1>2. CASE outcome' \in {"walking", "done"}
  <2>1. outcome \in {"walking", "done"}
    BY <1>2
  <2>2. /\ OpenRoots' = OpenRoots /\ world' = world
        /\ \A i : Shadowed(i)' <=> Shadowed(i)
        /\ \A n : /\ Kind(n)' = Kind(n) /\ (Mounts(n)' <=> Mounts(n)) /\ Inner(n)' = Inner(n)
                  /\ (IsFile(n)' <=> IsFile(n)) /\ (HasSuffix(n)' <=> HasSuffix(n))
        /\ \A m, n : Below(m, n, OpenRoots)' <=> Below(m, n, OpenRoots)
    BY RootsFrame DEF options
  <2>3. RootsFirst'
    BY <2>1, <2>2 DEF FrontierInv, RootsFirst
  <2>4. PICK S \in SUBSET Nodes : Frontier(S)
    BY <2>1 DEF FrontierInv
  <2>5. Ahead' = Ahead /\ Open(arg)' = Open(arg)
    BY <2>2 DEF Ahead, Open
  <2>6. Settled(S)'
    BY <2>2, <2>4, <2>5 DEF Frontier, Settled
  <2>7. Frontier(S)'
    BY <2>2, <2>4, <2>5, <2>6 DEF Frontier
  <2>8. (\A n \in processed : Kind(n) = "dir" \/ n \in given)'
    BY <2>1, <2>2 DEF FrontierInv
  <2>9. QED
    BY <2>2, <2>3, <2>7, <2>8 DEF FrontierInv
<1>3. QED
  BY <1>1, <1>2

LEMMA FrontierNext == WalkIInv /\ FrontierInv /\ [Next]_vars => FrontierInv'
<1> SUFFICES ASSUME WalkIInv, FrontierInv, [Next]_vars PROVE FrontierInv'
  OBVIOUS
<1>1. CASE NextArg
  BY <1>1, FrontierNextArg
<1>2. CASE Finish
  BY <1>2, FrontierFrame DEF Finish
<1>3. CASE Cancel \/ UNCHANGED vars
  <2>1. UNCHANGED <<options, arg, todo, processed, given, outcome>>
    BY <1>3 DEF Cancel, vars
  <2>2. QED
    BY <2>1, FrontierFrame DEF FrontierInv
<1>4. CASE outcome' \in {"error", "canceled"}
  BY <1>4 DEF FrontierInv
<1>5. CASE VisitDir
  BY <1>5, FrontierDir
<1>6. CASE VisitLink /\ outcome' = "walking"
  BY <1>6, FrontierLink
<1>7. CASE VisitArchive
  BY <1>7, FrontierArchive
<1>8. CASE VisitFile
  BY <1>8, FrontierFile
<1>9. /\ Canceled \/ Fail => outcome' \in {"error", "canceled"}
      /\ VisitLink => outcome' \in {"walking", "error"}
  BY DEF Canceled, Fail, VisitLink, Abandon, Visiting
<1>10. QED
  BY <1>1, <1>2, <1>3, <1>4, <1>5, <1>6, <1>7, <1>8, <1>9 DEF Next, Walk, Visit

-----------------------------------------------------------------------------
\* The invariant of the walk holds of every behaviour.
THEOREM WalkInvariant == Spec => []WalkIInv
BY WalkInitInv, WalkNextInv, PTL DEF Spec

\* Every variable stays in its type.
THEOREM WalkTypeCorrect == Spec => []TypeOK
<1>1. WalkIInv => TypeOK
  BY DEF WalkIInv
<1>2. QED
  BY <1>1, WalkInvariant, PTL

\* However arguments, links and archives overlap, no file is handed over twice.
THEOREM NeverGivenTwice == Spec => []GivenOnce
<1>1. WalkIInv => GivenOnce
  BY DEF WalkIInv
<1>2. QED
  BY <1>1, WalkInvariant, PTL

\* The walk is sound: at any time it has handed out input files that can be reached
\* from its arguments with its options, and nothing else.
THEOREM WalkSound == Spec => []OnlyDue
<1>1. WalkIInv => OnlyDue
  <2> SUFFICES ASSUME WalkIInv PROVE given \subseteq Due(Args(Len(world.args)))
    BY DEF OnlyDue
  <2>1. world.args \in Seq(Nodes) /\ arg \in 0 .. Len(world.args) /\ Len(world.args) \in Nat
    BY WorldParts DEF WalkIInv, TypeOK
  <2>2. Begun \subseteq Args(Len(world.args))
    BY <2>1 DEF Begun, Args
  <2>3. QED
    BY <2>2, ReachMonotone DEF WalkIInv
<1>2. QED
  BY <1>1, WalkInvariant, PTL

\* A walk that ends without an error has handed out every input file that can be
\* reached from its open arguments with its options: what has been walked and what
\* lies ahead include all of it at any time, and nothing lies ahead at the end.
THEOREM WalkCompletes == Spec => []WalkComplete
<1>1. WalkIInv /\ FrontierInv /\ outcome = "done" => Due(Open(Len(world.args))) \subseteq given
  <2> SUFFICES ASSUME WalkIInv, FrontierInv, outcome = "done"
               PROVE  Due(Open(Len(world.args))) \subseteq given
    OBVIOUS
  <2>1. PICK S \in SUBSET Nodes : Frontier(S)
    BY DEF FrontierInv
  <2>2. Ahead = {} /\ arg = Len(world.args)
    BY DEF FrontierInv, Ahead
  <2>3. Open(Len(world.args)) \subseteq S /\ Closed(S, OpenRoots)
    BY <2>1, <2>2 DEF Frontier, Settled, Closed
  <2>4. Reach(Open(Len(world.args))) \subseteq S
    BY <2>3 DEF Reach, OpenRoots
  <2>5. QED
    BY <2>1, <2>4 DEF Due, Frontier, Settled
<1>2. Spec => []FrontierInv
  <2>1. Init => FrontierInv
    BY FrontierInit
  <2>2. WalkIInv /\ FrontierInv /\ [Next]_vars => FrontierInv'
    BY FrontierNext
  <2>3. QED
    BY <2>1, <2>2, WalkInvariant, PTL DEF Spec
<1>3. WalkIInv /\ FrontierInv /\ OnlyDue => WalkComplete
  BY <1>1 DEF WalkComplete
<1>4. QED
  BY <1>2, <1>3, WalkInvariant, WalkSound, PTL
=============================================================================
