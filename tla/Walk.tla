-------------------------------- MODULE Walk --------------------------------
(***************************************************************************)
(* internal/filewalker: the walk that finds the input files of a command.  *)
(*                                                                         *)
(* Walk is called once for every argument, with one FileWalker, so that    *)
(* what it has processed is remembered from one argument to the next.  It  *)
(* descends into directories, follows links, and mounts archives as file   *)
(* systems of their own.  A node is a logical path: a path, or a path in   *)
(* an archive behind the archive's own.  The recursion of walkDir and walk *)
(* is kept as the sequence of the nodes still to be visited, in order; one *)
(* step is one call of the function that walkDir hands to Walk.  Two paths *)
(* of one file (./f and f) are two nodes: the code compares the text.      *)
(***************************************************************************)
EXTENDS Integers, Sequences

CONSTANTS
  Nodes,      \* the logical paths
  Missing,    \* what a dangling link refers to
  Worlds,     \* the file systems and argument lists to walk, see WorldType
  Faults      \* "stat": a node or a directory cannot be read;
              \* "cancel": the context is cancelled

Kinds == {"dir", "file", "link", "archive"}

\* children: of a directory, sorted; of an archive, its root (none if it cannot be
\* mounted).  virtual: the nodes of a file system without links, such as an archive.
\* wanted: the paths that have one of the suffixes asked for.
WorldType ==
  [kind : [Nodes -> Kinds], children : [Nodes -> Seq(Nodes)],
   target : [Nodes -> Nodes \cup {Missing}], virtual : SUBSET Nodes,
   wanted : SUBSET Nodes, args : Seq(Nodes)]

\* The path of an archive's root is the archive's own and "!/": no directory lists it,
\* no link or argument names it.
OwnRoots(w) ==
  \A a \in Nodes : w.kind[a] = "archive" /\ w.children[a] # <<>> =>
    LET root == Head(w.children[a])
    IN  /\ \A n \in Nodes : w.kind[n] = "dir" =>
             \A i \in DOMAIN w.children[n] : w.children[n][i] # root
        /\ \A n \in Nodes : w.target[n] # root
        /\ \A i \in DOMAIN w.args : w.args[i] # root

ASSUME WalkAssumption ==
  /\ Missing \notin Nodes
  /\ Worlds \subseteq WorldType
  /\ \A w \in Worlds : OwnRoots(w)

VARIABLES
  world,      \* what is walked; never changes
  recursive,  \* --recursive
  follow,     \* --follow-symlinks
  arg,        \* how many arguments have been begun
  todo,       \* the nodes to be visited, each with the root of its walkDir
  processed,  \* processedPaths: directories and files
  given,      \* the files handed to the command
  again,      \* history: files handed to it more than once
  cancelled,
  outcome     \* "walking", or how the walk has ended

options == <<world, recursive, follow>>   \* the fields of FileWalker that never change
vars == <<options, arg, todo, processed, given, again, cancelled, outcome>>

Item(n, root) == [node |-> n, root |-> root]
Now           == Head(todo)
Node          == Now.node
Kind(n)       == world.kind[n]
Inner(n)      == world.children[n]      \* of an archive: <<its root>>, or <<>>
\* Its path has one of the suffixes asked for, or none was asked for.
HasSuffix(n)  == n \in world.wanted
\* ResolveFilesystem: its name says archive and it can be opened as one.
Mounts(n)     == Kind(n) = "archive" /\ Inner(n) # <<>>
IsFile(n)     == Kind(n) = "file" \/ (Kind(n) = "archive" /\ Inner(n) = <<>>)

Init ==
  /\ world \in Worlds
  /\ recursive \in BOOLEAN
  /\ follow \in BOOLEAN
  /\ arg = 0
  /\ todo = <<>>
  /\ processed = {}
  /\ given = {}
  /\ again = {}
  /\ cancelled = FALSE
  /\ outcome = "walking"

\* The visit of Node leaves the nodes of items to be visited in its place.
Descend(items) == todo' = items \o Tail(todo)

\* Node is visited, and the context has not been cancelled.
Visiting == outcome = "walking" /\ todo # <<>> /\ ~cancelled

-----------------------------------------------------------------------------
(* Deliberately wrong variants of definitions below: see the README.       *)

\* A file is not looked up among those processed.
VisitFile_Twice ==
  /\ Visiting /\ Node # Missing
  /\ IsFile(Node)
  /\ IF HasSuffix(Node)
       THEN /\ given' = given \cup {Node}
            /\ again' = again \cup (given \cap {Node})
       ELSE UNCHANGED <<given, again>>
  /\ Descend(<<>>)
  /\ UNCHANGED <<options, arg, processed, cancelled, outcome>>

\* A directory is looked up but never noted.
VisitDir_Forget ==
  /\ Visiting /\ Node # Missing /\ Kind(Node) = "dir"
  /\ IF recursive \/ Node = Now.root
       THEN Descend([i \in DOMAIN world.children[Node] |->
                       Item(world.children[Node][i], Now.root)])
       ELSE Descend(<<>>)
  /\ UNCHANGED <<options, arg, processed, given, again, cancelled, outcome>>

\* The root of an archive counts as a sub-directory.
VisitArchive_SameRoot ==
  /\ Visiting /\ Node # Missing /\ Mounts(Node)
  /\ Descend(<<Item(Head(Inner(Node)), Now.root)>>)
  /\ UNCHANGED <<options, arg, processed, given, again, cancelled, outcome>>

-----------------------------------------------------------------------------
\* The command's loop over its arguments.
NextArg ==
  /\ outcome = "walking" /\ todo = <<>> /\ arg < Len(world.args)
  /\ arg' = arg + 1
  /\ todo' = <<Item(world.args[arg'], world.args[arg'])>>
  /\ UNCHANGED <<options, processed, given, again, cancelled, outcome>>

Finish ==
  /\ outcome = "walking" /\ todo = <<>> /\ arg = Len(world.args)
  /\ outcome' = "done"
  /\ UNCHANGED <<options, arg, todo, processed, given, again, cancelled>>

\* The walk and the loop over the arguments are abandoned.
Abandon(how) ==
  /\ outcome' = how
  /\ todo' = <<>>
  /\ UNCHANGED <<options, arg, processed, given, again, cancelled>>

Canceled == outcome = "walking" /\ todo # <<>> /\ cancelled /\ Abandon("canceled")

\* An error of Stat, Lstat or Readdirnames goes to the command's walkFn, which
\* returns it: nothing after it is walked.
Fail == Visiting /\ (Node = Missing \/ "stat" \in Faults) /\ Abandon("error")

\* A directory is noted before it is decided whether it is descended into.
VisitDir ==
  /\ Visiting /\ Node # Missing /\ Kind(Node) = "dir"
  /\ IF Node \notin processed /\ (recursive \/ Node = Now.root)
       THEN Descend([i \in DOMAIN world.children[Node] |->
                       Item(world.children[Node][i], Now.root)])
       ELSE Descend(<<>>)
  /\ processed' = processed \cup {Node}
  /\ UNCHANGED <<options, arg, given, again, cancelled, outcome>>

\* The target is walked under the same root, whatever it is and however it was
\* reached.  A file system that cannot read links fails the walk.
VisitLink ==
  /\ Visiting /\ Node # Missing /\ Kind(Node) = "link"
  /\ \/ /\ ~follow
        /\ Descend(<<>>)
        /\ UNCHANGED <<options, arg, processed, given, again, cancelled, outcome>>
     \/ /\ follow /\ Node \notin world.virtual
        /\ Descend(<<Item(world.target[Node], Now.root)>>)
        /\ UNCHANGED <<options, arg, processed, given, again, cancelled, outcome>>
     \/ follow /\ Node \in world.virtual /\ Abandon("error")

VisitArchive ==
  /\ Visiting /\ Node # Missing /\ Mounts(Node)
  /\ Descend(<<Item(Head(Inner(Node)), Head(Inner(Node)))>>)
  /\ UNCHANGED <<options, arg, processed, given, again, cancelled, outcome>>

\* An archive that cannot be mounted is a file like any other.
VisitFile ==
  /\ Visiting /\ Node # Missing
  /\ IsFile(Node)
  /\ IF HasSuffix(Node) /\ Node \notin processed
       THEN /\ processed' = processed \cup {Node}
            /\ given' = given \cup {Node}
            /\ again' = again \cup (given \cap {Node})
       ELSE UNCHANGED <<processed, given, again>>
  /\ Descend(<<>>)
  /\ UNCHANGED <<options, arg, cancelled, outcome>>

\* A signal, or a job that has failed.
Cancel ==
  /\ "cancel" \in Faults /\ outcome = "walking"
  /\ cancelled' = TRUE
  /\ UNCHANGED <<options, arg, todo, processed, given, again, outcome>>

Visit == Canceled \/ Fail \/ VisitDir \/ VisitLink \/ VisitArchive \/ VisitFile
Walk  == NextArg \/ Finish \/ Visit
Next  == Walk \/ Cancel

Spec     == Init /\ [][Next]_vars
FairSpec == Spec /\ WF_vars(Walk)
-----------------------------------------------------------------------------
(* What is to be walked, without the order in which it is.                 *)

Args(k)  == {world.args[i] : i \in 1 .. k}
Elems(s) == {s[i] : i \in DOMAIN s}

\* Node m is one step below node n, when the directories of R are walked as roots.
Below(m, n, R) ==
  \/ Kind(n) = "dir" /\ (recursive \/ n \in R) /\ m \in Elems(world.children[n])
  \/ Kind(n) = "link" /\ follow /\ m = world.target[n]
  \/ Mounts(n) /\ m = Head(Inner(n))

Closed(S, R) == \A n \in S : \A m \in Nodes : Below(m, n, R) => m \in S

\* The roots when the nodes of T are walked: that of an archive is one wherever the
\* archive is met.
Roots(T) == T \cup {Head(Inner(a)) : a \in {b \in Nodes : Mounts(b)}}

\* The nodes that are reached when those of T are walked, and the input files among them.
Reach(T) ==
  {n \in Nodes : \A S \in SUBSET Nodes : T \subseteq S /\ Closed(S, Roots(T)) => n \in S}
Due(T) == {n \in Reach(T) : IsFile(n) /\ HasSuffix(n)}

\* Without --recursive a directory is noted, and not walked, when it is met below
\* another one: as a later argument it is passed over.
Shadowed(i) ==
  ~recursive /\ Kind(world.args[i]) = "dir" /\ world.args[i] \in Reach(Args(i - 1))

\* The first k arguments without those.
Open(k) == {world.args[i] : i \in {j \in 1 .. k : ~Shadowed(j)}}

\* No link leads, by links alone, back to itself.
LinkTo(m, n) == Kind(n) = "link" /\ world.target[n] = m
LinksEnd ==
  \A n \in Nodes : Kind(n) = "link" =>
    \E S \in SUBSET Nodes : /\ \A m \in Nodes : LinkTo(m, n) => m \in S
                            /\ \A m, k \in Nodes : k \in S /\ LinkTo(m, k) => m \in S
                            /\ n \notin S
-----------------------------------------------------------------------------
(* Properties.                                                             *)

ItemType == [node : Nodes \cup {Missing}, root : Nodes]

\* Every variable stays in its type.
TypeOK ==
  /\ world \in Worlds
  /\ recursive \in BOOLEAN /\ follow \in BOOLEAN /\ cancelled \in BOOLEAN
  /\ arg \in 0 .. Len(world.args)
  /\ todo \in Seq(ItemType)
  /\ processed \subseteq Nodes /\ given \subseteq Nodes /\ again \subseteq Nodes
  /\ outcome \in {"walking", "done", "error", "canceled"}

\* No file is handed to the command twice, though arguments overlap, links lead to
\* what is walked anyway, and an archive is mounted whenever it is met.
GivenOnce == again = {}

\* Nothing is handed to the command but the files that can be reached from its arguments.
OnlyDue == given \subseteq Due(Args(Len(world.args)))

\* A walk that ends without an error has handed out the files that can be reached
\* from its arguments, and no others.  Only what is below shadowed arguments alone
\* may be missing.  (A depth-first search that prunes at what is processed, against
\* plain reachability.)
WalkComplete ==
  outcome = "done" =>
    Due(Open(Len(world.args))) \subseteq given /\ OnlyDue

\* The walk ends, also when links lead back to directories above them, unless a
\* link leads back to itself: then it is followed for ever.
WalkEnds == LinksEnd \/ ~follow => <>(outcome # "walking")
=============================================================================
