------------------------------- MODULE MCWalk -------------------------------
(***************************************************************************)
(* Four small file systems: arguments that overlap and a link to a sub-    *)
(* directory; a link to the directory it is in, and an archive reached     *)
(* twice; links that lead to each other; a link in an archive, an archive  *)
(* that cannot be mounted and a dangling link.                             *)
(***************************************************************************)
EXTENDS Walk

CONSTANTS d, s, f, g, l, m, a, r

\* A world in which everything that is not named is a file, wanted and unreachable.
World(dirs, links, archives, virtual, wanted, args) ==
  [kind     |-> [n \in Nodes |-> CASE n \in DOMAIN dirs     -> "dir"
                                   [] n \in DOMAIN links    -> "link"
                                   [] n \in DOMAIN archives -> "archive"
                                   [] OTHER                 -> "file"],
   children |-> [n \in Nodes |-> CASE n \in DOMAIN dirs     -> dirs[n]
                                   [] n \in DOMAIN archives -> archives[n]
                                   [] OTHER                 -> <<>>],
   target   |-> [n \in Nodes |-> IF n \in DOMAIN links THEN links[n] ELSE Missing],
   virtual  |-> virtual, wanted |-> wanted, args |-> args]

One(n, v)          == [x \in {n} |-> v]
Two(n, v, n2, v2)  == [x \in {n, n2} |-> IF x = n THEN v ELSE v2]
None               == [x \in {} |-> 0]

MCWorlds == {
  World(Two(d, <<f, l, s>>, s, <<g, m>>), One(l, s), None, {}, {f, g}, <<d, s, f>>),
  World(Two(d, <<a, m, l>>, r, <<f, g>>), Two(l, d, m, a), One(a, <<r>>), {r, f, g},
        {f, g}, <<d, a>>),
  World(One(d, <<f, l>>), Two(l, m, m, l), None, {}, {f}, <<d>>),
  World(Two(d, <<a, f, m>>, r, <<g, l>>), Two(l, g, m, Missing), Two(a, <<>>, s, <<r>>),
        {r, g, l}, {a, f, g}, <<d, s>>)}
=============================================================================
