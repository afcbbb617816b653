----------------------------- MODULE MCTreeBins -----------------------------
(***************************************************************************)
(* The tries of module TreeBins alone: chunks of any size are put in and   *)
(* taken out in any order, and after each step the searches of             *)
(* tmalloc_large and tmalloc_small are compared with what they promise.    *)
(* With MinLarge = 16 the sizes are the real ones, in units of 16 bytes.   *)
(***************************************************************************)
EXTENDS TreeBins

CONSTANTS
  Sizes,      \* the sizes of the chunks
  MaxChunks   \* at most so many free chunks at a time

VARIABLES
  tree,    \* the tries
  free     \* what is in them: the size of each free chunk, by address

vars == <<tree, free>>

Init == tree = NoTrees /\ free = [a \in {} |-> 0]

Insert == \E s \in Sizes :
  LET x == Min(1..MaxChunks + 1 \ DOMAIN free) IN
  /\ x <= MaxChunks
  /\ tree' = InsertLarge(tree, x, s)
  /\ free' = [a \in DOMAIN free \cup {x} |-> IF a = x THEN s ELSE free[a]]

Unlink == \E x \in DOMAIN free :
  /\ tree' = UnlinkLarge(tree, x)
  /\ free' = [a \in DOMAIN free \ {x} |-> free[a]]

Next == Insert \/ Unlink

Spec == Init /\ [][Next]_vars
-----------------------------------------------------------------------------
(* do_check_tree holds of every bin, and nothing but the free chunks is    *)
(* in the tries, each once and at the place a search for its size looks:   *)
(* unlink_large_chunk replaces an inner node by a leaf, and the links of   *)
(* five chunks to each other change.                                       *)
TreesAreSound ==
  /\ \A i \in Bins : BinOk(tree, i)
  /\ UNION {UnderNode(tree, tree.root[i]) : i \in Bins} = DOMAIN tree.n
  /\ TreeChunks(tree) = DOMAIN free
  /\ \A h, g \in DOMAIN tree.n :
        h # g => Range(tree.n[h].ring) \cap Range(tree.n[g].ring) = {}
  /\ \A x \in DOMAIN free : BinFind(tree, x, free[x])

(* The loops of tmalloc_large find a best fit for every request, and none  *)
(* only if there is none; tmalloc_small finds the smallest chunk of all.   *)
SearchIsBestFit ==
  /\ \A nb \in Sizes :
       LET fits == {free[x] : x \in {y \in DOMAIN free : free[y] >= nb}}
           found == FindLarge(tree, nb)
       IN IF fits = {} THEN found.v = Null
          ELSE found.v # Null /\ free[found.v] = Min(fits) /\ found.rem = Min(fits) - nb
  /\ DOMAIN free # {} =>
       FindSmallest(tree, 2).v # Null /\ free[FindSmallest(tree, 2).v] = Min(Range(free))
=============================================================================
