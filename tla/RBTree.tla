------------------------------- MODULE RBTree -------------------------------
(* The red-black tree of rbtree.c, pointer by pointer.

   A tree is a record of its root and the nodes: the functions of the code take
   a tree and return the changed one.  The data of a node is its key, a small
   number, so that the comparator is subtraction (Lfuda models the comparator
   of the frequency nodes).  One round of each recoloring loop, and one call of
   the recursion that moves a key to a leaf, is a step, so that the rounds can be
   followed and their end is not taken for granted. *)
EXTENDS Integers, FiniteSets

CONSTANTS
    Node,      \* the memory tree nodes are allocated from
    MaxKey,    \* the largest key
    NULL

ASSUME MaxKeyAssumption == MaxKey \in Nat \ {0}
ASSUME NodeAssumption == IsFiniteSet(Node)

Key == 1 .. MaxKey

ASSUME NULLAssumption == NULL \notin Node /\ NULL \notin Key

RED == "red"
BLACK == "black"

VARIABLES
    tree,      \* the struct rb_tree_s and its nodes
    pc,        \* "idle" between calls, or the loop a call is in
    cursor,    \* the local variable `node' or `leaf' of that loop, `root' of the recursion
    todelete,  \* the key a removal is about
    leaf,      \* the leaf a removal prunes in the end
    removed    \* a removal has happened since the tree was empty

vars == <<tree, pc, cursor, todelete, leaf, removed>>

-----------------------------------------------------------------------------
Blank == [left |-> NULL, right |-> NULL, parent |-> NULL, color |-> RED, data |-> NULL]

rb_node_init(color, data, parent) ==
    [Blank EXCEPT !.color = color, !.data = data, !.parent = parent]

get_node_color(t, n) == IF n = NULL THEN BLACK ELSE t.node[n].color

is_left_child(t, n) == n = t.node[t.node[n].parent].left
is_right_child(t, n) == n = t.node[t.node[n].parent].right

get_sibling(t, n) ==
    IF is_left_child(t, n) THEN t.node[t.node[n].parent].right
    ELSE t.node[t.node[n].parent].left

Grandparent(t, n) == t.node[t.node[n].parent].parent

get_uncle(t, n) ==
    IF is_right_child(t, t.node[n].parent) THEN t.node[Grandparent(t, n)].left
    ELSE t.node[Grandparent(t, n)].right

is_linear(t, n) ==
    \/ is_left_child(t, n) /\ is_left_child(t, t.node[n].parent)
    \/ is_right_child(t, n) /\ is_right_child(t, t.node[n].parent)

Paint(t, n, color) == [t EXCEPT !.node[n].color = color]

SetParent_Skipped(t, n, parent) == t   \* mutant

SetParent(t, n, parent) == IF n = NULL THEN t ELSE [t EXCEPT !.node[n].parent = parent]

(* The link that leads to a node is made to lead to another. *)
Relink(t, n, to) ==
    IF t.node[n].parent = NULL THEN [t EXCEPT !.root = to]
    ELSE IF is_left_child(t, n) THEN [t EXCEPT !.node[t.node[n].parent].left = to]
    ELSE [t EXCEPT !.node[t.node[n].parent].right = to]

left_rotate(t, root) ==
    LET rchild == t.node[root].right
        inner == t.node[rchild].left
        lifted == SetParent(Relink(t, root, rchild), inner, root)
    IN  [lifted EXCEPT !.node[rchild].parent = t.node[root].parent,
                       !.node[rchild].left = root,
                       !.node[root].right = inner,
                       !.node[root].parent = rchild]

right_rotate(t, root) ==
    LET lchild == t.node[root].left
        inner == t.node[lchild].right
        lifted == SetParent(Relink(t, root, lchild), inner, root)
    IN  [lifted EXCEPT !.node[lchild].parent = t.node[root].parent,
                       !.node[lchild].right = root,
                       !.node[root].left = inner,
                       !.node[root].parent = lchild]

rotate_to_parent(t, n) ==
    IF is_left_child(t, n) THEN right_rotate(t, t.node[n].parent)
    ELSE left_rotate(t, t.node[n].parent)

-----------------------------------------------------------------------------
(* Searches walk down from a root. *)
rb_tree_lookup_impl(t, root, key) ==
    LET walk[n \in Node \union {NULL}] ==
            IF n = NULL \/ t.node[n].data = key THEN n
            ELSE walk[IF t.node[n].data < key THEN t.node[n].right ELSE t.node[n].left]
    IN  walk[root]

rb_tree_lookup(t, key) ==
    LET found == rb_tree_lookup_impl(t, t.root, key)
    IN  IF found = NULL THEN NULL ELSE t.node[found].data

rb_tree_get_max_impl(t, root) ==
    LET walk[n \in Node] == IF t.node[n].right = NULL THEN n ELSE walk[t.node[n].right]
    IN  walk[root]

rb_tree_get_min_impl(t, root) ==
    LET walk[n \in Node] == IF t.node[n].left = NULL THEN n ELSE walk[t.node[n].left]
    IN  walk[root]

Closer_First(a, b, key) == b = NULL   \* mutant

(* The closest of the keys passed that are not above (below) the given one. *)
Closer(a, b, key) == b = NULL \/ (IF a > key THEN a - key ELSE key - a)
                                    < (IF b > key THEN b - key ELSE key - b)

(* The closest key so far is passed down: a walk from a node turns it into the
   result. *)
rb_tree_closest_left_impl(t, root, key, closest) ==
    LET walk[n \in Node \union {NULL}] ==
            [c \in Key \union {NULL} |->
                IF n = NULL THEN c
                ELSE IF t.node[n].data <= key
                THEN walk[t.node[n].right][IF Closer(t.node[n].data, c, key) THEN t.node[n].data ELSE c]
                ELSE walk[t.node[n].left][c]]
    IN  walk[root][closest]

rb_tree_closest_right_impl(t, root, key, closest) ==
    LET walk[n \in Node \union {NULL}] ==
            [c \in Key \union {NULL} |->
                IF n = NULL THEN c
                ELSE IF t.node[n].data < key
                THEN walk[t.node[n].right][c]
                ELSE walk[t.node[n].left][IF Closer(t.node[n].data, c, key) THEN t.node[n].data ELSE c]]
    IN  walk[root][closest]

(* Where rb_tree_bst_insert hangs a new node. *)
InsertionPoint(t, key) ==
    LET next(n) == IF t.node[n].data < key THEN t.node[n].right ELSE t.node[n].left
        walk[n \in Node] == IF next(n) = NULL THEN n ELSE walk[next(n)]
    IN  IF t.root = NULL THEN NULL ELSE walk[t.root]

rb_tree_bst_insert(t, node, toinsert) ==
    LET prev == InsertionPoint(t, toinsert)
    IN  IF prev = NULL
        THEN [t EXCEPT !.root = node, !.node[node] = rb_node_init(BLACK, toinsert, NULL)]
        ELSE IF t.node[prev].data > toinsert
        THEN [t EXCEPT !.node[node] = rb_node_init(RED, toinsert, prev), !.node[prev].left = node]
        ELSE [t EXCEPT !.node[node] = rb_node_init(RED, toinsert, prev), !.node[prev].right = node]

swap_data(t, a, b) ==
    [t EXCEPT !.node[a].data = t.node[b].data, !.node[b].data = t.node[a].data]

prune_leaf_Not(t, toprune) == t   \* mutant

prune_leaf(t, toprune) == Relink(t, toprune, NULL)

(* Rules 3 to 5 of a red-black tree below a node: the number of black nodes on
   every path down and whether the rules hold. *)
validate_subtree_rb(t, root) ==
    LET validate[n \in Node \union {NULL}] ==
            IF n = NULL THEN [blacks |-> 1, valid |-> TRUE]
            ELSE LET left == validate[t.node[n].left]
                     right == validate[t.node[n].right]
                     red == t.node[n].color = RED
                 IN  IF \/ /\ red
                           /\ RED \in {get_node_color(t, t.node[n].left),
                                      get_node_color(t, t.node[n].right)}
                        \/ ~left.valid \/ ~right.valid \/ left.blacks # right.blacks
                     THEN [blacks |-> 0, valid |-> FALSE]
                     ELSE [blacks |-> right.blacks + (IF red THEN 0 ELSE 1), valid |-> TRUE]
    IN  validate[root]

rb_tree_is_valid(t) ==
    t.root # NULL => t.node[t.root].color = BLACK /\ validate_subtree_rb(t, t.root).valid

(* The nodes below one, itself with them: what the walk of rb_tree_free reaches. *)
Subtree(t, root) ==
    LET walk[n \in Node \union {NULL}] ==
            IF n = NULL THEN {} ELSE walk[t.node[n].right] \union walk[t.node[n].left] \union {n}
    IN  walk[root]

-----------------------------------------------------------------------------
Allocated == {n \in Node : tree.node[n].data # NULL}
Parent == tree.node[cursor].parent

(* rb_tree_insert.  A key that is there is left alone; only a node with a
   grandparent is looked at again. *)
rb_tree_insert(key) ==
    /\ pc = "idle"
    /\ rb_tree_lookup_impl(tree, tree.root, key) = NULL
    /\ \E node \in Node \ Allocated :
          /\ tree' = rb_tree_bst_insert(tree, node, key)
          /\ IF \/ tree'.node[node].parent = NULL
                \/ Grandparent(tree', node) = NULL
             THEN UNCHANGED <<pc, cursor>>
             ELSE pc' = "insert" /\ cursor' = node
    /\ removed' = (removed /\ tree.root # NULL)
    /\ UNCHANGED <<todelete, leaf>>

RecolorUncle_KeepsGrandparent ==   \* mutant
    /\ pc = "insert"
    /\ get_node_color(tree, Parent) = RED
    /\ LET uncle == get_uncle(tree, cursor)
       IN  /\ get_node_color(tree, uncle) = RED
           /\ tree' = Paint(Paint(tree, Parent, BLACK), uncle, BLACK)
           /\ cursor' = Grandparent(tree, cursor)
    /\ UNCHANGED <<pc, todelete, leaf, removed>>

(* recolor_after_insert, one round: a red uncle ... *)
RecolorUncle ==
    /\ pc = "insert"
    /\ get_node_color(tree, Parent) = RED
    /\ LET uncle == get_uncle(tree, cursor)
           grandparent == Grandparent(tree, cursor)
       IN  /\ get_node_color(tree, uncle) = RED
           /\ tree' = Paint(Paint(Paint(tree, Parent, BLACK), uncle, BLACK), grandparent, RED)
           /\ cursor' = grandparent
    /\ UNCHANGED <<pc, todelete, leaf, removed>>

(* ... or a black one. *)
RotateAfterInsert ==
    /\ pc = "insert"
    /\ get_node_color(tree, Parent) = RED
    /\ get_node_color(tree, get_uncle(tree, cursor)) = BLACK
    /\ LET linear == is_linear(tree, cursor)
           straight == IF linear THEN tree ELSE rotate_to_parent(tree, cursor)
           lower == IF linear THEN cursor ELSE Parent
           middle == straight.node[lower].parent
       IN  /\ tree' = rotate_to_parent(
                          Paint(Paint(straight, middle, BLACK),
                                straight.node[middle].parent, RED), middle)
           /\ cursor' = lower
    /\ UNCHANGED <<pc, todelete, leaf, removed>>

InsertDone_RedRoot ==   \* mutant
    /\ pc = "insert"
    /\ get_node_color(tree, Parent) = BLACK
    /\ pc' = "idle"
    /\ cursor' = NULL
    /\ UNCHANGED <<tree, todelete, leaf, removed>>

InsertDone ==
    /\ pc = "insert"
    /\ get_node_color(tree, Parent) = BLACK
    /\ tree' = Paint(tree, tree.root, BLACK)
    /\ pc' = "idle"
    /\ cursor' = NULL
    /\ UNCHANGED <<todelete, leaf, removed>>

(* rb_tree_remove: the key is there. *)
rb_tree_remove(toremove) ==
    /\ pc = "idle"
    /\ rb_tree_lookup_impl(tree, tree.root, toremove) # NULL
    /\ pc' = "sink"
    /\ cursor' = tree.root
    /\ todelete' = toremove
    /\ removed' = TRUE
    /\ UNCHANGED <<tree, leaf>>

Found == rb_tree_lookup_impl(tree, cursor, todelete)

(* rb_tree_remove_impl, one call of the recursion: the key is swapped down, into
   the right subtree of its node, ... *)
SwapSuccessor ==
    /\ pc = "sink"
    /\ tree.node[Found].right # NULL
    /\ tree' = swap_data(tree, Found, rb_tree_get_min_impl(tree, tree.node[Found].right))
    /\ cursor' = tree.node[Found].right
    /\ UNCHANGED <<pc, todelete, leaf, removed>>

(* ... the left one if there is no right one, ... *)
SwapPredecessor ==
    /\ pc = "sink"
    /\ tree.node[Found].right = NULL
    /\ tree.node[Found].left # NULL
    /\ tree' = swap_data(tree, Found, rb_tree_get_max_impl(tree, tree.node[Found].left))
    /\ cursor' = tree.node[Found].left
    /\ UNCHANGED <<pc, todelete, leaf, removed>>

(* ... or it is in a leaf, where the recoloring starts.  The code does not return
   the leaf of its recursive calls; the value it leaves in the return register, in
   every build tried, is that leaf. *)
LeafFound ==
    /\ pc = "sink"
    /\ tree.node[Found].right = NULL
    /\ tree.node[Found].left = NULL
    /\ pc' = "remove"
    /\ cursor' = Found
    /\ leaf' = Found
    /\ UNCHANGED <<tree, todelete, removed>>

Recoloring == pc = "remove" /\ get_node_color(tree, cursor) = BLACK /\ Parent # NULL
Sibling == get_sibling(tree, cursor)
Nephew == IF Sibling = NULL THEN NULL ELSE tree.node[Sibling].right
Niece == IF Sibling = NULL THEN NULL ELSE tree.node[Sibling].left

(* recolor_after_remove, one round: by a red sibling, ... *)
RotateSibling ==
    /\ Recoloring
    /\ get_node_color(tree, Sibling) = RED
    /\ tree' = rotate_to_parent(Paint(Paint(tree, Parent, RED), Sibling, BLACK), Sibling)
    /\ UNCHANGED <<pc, cursor, todelete, leaf, removed>>

(* ... a red right child of the sibling, which ends the loop, ... *)
RotateNephew ==
    /\ Recoloring
    /\ get_node_color(tree, Sibling) = BLACK
    /\ get_node_color(tree, Nephew) = RED
    /\ tree' = rotate_to_parent(
                   Paint(Paint(Paint(tree, Sibling, tree.node[Parent].color), Parent, BLACK),
                         Nephew, BLACK), Sibling)
    /\ cursor' = tree'.root
    /\ UNCHANGED <<pc, todelete, leaf, removed>>

(* ... a red left child of the sibling, ... *)
RotateNiece ==
    /\ Recoloring
    /\ get_node_color(tree, Sibling) = BLACK
    /\ get_node_color(tree, Nephew) = BLACK
    /\ get_node_color(tree, Niece) = RED
    /\ tree' = rotate_to_parent(Paint(Paint(tree, Niece, BLACK), Sibling, RED), Niece)
    /\ UNCHANGED <<pc, cursor, todelete, leaf, removed>>

MoveUp_Stays ==   \* mutant
    /\ Recoloring
    /\ RED \notin {get_node_color(tree, Sibling), get_node_color(tree, Nephew),
                    get_node_color(tree, Niece)}
    /\ tree' = IF Sibling = NULL THEN tree ELSE Paint(tree, Sibling, RED)
    /\ UNCHANGED <<pc, cursor, todelete, leaf, removed>>

(* ... or none of these: the loop moves up. *)
MoveUp ==
    /\ Recoloring
    /\ RED \notin {get_node_color(tree, Sibling), get_node_color(tree, Nephew),
                    get_node_color(tree, Niece)}
    /\ tree' = IF Sibling = NULL THEN tree ELSE Paint(tree, Sibling, RED)
    /\ cursor' = Parent
    /\ UNCHANGED <<pc, todelete, leaf, removed>>

RemoveDone_FreesCursor ==   \* mutant
    /\ pc = "remove"
    /\ ~Recoloring
    /\ tree' = [prune_leaf(Paint(tree, cursor, BLACK), leaf) EXCEPT !.node[cursor] = Blank]
    /\ pc' = "idle"
    /\ cursor' = NULL
    /\ todelete' = NULL
    /\ leaf' = NULL
    /\ UNCHANGED removed

RemoveDone ==
    /\ pc = "remove"
    /\ ~Recoloring
    /\ tree' = [prune_leaf(Paint(tree, cursor, BLACK), leaf) EXCEPT !.node[leaf] = Blank]
    /\ pc' = "idle"
    /\ cursor' = NULL
    /\ todelete' = NULL
    /\ leaf' = NULL
    /\ UNCHANGED removed

(* rb_tree_free with the data, and a new tree from rb_tree_init. *)
rb_tree_free ==
    /\ pc = "idle"
    /\ LET freed == Subtree(tree, tree.root)
       IN  tree' = [root |-> NULL, node |-> [n \in Node |-> IF n \in freed THEN Blank ELSE tree.node[n]]]
    /\ removed' = FALSE
    /\ UNCHANGED <<pc, cursor, todelete, leaf>>

Round ==
    \/ RecolorUncle \/ RotateAfterInsert \/ InsertDone
    \/ SwapSuccessor \/ SwapPredecessor \/ LeafFound
    \/ RotateSibling \/ RotateNephew \/ RotateNiece \/ MoveUp \/ RemoveDone

Init ==
    /\ tree = [root |-> NULL, node |-> [n \in Node |-> Blank]]
    /\ pc = "idle"
    /\ cursor = NULL
    /\ todelete = NULL
    /\ leaf = NULL
    /\ removed = FALSE

Next == Round \/ rb_tree_free \/ \E key \in Key : rb_tree_insert(key) \/ rb_tree_remove(key)

Spec == Init /\ [][Next]_vars

(* A call, once made, runs. *)
FairSpec == Spec /\ WF_vars(Round)

-----------------------------------------------------------------------------
(* Type correctness of the state; no pointer leads to freed memory. *)
TypeOK ==
    /\ tree.root \in Allocated \union {NULL}
    /\ tree.node \in [Node -> [left : Node \union {NULL}, right : Node \union {NULL},
                               parent : Node \union {NULL}, color : {RED, BLACK},
                               data : Key \union {NULL}]]
    /\ pc \in {"idle", "insert", "sink", "remove"}
    /\ cursor \in Node \union {NULL}
    /\ todelete \in Key \union {NULL}
    /\ leaf \in Node \union {NULL}
    /\ removed \in BOOLEAN
    /\ \A n \in Allocated :
          {tree.node[n].left, tree.node[n].right, tree.node[n].parent} \subseteq Allocated \union {NULL}

Keys == {tree.node[n].data : n \in Allocated} \ {todelete}

(* The key a removal is about is out of order until its leaf is pruned. *)
Before(a, b) ==
    \/ todelete \in {tree.node[a].data, tree.node[b].data}
    \/ tree.node[a].data < tree.node[b].data

(* Rotations and swaps never lose or reorder a node: every allocated node is in
   the tree once, the keys rise from the left subtree of each node over the node
   to the right one (but for the key about to be removed), and every child points
   back to its parent. *)
SearchTree ==
    /\ Subtree(tree, tree.root) = Allocated
    /\ tree.root # NULL => tree.node[tree.root].parent = NULL
    /\ \A n \in Allocated :
          LET left == Subtree(tree, tree.node[n].left)
              right == Subtree(tree, tree.node[n].right)
          IN  /\ left \intersect right = {} /\ n \notin left \union right
              /\ \A a \in left \union {n}, b \in right \union {n} : a # b => Before(a, b)
              /\ \A c \in {tree.node[n].left, tree.node[n].right} \ {NULL} : tree.node[c].parent = n

(* Between calls every search finds what it should, also in a tree removals
   have unbalanced: the key itself, and its closest neighbours, of which the
   left one places new frequency nodes (lfuda.c:115, 178).  closest_left is the
   greatest key not above, closest_right the least not below, as the code has it
   (rbtree.c:659-719) and the caches need it; the comments of the header call
   the first closest "from the right" and the second "from the left"
   (rbtree.h:40, 43). *)
SearchesFind ==
    pc = "idle" => \A key \in Key :
        LET left == {k \in Keys : k <= key}
            right == {k \in Keys : k >= key}
        IN  /\ rb_tree_lookup(tree, key) = (IF key \in Keys THEN key ELSE NULL)
            /\ rb_tree_closest_left_impl(tree, tree.root, key, NULL) =
                  IF left = {} THEN NULL ELSE CHOOSE k \in left : \A j \in left : j <= k
            /\ rb_tree_closest_right_impl(tree, tree.root, key, NULL) =
                  IF right = {} THEN NULL ELSE CHOOSE k \in right : \A j \in right : k <= j

(* The assertions about relatives hold where the loops rely on them, whatever
   colors removals leave behind: a red parent is never the root, where
   get_uncle wants a grandparent (rbtree.c:287), and the leaf to prune is a
   leaf still (rbtree.c:460). *)
RelativesExist ==
    /\ pc = "insert" /\ get_node_color(tree, Parent) = RED => Grandparent(tree, cursor) # NULL
    /\ pc = "remove" => tree.node[leaf].left = NULL /\ tree.node[leaf].right = NULL

(* Insertions alone keep the rules of a red-black tree. *)
InsertKeepsValid == pc = "idle" /\ ~removed => rb_tree_is_valid(tree)

(* What rb_tree_remove is said to do: "Fix red-black violations". *)
AlwaysValid == pc = "idle" => rb_tree_is_valid(tree)

(* Every call returns: no arrangement of colors makes a loop go round for ever
   (the sibling and niece rounds leave the cursor where it is). *)
CallsReturn == pc # "idle" ~> pc = "idle"

(* With recoloring hidden the tree is a set of keys that every call changes at
   once: an insertion when the node is hung, a removal when the key is found. *)
Set == INSTANCE EntrySet WITH keys <- Keys

FollowsEntrySet == Set!Spec
=============================================================================
