--------------------------- MODULE DirectoryTreeProofs ---------------------------
(***************************************************************************)
(* For any directories, resources, grants and number of handlers: types,   *)
(* what keeps the tree a tree, unique paths, what a removal spares, how    *)
(* deep the tree gets, and that no hidden branch surfaces in what is shown.*)
(*                                                                         *)
(* The argument about cycles needs no induction over paths.  That a is not *)
(* above n is witnessed by a closed set with n in it and without a; that   *)
(* there is no cycle says that every set of directories has a member whose *)
(* parent is outside.  If a move of a under n made a set without such a    *)
(* member, its intersection with the witness would have been one before.   *)
(*                                                                         *)
(* Nor does the argument about depth: a path is the least closed set, so   *)
(* what a write makes of it is bounded by any closed set one can name.     *)
(* Where one does count, passes of getTree, it is over a set of numbers.   *)
(***************************************************************************)
EXTENDS DirectoryTree, FiniteSetTheorems, TLAPS

USE DirectoryAssumption

Moving == {"depth", "clash", "move"}

\* A handler that is moving has directories that have had rows, and, unless
\* another move came in between, the target is still not below the node.
MovesApart ==
  \A q \in Requests :
    /\ pc[q] \in {"subtree"} \cup Moving => node[q] \in Nodes
    /\ target[q] \in Nodes => parent[target[q]] # Unborn
    /\ /\ pc[q] \in Moving /\ crossed[q] # "move" /\ target[q] \in Nodes
       => ~isInSubtree(node[q], target[q])

TreeInv == TypeOK /\ NothingDangles /\ MovesApart /\ CycleNeedsRacingMoves

\* A directory is apart from n when a closed set says so.
LEMMA Apart ==
  ASSUME NEW a, NEW n
  PROVE  ~isInSubtree(a, n) <=> \E S \in SUBSET (Nodes \ {a}) : n \in S /\ Closed(S)
BY DEF isInSubtree

-----------------------------------------------------------------------------
(* The three writes to the tree. *)

\* A new directory, whose parent is another one or none, closes no cycle.
LEMMA InsertKeepsAcyclic ==
  ASSUME TypeOK, NothingDangles, Acyclic, NEW x \in Nodes, parent[x] = Unborn,
         NEW p, p = Top \/ Exists(p), parent' = [parent EXCEPT ![x] = p]
  PROVE  Acyclic'
<1> SUFFICES ASSUME NEW S \in SUBSET Nodes, S # {}
             PROVE  \E n \in S : parent'[n] \notin S
  BY DEF Acyclic
<1>1. \A n \in Nodes : parent[n] # x
  BY DEF NothingDangles, Exists
<1>2. parent'[x] = p /\ p # x /\ \A n \in Nodes \ {x} : parent'[n] = parent[n]
  BY DEF TypeOK, Exists
<1>3. CASE S = {x}
  BY <1>2, <1>3
<1>4. CASE S # {x}
  <2>1. S \ {x} # {}
    BY <1>4
  <2>2. PICK n \in S \ {x} : parent[n] \notin S \ {x}
    BY <2>1 DEF Acyclic
  <2> QED BY <1>1, <1>2, <2>2
<1> QED BY <1>3, <1>4

\* Taking a row away closes no cycle.
LEMMA DeleteKeepsAcyclic ==
  ASSUME TypeOK, Acyclic, NEW x \in Nodes, parent' = [parent EXCEPT ![x] = Gone]
  PROVE  Acyclic'
<1> SUFFICES ASSUME NEW S \in SUBSET Nodes, S # {}
             PROVE  \E n \in S : parent'[n] \notin S
  BY DEF Acyclic
<1>1. PICK n \in S : parent[n] \notin S
  BY DEF Acyclic
<1> QED BY <1>1 DEF TypeOK

\* A directory put under one that is not below it closes no cycle.
LEMMA MoveKeepsAcyclic ==
  ASSUME TypeOK, Acyclic, NEW x \in Nodes, NEW p \in Nodes \cup {Top},
         p = Top \/ ~isInSubtree(x, p), parent' = [parent EXCEPT ![x] = p]
  PROVE  Acyclic'
<1> SUFFICES ASSUME NEW S \in SUBSET Nodes, S # {},
                    \A n \in S : parent'[n] \in S
             PROVE  FALSE
  BY DEF Acyclic
<1>1. x \in S
  <2>1. PICK n \in S : parent[n] \notin S
    BY DEF Acyclic
  <2> QED BY <2>1 DEF TypeOK
<1>2. p \in S /\ p \in Nodes
  BY <1>1 DEF TypeOK
<1>3. PICK T \in SUBSET (Nodes \ {x}) : p \in T /\ Closed(T)
  BY <1>2, Apart
<1>4. \A n \in S \cap T : parent[n] \in S \cap T
  <2> SUFFICES ASSUME NEW n \in S \cap T PROVE parent[n] \in S \cap T
    OBVIOUS
  <2>1. parent[n] = parent'[n]
    BY <1>3 DEF TypeOK
  <2> QED BY <2>1, <1>3 DEF Closed
<1> QED BY <1>2, <1>3, <1>4 DEF Acyclic

-----------------------------------------------------------------------------
(* Every step keeps the invariant. *)

THEOREM InitTree == Init => TreeInv
<1> SUFFICES ASSUME Init PROVE TreeInv
  OBVIOUS
<1>1. Acyclic
  <2> SUFFICES ASSUME NEW S \in SUBSET Nodes, S # {} PROVE \E n \in S : parent[n] \notin S
    BY DEF Acyclic
  <2> QED BY DEF Init
<1>2. TypeOK
  BY DEF Init, TypeOK
<1>3. NothingDangles
  BY DEF Init, NothingDangles, Exists
<1>4. MovesApart
  BY DEF Init, MovesApart, Moving
<1> QED BY <1>1, <1>2, <1>3, <1>4 DEF TreeInv, CycleNeedsRacingMoves

\* Steps that leave the tree, the resources and the grants alone, and bring no
\* handler to the point where it has compared node and target.
LEMMA QuietStep ==
  ASSUME TreeInv, TypeOK', UNCHANGED <<tree, home, scope>>,
         raced' = raced,
         \A q \in Requests :
           /\ target'[q] \in Nodes => target'[q] = target[q] \/ Exists(target'[q])
           /\ pc'[q] \in {"subtree"} \cup Moving => node'[q] \in Nodes
           /\ pc'[q] \in Moving /\ target'[q] \in Nodes /\ crossed'[q] # "move" =>
                /\ node'[q] = node[q] /\ target'[q] = target[q]
                /\ ~isInSubtree(node[q], target[q])
  PROVE  TreeInv'
<1>1. NothingDangles' /\ CycleNeedsRacingMoves'
  BY DEF TreeInv, NothingDangles, CycleNeedsRacingMoves, Acyclic, Exists, tree
<1>2. MovesApart'
  BY DEF TreeInv, MovesApart, isInSubtree, Closed, tree, Exists
<1> QED BY <1>1, <1>2 DEF TreeInv

LEMMA TypeStep == TypeOK /\ [Next]_vars => TypeOK'
<1> SUFFICES ASSUME TypeOK, [Next]_vars PROVE TypeOK'
  OBVIOUS
<1> USE DEF TypeOK, tree, content, handler
<1>1. ASSUME NEW q \in Requests, Arrive(q) PROVE TypeOK'
  BY <1>1 DEF Arrive, BeginCreate, BeginMove, MoveChecks, BeginRemove, Start, Exists
<1>2. ASSUME NEW q \in Requests, Refused(q) PROVE TypeOK'
  BY <1>2 DEF Refused, End
<1>3. ASSUME NEW q \in Requests, Proceed(q), ~Refused(q) PROVE TypeOK'
  <2> USE <1>3
  <2>1. CASE CreateLevel(q) \/ MoveSubtree(q) \/ MoveDepth(q) \/ MoveClash(q)
             \/ CountResources(q) \/ CountGrants(q)
    BY <2>1 DEF CreateLevel, MoveSubtree, MoveDepth, MoveClash, CountResources, CountGrants, Check
  <2>2. CASE AllocateSlug(q)
    BY <2>2 DEF AllocateSlug, slugAttempts
  <2>3. ASSUME NEW n \in Nodes, InsertNode(q, n) PROVE TypeOK'
    BY <2>3 DEF InsertNode, Crossing, End, Exists
  <2>4. CASE MoveNode(q)
    BY <2>4 DEF MoveNode, Crossing, End, Exists
  <2>5. CASE DeleteNode(q)
    BY <2>5 DEF DeleteNode, End, Exists
  <2> QED BY <2>1, <2>2, <2>3, <2>4, <2>5 DEF Proceed, Abort
<1>4. CASE Surroundings
  BY <1>4 DEF Surroundings, SetEnabled, PlaceResource, PurgeResource, InsertGrant, DeleteGrant, Exists
<1>5. CASE UNCHANGED vars
  BY <1>5 DEF vars
<1> QED BY <1>1, <1>2, <1>3, <1>4, <1>5 DEF Next

\* A handler that takes up a call, ends, or only reads.
LEMMA ReadingStep ==
  ASSUME TreeInv, TypeOK', NEW q \in Requests,
         Arrive(q) \/ Refused(q) \/ CreateLevel(q) \/ AllocateSlug(q) \/ MoveSubtree(q)
           \/ MoveDepth(q) \/ MoveClash(q) \/ CountResources(q) \/ CountGrants(q)
  PROVE  TreeInv'
<1> USE DEF TreeInv, MovesApart, Moving, tree, content
<1>1. CASE Arrive(q)
  <2>1. UNCHANGED <<tree, home, scope>> /\ raced' = raced
    BY <1>1 DEF Arrive, BeginCreate, BeginMove, MoveChecks, BeginRemove, Start
  <2>2. /\ crossed' = crossed
        /\ \A o \in Requests \ {q} :
             pc'[o] = pc[o] /\ node'[o] = node[o] /\ target'[o] = target[o]
    BY <1>1 DEF Arrive, BeginCreate, BeginMove, MoveChecks, BeginRemove, Start, TypeOK
  <2>3. /\ target'[q] \in Nodes => Exists(target'[q])
        /\ pc'[q] \in {"subtree"} \cup Moving => node'[q] \in Nodes
        /\ pc'[q] \in Moving => target'[q] = Top
    BY <1>1 DEF Arrive, BeginCreate, BeginMove, MoveChecks, BeginRemove, Start, TypeOK, Exists
  <2> QED BY <2>1, <2>2, <2>3, QuietStep
<1>2. CASE Refused(q)
  BY <1>2, QuietStep DEF Refused, End, TypeOK
<1>3. CASE CreateLevel(q) \/ AllocateSlug(q) \/ CountResources(q) \/ CountGrants(q)
  BY <1>2, <1>3, QuietStep DEF CreateLevel, AllocateSlug, slugAttempts, CountResources, CountGrants, Check, TypeOK
<1>4. CASE MoveSubtree(q) \/ MoveDepth(q) \/ MoveClash(q)
  BY <1>2, <1>4, QuietStep DEF MoveSubtree, MoveDepth, MoveClash, Check, TypeOK
<1> QED BY <1>1, <1>2, <1>3, <1>4

LEMMA InsertStep ==
  ASSUME TreeInv, TypeOK', NEW q \in Requests, NEW x \in Nodes, InsertNode(q, x), ~Refused(q)
  PROVE  TreeInv'
<1> DEFINE p == target[q]
<1>1. /\ parent[x] = Unborn /\ (p = Top \/ Exists(p))
      /\ parent' = [parent EXCEPT ![x] = p] /\ UNCHANGED content
      /\ Crossing(q, "create") /\ End(q)
  BY DEF InsertNode
<1>2. NothingDangles'
  BY <1>1 DEF TreeInv, NothingDangles, Exists, TypeOK, content
<1>3. CycleNeedsRacingMoves'
  <2>1. raced # "cycle" => Acyclic'
    BY <1>1, InsertKeepsAcyclic DEF TreeInv, CycleNeedsRacingMoves
  <2>2. raced = "cycle" => raced' = "cycle"
    BY <1>1 DEF Crossing
  <2> QED BY <2>1, <2>2 DEF CycleNeedsRacingMoves
<1>4. MovesApart'
  <2> SUFFICES ASSUME NEW o \in Requests
               PROVE  /\ pc'[o] \in {"subtree"} \cup Moving => node'[o] \in Nodes
                      /\ target'[o] \in Nodes => parent'[target'[o]] # Unborn
                      /\ pc'[o] \in Moving /\ crossed'[o] # "move" /\ target'[o] \in Nodes
                         => ~isInSubtree(node[o], target[o])'
    BY DEF MovesApart
  <2>1. CASE o = q
    BY <1>1, <2>1 DEF End, TreeInv, TypeOK, Moving
  <2>2. CASE o # q
    <3>1. /\ pc'[o] = pc[o] /\ node'[o] = node[o] /\ target'[o] = target[o]
          /\ crossed'[o] # "move" => crossed[o] # "move"
      BY <1>1, <2>2 DEF End, Crossing, TreeInv, TypeOK
    <3>2. target[o] \in Nodes => target[o] # x /\ parent'[target[o]] = parent[target[o]]
      BY <1>1 DEF TreeInv, MovesApart, TypeOK
    <3>3. ASSUME pc'[o] \in Moving, crossed'[o] # "move", target'[o] \in Nodes
          PROVE  ~isInSubtree(node[o], target[o])'
      <4>1. ~isInSubtree(node[o], target[o])
        BY <3>1, <3>3 DEF TreeInv, MovesApart
      <4>2. PICK S \in SUBSET (Nodes \ {node[o]}) : target[o] \in S /\ Closed(S)
        BY <4>1, Apart
      <4>3. \A m \in Nodes : parent[m] # x
        BY <1>1 DEF TreeInv, NothingDangles, Exists
      <4>4. target[o] \in S \ {x} /\ S \ {x} \in SUBSET (Nodes \ {node[o]})
        BY <4>2, <3>1, <3>2, <3>3
      <4>5. Closed(S \ {x})'
        BY <4>2, <4>3, <1>1 DEF Closed, TreeInv, TypeOK
      <4> QED BY <4>4, <4>5, <3>1 DEF isInSubtree
    <3> QED BY <3>1, <3>2, <3>3 DEF TreeInv, MovesApart
  <2> QED BY <2>1, <2>2
<1> QED BY <1>2, <1>3, <1>4 DEF TreeInv

LEMMA MoveStep ==
  ASSUME TreeInv, TypeOK', NEW q \in Requests, MoveNode(q), ~Refused(q)
  PROVE  TreeInv'
<1> DEFINE x == node[q]  p == target[q]
<1>1. /\ Exists(x) /\ (p = Top \/ Exists(p)) /\ pc[q] = "move"
      /\ parent' = [parent EXCEPT ![x] = p] /\ UNCHANGED content
      /\ Crossing(q, "move") /\ End(q)
  BY DEF MoveNode
<1>2. NothingDangles'
  BY <1>1 DEF TreeInv, NothingDangles, Exists, TypeOK, content
<1>3. CycleNeedsRacingMoves'
  <2> SUFFICES ASSUME raced' # "cycle" PROVE Acyclic'
    BY DEF CycleNeedsRacingMoves
  <2>1. raced # "cycle" /\ (p = Top \/ crossed[q] # "move")
    BY <1>1 DEF Crossing
  <2>2. p = Top \/ ~isInSubtree(x, p)
    BY <1>1, <2>1 DEF TreeInv, MovesApart, Moving, Exists
  <2>3. Acyclic /\ x \in Nodes /\ p \in Nodes \cup {Top}
    BY <1>1, <2>1 DEF TreeInv, CycleNeedsRacingMoves, Exists
  <2> QED BY <1>1, <2>2, <2>3, MoveKeepsAcyclic DEF TreeInv
<1>4. MovesApart'
  <2> SUFFICES ASSUME NEW o \in Requests
               PROVE  /\ pc'[o] \in {"subtree"} \cup Moving => node'[o] \in Nodes
                      /\ target'[o] \in Nodes => parent'[target'[o]] # Unborn
                      /\ pc'[o] \in Moving /\ crossed'[o] # "move" => target'[o] \notin Nodes
    BY DEF MovesApart
  <2>1. CASE o = q
    BY <1>1, <2>1 DEF End, TreeInv, TypeOK, Moving
  <2>2. CASE o # q
    <3>1. /\ pc'[o] = pc[o] /\ node'[o] = node[o] /\ target'[o] = target[o]
          /\ pc[o] \in Moving => crossed'[o] = "move"
      BY <1>1, <2>2 DEF End, Crossing, TreeInv, TypeOK, Checked, Moving
    <3>2. target[o] \in Nodes => parent'[target[o]] # Unborn
      BY <1>1 DEF TreeInv, MovesApart, TypeOK, Exists
    <3> QED BY <3>1, <3>2 DEF TreeInv, MovesApart
  <2> QED BY <2>1, <2>2
<1> QED BY <1>2, <1>3, <1>4 DEF TreeInv

LEMMA DeleteStep ==
  ASSUME TreeInv, TypeOK', NEW q \in Requests, DeleteNode(q), ~Refused(q)
  PROVE  TreeInv'
<1> DEFINE x == node[q]
<1>1. /\ Exists(x) /\ ~Restricted(x)
      /\ parent' = [parent EXCEPT ![x] = Gone]
      /\ scope' = [g \in Grants |-> IF scope[g] = x THEN Gone ELSE scope[g]]
      /\ home' = home /\ crossed' = crossed /\ raced' = raced /\ End(q)
  BY DEF DeleteNode
<1>2. NothingDangles'
  BY <1>1 DEF TreeInv, NothingDangles, Exists, TypeOK, Restricted, Siblings
<1>3. CycleNeedsRacingMoves'
  BY <1>1, DeleteKeepsAcyclic DEF TreeInv, CycleNeedsRacingMoves, Exists
<1>4. MovesApart'
  <2> SUFFICES ASSUME NEW o \in Requests
               PROVE  /\ pc'[o] \in {"subtree"} \cup Moving => node'[o] \in Nodes
                      /\ target'[o] \in Nodes => parent'[target'[o]] # Unborn
                      /\ pc'[o] \in Moving /\ crossed'[o] # "move" /\ target'[o] \in Nodes
                         => ~isInSubtree(node[o], target[o])'
    BY DEF MovesApart
  <2>1. CASE o = q
    BY <1>1, <2>1 DEF End, TreeInv, TypeOK, Moving
  <2>2. CASE o # q
    <3>1. pc'[o] = pc[o] /\ node'[o] = node[o] /\ target'[o] = target[o]
      BY <1>1, <2>2 DEF End, TreeInv, TypeOK
    <3>2. target[o] \in Nodes => parent'[target[o]] # Unborn
      BY <1>1 DEF TreeInv, MovesApart, TypeOK
    <3>3. ASSUME pc'[o] \in Moving, crossed'[o] # "move", target'[o] \in Nodes
          PROVE  ~isInSubtree(node[o], target[o])'
      <4>1. PICK S \in SUBSET (Nodes \ {node[o]}) : target[o] \in S /\ Closed(S)
        BY <3>1, <3>3, <1>1, Apart DEF TreeInv, MovesApart
      <4>2. Closed(S)'
        BY <4>1, <1>1 DEF Closed, TreeInv, TypeOK
      <4> QED BY <4>1, <4>2, <3>1 DEF isInSubtree
    <3> QED BY <3>1, <3>2, <3>3 DEF TreeInv, MovesApart
  <2> QED BY <2>1, <2>2
<1> QED BY <1>2, <1>3, <1>4 DEF TreeInv

LEMMA SurroundingsStep == TreeInv /\ TypeOK' /\ Surroundings => TreeInv'
<1> SUFFICES ASSUME TreeInv, TypeOK', Surroundings PROVE TreeInv'
  OBVIOUS
<1>1. UNCHANGED <<tree, pc, node, target, crossed, raced>>
  BY DEF Surroundings, SetEnabled, PlaceResource, PurgeResource, InsertGrant, DeleteGrant, handler
<1>2. NothingDangles'
  BY <1>1 DEF Surroundings, SetEnabled, PlaceResource, PurgeResource, InsertGrant, DeleteGrant,
              TreeInv, NothingDangles, Exists, TypeOK, tree
<1>3. CycleNeedsRacingMoves' /\ MovesApart'
  BY <1>1 DEF TreeInv, CycleNeedsRacingMoves, MovesApart, Acyclic, isInSubtree, Closed, tree
<1> QED BY <1>2, <1>3 DEF TreeInv

\* The invariant holds in every reachable state.
THEOREM TreeInvariant == Spec => []TreeInv
<1>1. TreeInv /\ [Next]_vars => TreeInv'
  <2> SUFFICES ASSUME TreeInv, [Next]_vars PROVE TreeInv'
    OBVIOUS
  <2>1. TypeOK'
    BY TypeStep DEF TreeInv
  <2>2. ASSUME NEW q \in Requests, Arrive(q) \/ Proceed(q) PROVE TreeInv'
    BY <2>1, <2>2, ReadingStep, InsertStep, MoveStep, DeleteStep DEF Proceed, Abort
  <2>3. CASE UNCHANGED vars
    BY <2>1, <2>3 DEF vars, TreeInv, NothingDangles, CycleNeedsRacingMoves, MovesApart,
                      Acyclic, isInSubtree, Closed, Exists
  <2> QED BY <2>1, <2>2, <2>3, SurroundingsStep DEF Next
<1> QED BY <1>1, InitTree, PTL DEF Spec

\* Every variable has its type.
THEOREM TreeTypeCorrect == Spec => []TypeOK
BY TreeInvariant, PTL DEF TreeInv

\* Only a move written between another move's check and its write can close a
\* cycle; creations, removals and everything else may overlap at will.
THEOREM CyclesNeedRaces == Spec => []CycleNeedsRacingMoves
BY TreeInvariant, PTL DEF TreeInv

\* Parents, homes and scopes exist.
THEOREM NoDanglingRows == Spec => []NothingDangles
BY TreeInvariant, PTL DEF TreeInv

\* Siblings have different slugs.
THEOREM SlugsStayDifferent == Spec => []SiblingSlugsDiffer
<1>1. Init => SiblingSlugsDiffer
  BY DEF Init, SiblingSlugsDiffer, Exists
<1>2. TypeOK /\ SiblingSlugsDiffer /\ [Next]_vars => SiblingSlugsDiffer'
  <2> SUFFICES ASSUME TypeOK, SiblingSlugsDiffer, [Next]_vars PROVE SiblingSlugsDiffer'
    OBVIOUS
  <2>1. ASSUME NEW q \in Requests, NEW x \in Nodes, InsertNode(q, x), ~Refused(q)
        PROVE  SiblingSlugsDiffer'
    BY <2>1 DEF InsertNode, SiblingSlugsDiffer, SlugFree, Siblings, Exists, TypeOK
  <2>2. ASSUME NEW q \in Requests, MoveNode(q), ~Refused(q)
        PROVE  SiblingSlugsDiffer'
    BY <2>2 DEF MoveNode, SiblingSlugsDiffer, SlugFree, Siblings, Exists, TypeOK
  <2>3. ASSUME NEW q \in Requests, DeleteNode(q), ~Refused(q)
        PROVE  SiblingSlugsDiffer'
    BY <2>3 DEF DeleteNode, SiblingSlugsDiffer, Exists, TypeOK
  <2>4. CASE UNCHANGED tree
    BY <2>4 DEF tree, SiblingSlugsDiffer, Exists
  <2>5. ASSUME NEW q \in Requests, Arrive(q) PROVE UNCHANGED tree
    BY <2>5 DEF Arrive, BeginCreate, BeginMove, MoveChecks, BeginRemove, Start
  <2>6. ASSUME NEW q \in Requests,
               Refused(q) \/ CreateLevel(q) \/ AllocateSlug(q) \/ MoveSubtree(q) \/ MoveDepth(q)
               \/ MoveClash(q) \/ CountResources(q) \/ CountGrants(q)
        PROVE  UNCHANGED tree
    BY <2>6 DEF Refused, CreateLevel, AllocateSlug, slugAttempts, MoveSubtree, MoveDepth, MoveClash,
                CountResources, CountGrants, Check, tree
  <2>7. CASE Surroundings
    BY <2>4, <2>7 DEF Surroundings, SetEnabled, PlaceResource, PurgeResource, InsertGrant, DeleteGrant
  <2> QED BY <2>1, <2>2, <2>3, <2>4, <2>5, <2>6, <2>7 DEF Next, Proceed, Abort, vars, tree
<1> QED BY <1>1, <1>2, TreeTypeCorrect, PTL DEF Spec
\* What a removal that has counted the grants does not know of was given since.
CountedGrants ==
  \A q \in Requests : pc[q] = "delete" =>
    \A g \in Grants : scope[g] = node[q] => g \in late[q]

\* A removal takes away no grant but one given after it had counted them.
THEOREM GrantsSurviveRemovals == Spec => RemovalSparesGrants
<1>1. Init => CountedGrants
  BY DEF Init, CountedGrants
<1>2. TypeOK /\ CountedGrants /\ [Next]_vars => CountedGrants'
  <2> SUFFICES ASSUME TypeOK, CountedGrants, [Next]_vars,
                      NEW q \in Requests, pc'[q] = "delete",
                      NEW g \in Grants, scope'[g] = node'[q]
               PROVE  g \in late'[q]
    BY DEF CountedGrants
  <2> USE DEF TypeOK, CountedGrants
  <2>1. ASSUME NEW o \in Requests, Arrive(o) PROVE g \in late'[q]
    BY <2>1 DEF Arrive, BeginCreate, BeginMove, MoveChecks, BeginRemove, Start, content
  <2>2. ASSUME NEW o \in Requests, CountGrants(o) PROVE g \in late'[q]
    BY <2>2 DEF CountGrants, Check, Refused, End, content
  <2>3. ASSUME NEW o \in Requests, NEW n \in Nodes, InsertNode(o, n) PROVE g \in late'[q]
    BY <2>3 DEF InsertNode, Refused, End, content
  <2>4. ASSUME NEW o \in Requests, MoveNode(o) PROVE g \in late'[q]
    BY <2>4 DEF MoveNode, Refused, End, content
  <2>5. ASSUME NEW o \in Requests, DeleteNode(o) PROVE g \in late'[q]
    BY <2>5, DirectoryAssumption DEF DeleteNode, Refused, End, content
  <2>6. ASSUME NEW o \in Requests,
               Refused(o) \/ CreateLevel(o) \/ AllocateSlug(o) \/ MoveSubtree(o)
               \/ MoveDepth(o) \/ MoveClash(o) \/ CountResources(o)
        PROVE  g \in late'[q]
    BY <2>6 DEF Refused, End, CreateLevel, AllocateSlug, MoveSubtree, MoveDepth, MoveClash,
                CountResources, Check, content
  <2>7. CASE Surroundings
    BY <2>7 DEF Surroundings, SetEnabled, PlaceResource, PurgeResource, InsertGrant,
                DeleteGrant, handler
  <2>8. CASE UNCHANGED vars
    BY <2>8 DEF vars
  <2> QED BY <2>1, <2>2, <2>3, <2>4, <2>5, <2>6, <2>7, <2>8 DEF Next, Proceed, Abort
<1>3. TypeOK /\ CountedGrants =>
        \A q \in Requests, g \in Grants :
          DeleteNode(q) /\ scope'[g] # scope[g] => g \in late[q]
  BY DEF TypeOK, CountedGrants, DeleteNode, Refused, content
<1> QED BY <1>1, <1>2, <1>3, TreeTypeCorrect, PTL DEF Spec, RemovalSparesGrants

-----------------------------------------------------------------------------
(* Numbers.  The library's induction theorems take a predicate; the same    *)
(* can be said with a set, from the well-foundedness of strict inclusion.   *)

LEMMA Least ==
  ASSUME NEW S \in SUBSET Nat, S # {}
  PROVE  \E d \in S : \A e \in S : d <= e
<1> DEFINE T == {0..d : d \in S}
<1>1. T \subseteq FiniteSubsetsOf(Nat) /\ T # {}
  <2>1. ASSUME NEW d \in S PROVE 0..d \in FiniteSubsetsOf(Nat)
    <3>1. d \in Int /\ 0 \in Int /\ 0..d \in SUBSET Nat
      OBVIOUS
    <3>2. IsFiniteSet(0..d)
      BY <3>1, FS_Interval
    <3> QED BY <3>1, <3>2 DEF FiniteSubsetsOf
  <2> QED BY <2>1
<1>2. PICK U \in T : \A V \in T : <<V, U>> \notin StrictSubsetOrdering(Nat)
  <2>1. IsWellFoundedOn(StrictSubsetOrdering(Nat), FiniteSubsetsOf(Nat))
    BY FS_StrictSubsetOrderingWellFounded
  <2> HIDE DEF T
  <2> QED BY <1>1, <2>1, WFMin
<1>3. PICK d \in S : U = 0..d
  OBVIOUS
<1>4. ASSUME NEW e \in S, e < d PROVE FALSE
  <2>1. 0..e \in T /\ 0..e \subseteq 0..d /\ d \in 0..d /\ d \notin 0..e
    BY <1>4
  <2>2. <<0..e, 0..d>> \in StrictSubsetOrdering(Nat)
    BY <2>1 DEF StrictSubsetOrdering
  <2> QED BY <1>2, <1>3, <2>1, <2>2
<1> QED BY <1>4

LEMMA Greatest ==
  ASSUME NEW N \in Nat, NEW S \in SUBSET (0..N), S # {}
  PROVE  \E d \in S : \A e \in S : e <= d
<1> DEFINE T == {N - d : d \in S}
<1>1. T \in SUBSET Nat /\ T # {}
  <2>1. \A d \in S : N - d \in Nat
    OBVIOUS
  <2> QED BY <2>1
<1>2. PICK c \in T : \A e \in T : c <= e
  <2> HIDE DEF T
  <2> QED BY <1>1, Least
<1>3. PICK d \in S : c = N - d
  OBVIOUS
<1>4. ASSUME NEW e \in S PROVE e <= d
  <2>1. N - e \in T /\ d \in Nat /\ e \in Nat
    OBVIOUS
  <2> HIDE DEF T
  <2> QED BY <1>2, <1>3, <2>1
<1> QED BY <1>4

LEMMA CountUp ==
  ASSUME NEW N \in Nat, NEW Q, 0 \in Q, \A k \in 0..N : k \in Q /\ k < N => k + 1 \in Q
  PROVE  \A k \in 0..N : k \in Q
<1> DEFINE S == (0..N) \ Q
<1>1. SUFFICES ASSUME S # {} PROVE FALSE
  OBVIOUS
<1>2. PICK d \in S : \A e \in S : d <= e
  <2>1. S \in SUBSET Nat
    OBVIOUS
  <2> HIDE DEF S
  <2> QED BY <1>1, <2>1, Least
<1>3. d # 0 /\ d - 1 \in 0..N /\ d - 1 < N
  OBVIOUS
<1>4. d - 1 \in Q
  BY <1>2, <1>3
<1>5. (d - 1) + 1 = d
  OBVIOUS
<1> QED BY <1>3, <1>4, <1>5

-----------------------------------------------------------------------------
(* Paths: the least closed sets.                                            *)

\* The part of the path of m that is below x.
Line(x, m) == {a \in Path(m) : isInSubtree(x, a)}

\* S is closed in the next state.
NextClosed(S) == \A n \in S : parent'[n] \in Nodes => parent'[n] \in S

LEMMA PathIsClosed ==
  ASSUME NEW n \in Nodes
  PROVE  n \in Path(n) /\ Closed(Path(n)) /\ Path(n) \subseteq Nodes
<1>1. n \in Path(n) /\ Path(n) \subseteq Nodes
  BY DEF Path, isInSubtree
<1>2. ASSUME NEW a \in Path(n), parent[a] \in Nodes PROVE parent[a] \in Path(n)
  <2> SUFFICES ASSUME NEW S \in SUBSET (Nodes \ {parent[a]}), n \in S, Closed(S)
               PROVE  FALSE
    BY <1>2 DEF Path, isInSubtree
  <2>1. a \notin S
    BY <1>2 DEF Closed
  <2> QED BY <2>1 DEF Path, isInSubtree
<1> QED BY <1>1, <1>2 DEF Closed

LEMMA PathIsLeast ==
  ASSUME NEW S \in SUBSET Nodes, NEW n \in S, Closed(S)
  PROVE  Path(n) \subseteq S
BY DEF Path, isInSubtree

LEMMA NextPathIsLeast ==
  ASSUME NEW S \in SUBSET Nodes, NEW n \in S, NextClosed(S)
  PROVE  Path(n)' \subseteq S
BY DEF Path, isInSubtree, Closed, NextClosed

LEMMA PathUp ==
  ASSUME NEW n \in Nodes
  PROVE  Path(n) = {n} \cup (IF parent[n] \in Nodes THEN Path(parent[n]) ELSE {})
<1>1. CASE parent[n] \in Nodes
  <2> DEFINE P == Path(parent[n])
  <2>1. parent[n] \in P /\ Closed(P) /\ P \subseteq Nodes
    BY <1>1, PathIsClosed
  <2>2. n \in {n} \cup P /\ {n} \cup P \in SUBSET Nodes /\ Closed({n} \cup P)
    BY <2>1 DEF Closed
  <2>3. Path(n) \subseteq {n} \cup P
    BY <2>2, PathIsLeast
  <2>4. n \in Path(n) /\ parent[n] \in Path(n) /\ Closed(Path(n)) /\ Path(n) \in SUBSET Nodes
    BY <1>1, PathIsClosed DEF Closed
  <2>5. P \subseteq Path(n)
    BY <2>4, PathIsLeast
  <2> QED BY <1>1, <2>3, <2>4, <2>5
<1>2. CASE parent[n] \notin Nodes
  <2>1. Closed({n})
    BY <1>2 DEF Closed
  <2>2. Path(n) \subseteq {n} /\ n \in Path(n)
    BY <2>1, PathIsLeast, PathIsClosed
  <2> QED BY <1>2, <2>2
<1> QED BY <1>1, <1>2

\* What is removed or cut off shortens paths.
LEMMA DeleteShortens ==
  ASSUME TypeOK, NEW x \in Nodes, parent' = [parent EXCEPT ![x] = Gone], NEW m \in Nodes
  PROVE  Path(m)' \subseteq Path(m)
<1>1. NextClosed(Path(m))
  BY PathIsClosed DEF Closed, NextClosed, TypeOK
<1> QED BY <1>1, PathIsClosed, NextPathIsLeast

\* A new directory is below its parent, and changes no other path.
LEMMA InsertPaths ==
  ASSUME TypeOK, NothingDangles, NEW x \in Nodes, parent[x] = Unborn,
         NEW p, p = Top \/ Exists(p), parent' = [parent EXCEPT ![x] = p], NEW m \in Nodes
  PROVE  /\ m # x => Path(m)' \subseteq Path(m)
         /\ Path(x)' \subseteq (IF p = Top THEN {} ELSE Path(p)) \cup {x}
<1>1. \A n \in Nodes : parent[n] # x
  BY DEF NothingDangles, Exists
<1>2. ASSUME m # x PROVE Path(m)' \subseteq Path(m)
  <2>1. (Path(m) \ {x}) \in SUBSET Nodes /\ m \in Path(m) \ {x}
    BY <1>2, PathIsClosed
  <2>2. NextClosed(Path(m) \ {x})
    BY <1>1, PathIsClosed DEF Closed, NextClosed, TypeOK
  <2>3. Path(m)' \subseteq Path(m) \ {x}
    BY <2>1, <2>2, NextPathIsLeast
  <2> QED BY <2>3
<1>3. CASE p = Top
  <2>1. NextClosed({x})
    BY <1>3 DEF Closed, NextClosed, TypeOK
  <2> QED BY <1>2, <1>3, <2>1, NextPathIsLeast
<1>4. CASE p # Top
  <2> DEFINE S == Path(p) \cup {x}
  <2>1. p \in Nodes /\ p \in Path(p) /\ S \in SUBSET Nodes /\ x \in S
    BY <1>4, PathIsClosed DEF Exists
  <2>2. NextClosed(S)
    BY <1>1, <2>1, PathIsClosed DEF Closed, NextClosed, TypeOK
  <2>3. Path(x)' \subseteq S
    BY <2>1, <2>2, NextPathIsLeast
  <2> QED BY <1>2, <1>4, <2>3
<1> QED BY <1>3, <1>4

\* After x was put under p, what was below x is below p; the rest only lost.
LEMMA MovePaths ==
  ASSUME TypeOK, NEW x \in Nodes, NEW p \in Nodes \cup {Top},
         parent' = [parent EXCEPT ![x] = p], NEW m \in Nodes
  PROVE  IF x \in Path(m)
         THEN Path(m)' \subseteq (IF p = Top THEN {} ELSE Path(p)) \cup Line(x, m)
         ELSE Path(m)' \subseteq Path(m)
<1>1. CASE x \notin Path(m)
  <2>1. NextClosed(Path(m))
    BY <1>1, PathIsClosed DEF Closed, NextClosed, TypeOK
  <2> QED BY <1>1, <2>1, PathIsClosed, NextPathIsLeast
<1>2. CASE x \in Path(m)
  <2> DEFINE U == IF p = Top THEN {} ELSE Path(p)
             S == U \cup Line(x, m)
  <2>1. S \in SUBSET Nodes /\ m \in S
    BY <1>2, PathIsClosed DEF Line, Path
  <2>2. ASSUME NEW n \in S, parent'[n] \in Nodes PROVE parent'[n] \in S
    <3>1. CASE n = x
      <4>1. p \in Nodes /\ p # Top /\ parent'[n] = p
        BY <2>2, <3>1 DEF TypeOK
      <4> QED BY <4>1, PathIsClosed
    <3>2. CASE n # x /\ n \in U
      <4>1. parent'[n] = parent[n] /\ p \in Nodes /\ U = Path(p)
        BY <2>1, <2>2, <3>2 DEF TypeOK
      <4> HIDE DEF U
      <4>2. parent[n] \in U
        BY <2>2, <3>2, <4>1, PathIsClosed DEF Closed
      <4> QED BY <4>1, <4>2
    <3>3. CASE n # x /\ n \in Line(x, m)
      <4>1. parent'[n] = parent[n] /\ n \in Nodes /\ n \in Path(m) /\ x \in Path(n)
        BY <2>1, <2>2, <3>3 DEF TypeOK, Line, Path
      <4>2. parent[n] \in Path(m)
        BY <2>2, <4>1, PathIsClosed DEF Closed
      <4>3. x \in Path(parent[n])
        BY <2>2, <3>3, <4>1, PathUp
      <4> QED BY <4>1, <4>2, <4>3 DEF Line, Path
    <3> QED BY <3>1, <3>2, <3>3
  <2>3. NextClosed(S)
    BY <2>2 DEF Closed, NextClosed
  <2>4. Path(m)' \subseteq S
    BY <2>1, <2>3, NextPathIsLeast
  <2> QED BY <1>2, <2>4
<1> QED BY <1>1, <1>2

-----------------------------------------------------------------------------
(* Depth.                                                                    *)
(* No path of directories that exist or have existed is longer than the     *)
(* limit, and what a handler measured still holds when it writes, if        *)
(* nothing was put into the tree since: removals only shorten paths.         *)

PathsFit ==
  \A n \in Nodes :
    IsFiniteSet(Path(n)) /\ Cardinality(Path(n)) <= MAX_DIRECTORY_DEPTH

\* There is room for one more under p; for x and what is below it under p.
RoomUnder(p) == Cardinality(Path(p)) + 1 <= MAX_DIRECTORY_DEPTH
RoomFor(x, p) ==
  \A m \in Nodes : x \in Path(m) =>
    Cardinality(Path(p)) + Cardinality(Line(x, m)) <= MAX_DIRECTORY_DEPTH

Measured ==
  \A q \in Requests : crossed[q] = "nothing" /\ target[q] \in Nodes =>
    /\ pc[q] \in {"slug", "insert"} => RoomUnder(target[q])
    /\ pc[q] \in {"clash", "move"} => RoomFor(node[q], target[q])

\* The inductive invariant, on top of TreeInv.
DepthInv == raced = "nothing" => PathsFit /\ Measured

\* Lines are parts of paths.
LEMMA LinesFit ==
  ASSUME PathsFit, NEW x \in Nodes, NEW m \in Nodes
  PROVE  /\ IsFiniteSet(Line(x, m)) /\ Line(x, m) \subseteq Path(m)
         /\ Cardinality(Line(x, m)) \in 0..MAX_DIRECTORY_DEPTH
         /\ Cardinality(Path(m)) \in 0..MAX_DIRECTORY_DEPTH
<1>1. Line(x, m) \in SUBSET Path(m)
  BY DEF Line
<1>2. IsFiniteSet(Path(m)) /\ Cardinality(Path(m)) <= MAX_DIRECTORY_DEPTH
  BY DEF PathsFit
<1>3. IsFiniteSet(Line(x, m)) /\ Cardinality(Line(x, m)) <= Cardinality(Path(m))
  BY <1>1, <1>2, FS_Subset
<1>4. Cardinality(Path(m)) \in Nat /\ Cardinality(Line(x, m)) \in Nat
  BY <1>2, <1>3, FS_CardinalityType
<1> QED BY <1>1, <1>2, <1>3, <1>4

\* subtreeDepth counts the longest line below x.
LEMMA SubtreeDepth ==
  ASSUME PathsFit, NEW x \in Nodes, NEW m \in Nodes, x \in Path(m)
  PROVE  subtreeDepth(x) \in Nat /\ Cardinality(Line(x, m)) <= subtreeDepth(x)
<1> DEFINE below == {n \in Nodes : isInSubtree(x, n)}
           levels == {Cardinality(Path(n) \cap below) : n \in below}
<1>1. \A n \in below : Path(n) \cap below = Line(x, n)
  BY DEF Line, Path
<1>2. levels \in SUBSET (0..MAX_DIRECTORY_DEPTH)
  BY <1>1, LinesFit
<1>3. m \in below /\ Cardinality(Line(x, m)) \in levels
  BY <1>1 DEF Path
<1>4. subtreeDepth(x) = CHOOSE d \in levels : \A e \in levels : e <= d
  BY DEF subtreeDepth
<1> HIDE DEF levels
<1>5. \E d \in levels : \A e \in levels : e <= d
  BY <1>2, <1>3, Greatest
<1>6. subtreeDepth(x) \in levels /\ \A e \in levels : e <= subtreeDepth(x)
  BY <1>4, <1>5
<1>7. subtreeDepth(x) \in 0..MAX_DIRECTORY_DEPTH
  BY <1>2, <1>6
<1> QED BY <1>3, <1>6, <1>7

\* What the checks of the handlers compute is what Measured says.
LEMMA LevelMeasures ==
  ASSUME PathsFit, NEW p \in Nodes, LevelUnder(p) <= MAX_DIRECTORY_DEPTH
  PROVE  RoomUnder(p)
BY DEF LevelUnder, RoomUnder

LEMMA FitsMeasures ==
  ASSUME PathsFit, NEW x \in Nodes, NEW p \in Nodes, FitsBelow(x, p)
  PROVE  RoomFor(x, p)
<1> SUFFICES ASSUME NEW m \in Nodes, x \in Path(m)
             PROVE  Cardinality(Path(p)) + Cardinality(Line(x, m)) <= MAX_DIRECTORY_DEPTH
  BY DEF RoomFor
<1>1. subtreeDepth(x) \in Nat /\ Cardinality(Line(x, m)) <= subtreeDepth(x)
  BY SubtreeDepth
<1>2. Cardinality(Path(p)) \in Nat /\ Cardinality(Line(x, m)) \in Nat
  BY LinesFit
<1>3. (Cardinality(Path(p)) - 1) + subtreeDepth(x) + 1 <= MAX_DIRECTORY_DEPTH
  BY DEF FitsBelow
<1> QED BY <1>1, <1>2, <1>3

\* Shorter paths fit as well.
LEMMA Shorter ==
  ASSUME PathsFit, NEW m \in Nodes, Path(m)' \subseteq Path(m)
  PROVE  /\ IsFiniteSet(Path(m)') /\ Cardinality(Path(m)') \in Nat
         /\ Cardinality(Path(m)') <= Cardinality(Path(m))
         /\ Cardinality(Path(m)') <= MAX_DIRECTORY_DEPTH
<1>1. IsFiniteSet(Path(m)) /\ Cardinality(Path(m)) <= MAX_DIRECTORY_DEPTH
  BY DEF PathsFit
<1>2. IsFiniteSet(Path(m)') /\ Cardinality(Path(m)') <= Cardinality(Path(m))
  BY <1>1, FS_Subset
<1>3. Cardinality(Path(m)) \in Nat /\ Cardinality(Path(m)') \in Nat
  BY <1>1, <1>2, FS_CardinalityType
<1> QED BY <1>1, <1>2, <1>3

LEMMA Shrink ==
  ASSUME PathsFit, \A m \in Nodes : Path(m)' \subseteq Path(m)
  PROVE  /\ PathsFit'
         /\ \A p \in Nodes : RoomUnder(p) => RoomUnder(p)'
         /\ \A x, p \in Nodes : RoomFor(x, p) => RoomFor(x, p)'
<1>1. PathsFit'
  BY Shorter DEF PathsFit
<1>2. ASSUME NEW p \in Nodes, RoomUnder(p) PROVE RoomUnder(p)'
  <2>1. Cardinality(Path(p)') \in Nat /\ Cardinality(Path(p)') <= Cardinality(Path(p))
    BY Shorter
  <2>2. Cardinality(Path(p)) \in Nat
    BY LinesFit
  <2> QED BY <1>2, <2>1, <2>2 DEF RoomUnder
<1>3. ASSUME NEW x \in Nodes, NEW p \in Nodes, RoomFor(x, p),
             NEW m \in Nodes, x \in Path(m)'
      PROVE  Cardinality(Path(p)') + Cardinality(Line(x, m)') <= MAX_DIRECTORY_DEPTH
  <2>1. Cardinality(Path(p)) + Cardinality(Line(x, m)) <= MAX_DIRECTORY_DEPTH
    BY <1>3 DEF RoomFor
  <2>2. Line(x, m)' \in SUBSET Line(x, m)
    <3>1. ASSUME NEW a \in Line(x, m)' PROVE a \in Line(x, m)
      <4>1. a \in Path(m) /\ a \in Nodes /\ x \in Path(a)'
        BY <3>1 DEF Line, Path
      <4> QED BY <4>1 DEF Line, Path
    <3> QED BY <3>1
  <2>3. IsFiniteSet(Line(x, m)) /\ Cardinality(Line(x, m)) \in Nat /\ Cardinality(Path(p)) \in Nat
    BY LinesFit
  <2>4. IsFiniteSet(Line(x, m)') /\ Cardinality(Line(x, m)') <= Cardinality(Line(x, m))
    BY <2>2, <2>3, FS_Subset
  <2>5. Cardinality(Line(x, m)') \in Nat
    BY <2>4, FS_CardinalityType
  <2>6. Cardinality(Path(p)') \in Nat /\ Cardinality(Path(p)') <= Cardinality(Path(p))
    BY Shorter
  <2> QED BY <2>1, <2>3, <2>4, <2>5, <2>6
<1> QED BY <1>1, <1>2, <1>3 DEF RoomFor
\* A step that lengthens no path keeps what was measured.
LEMMA DepthStep ==
  ASSUME TreeInv, DepthInv, TypeOK', raced' = "nothing" => raced = "nothing",
         \A m \in Nodes : Path(m)' \subseteq Path(m),
         \A o \in Requests : crossed'[o] = "nothing" /\ target'[o] \in Nodes =>
           /\ pc'[o] \in {"slug", "insert"} =>
                target'[o] = target[o] /\ (PathsFit /\ Measured => RoomUnder(target[o]))
           /\ pc'[o] \in {"clash", "move"} =>
                /\ target'[o] = target[o] /\ node'[o] = node[o] /\ node[o] \in Nodes
                /\ PathsFit /\ Measured => RoomFor(node[o], target[o])
  PROVE  DepthInv'
<1> SUFFICES ASSUME raced' = "nothing" PROVE PathsFit' /\ Measured'
  BY DEF DepthInv
<1>1. PathsFit /\ Measured
  BY DEF DepthInv
<1>2. /\ PathsFit'
      /\ \A p \in Nodes : RoomUnder(p) => RoomUnder(p)'
      /\ \A x, p \in Nodes : RoomFor(x, p) => RoomFor(x, p)'
  BY <1>1, Shrink
<1>3. ASSUME NEW o \in Requests, crossed'[o] = "nothing", target'[o] \in Nodes
      PROVE  /\ pc'[o] \in {"slug", "insert"} => RoomUnder(target[o])'
             /\ pc'[o] \in {"clash", "move"} => RoomFor(node[o], target[o])'
  <2>1. CASE pc'[o] \in {"slug", "insert"}
    <3>1. target'[o] = target[o] /\ RoomUnder(target[o])
      BY <1>1, <1>3, <2>1
    <3>2. PICK p \in Nodes : p = target[o] /\ p = target'[o]
      BY <1>3, <3>1
    <3>3. RoomUnder(p)'
      BY <1>2, <3>1, <3>2
    <3> QED BY <2>1, <3>2, <3>3 DEF RoomUnder
  <2>2. CASE pc'[o] \in {"clash", "move"}
    <3>1. /\ target'[o] = target[o] /\ node'[o] = node[o] /\ node[o] \in Nodes
          /\ RoomFor(node[o], target[o])
      BY <1>1, <1>3, <2>2
    <3>2. PICK p \in Nodes, x \in Nodes :
            p = target[o] /\ p = target'[o] /\ x = node[o] /\ x = node'[o]
      BY <1>3, <3>1
    <3>3. RoomFor(x, p)'
      BY <1>2, <3>1, <3>2
    <3> QED BY <2>2, <3>2, <3>3 DEF RoomFor
  <2> QED BY <2>1, <2>2
<1> QED BY <1>2, <1>3 DEF Measured

LEMMA SamePaths ==
  ASSUME parent' = parent
  PROVE  \A m \in Nodes : Path(m)' \subseteq Path(m)
BY DEF Path, isInSubtree, Closed

\* A handler that takes up a call, ends, or only reads.
LEMMA ReadingFits ==
  ASSUME TreeInv, DepthInv, TypeOK', NEW q \in Requests,
         Arrive(q) \/ Refused(q) \/ CreateLevel(q) \/ AllocateSlug(q) \/ MoveSubtree(q)
           \/ MoveDepth(q) \/ MoveClash(q) \/ CountResources(q) \/ CountGrants(q)
  PROVE  DepthInv'
<1> USE DEF Moving, tree, content
<1>1. /\ parent' = parent /\ raced' = raced
      /\ \A o \in Requests \ {q} : /\ pc'[o] = pc[o] /\ node'[o] = node[o]
                                   /\ target'[o] = target[o] /\ crossed'[o] = crossed[o]
  <2>1. CASE Arrive(q)
    BY <2>1 DEF Arrive, BeginCreate, BeginMove, MoveChecks, BeginRemove, Start, TreeInv, TypeOK
  <2>2. CASE Refused(q)
    BY <2>2 DEF Refused, End, TreeInv, TypeOK
  <2>3. CASE CreateLevel(q) \/ AllocateSlug(q) \/ CountResources(q) \/ CountGrants(q)
             \/ MoveSubtree(q) \/ MoveDepth(q) \/ MoveClash(q)
    BY <2>2, <2>3 DEF CreateLevel, AllocateSlug, slugAttempts, CountResources, CountGrants,
                      MoveSubtree, MoveDepth, MoveClash, Check, TreeInv, TypeOK
  <2> QED BY <2>1, <2>2, <2>3
<1>2. ASSUME crossed'[q] = "nothing", target'[q] \in Nodes
      PROVE  /\ pc'[q] \in {"slug", "insert"} =>
                  target'[q] = target[q] /\ (PathsFit /\ Measured => RoomUnder(target[q]))
             /\ pc'[q] \in {"clash", "move"} =>
                  /\ target'[q] = target[q] /\ node'[q] = node[q] /\ node[q] \in Nodes
                  /\ PathsFit /\ Measured => RoomFor(node[q], target[q])
  <2>1. CASE Arrive(q)
    <3>1. pc'[q] \in {"slug", "insert", "clash", "move"} => target'[q] = Top
      BY <2>1 DEF Arrive, BeginCreate, BeginMove, MoveChecks, BeginRemove, Start, TreeInv, TypeOK
    <3> QED BY <1>2, <3>1
  <2>2. CASE Refused(q)
    BY <2>2 DEF Refused, End, TreeInv, TypeOK
  <2>3. CASE CreateLevel(q) /\ ~Refused(q)
    <3>1. /\ pc'[q] = "slug" /\ target' = target
          /\ LevelUnder(target[q]) <= MAX_DIRECTORY_DEPTH
      BY <2>3 DEF CreateLevel, Check, TreeInv, TypeOK
    <3> QED BY <1>2, <3>1, LevelMeasures
  <2>4. CASE AllocateSlug(q) /\ ~Refused(q)
    <3>1. /\ pc[q] = "slug" /\ pc'[q] = "insert" /\ target' = target /\ crossed' = crossed
      BY <2>4 DEF AllocateSlug, slugAttempts, TreeInv, TypeOK
    <3> QED BY <1>2, <3>1 DEF Measured
  <2>5. CASE MoveDepth(q) /\ ~Refused(q)
    <3>1. /\ pc[q] = "depth" /\ pc'[q] = "clash" /\ target' = target /\ node' = node
          /\ FitsBelow(node[q], target[q])
      BY <2>5 DEF MoveDepth, Check, TreeInv, TypeOK
    <3>2. node[q] \in Nodes
      BY <3>1 DEF TreeInv, MovesApart
    <3> QED BY <1>2, <3>1, <3>2, FitsMeasures
  <2>6. CASE MoveClash(q) /\ ~Refused(q)
    <3>1. /\ pc[q] = "clash" /\ pc'[q] = "move" /\ target' = target /\ node' = node
          /\ crossed' = crossed
      BY <2>6 DEF MoveClash, Check, TreeInv, TypeOK
    <3>2. node[q] \in Nodes
      BY <3>1 DEF TreeInv, MovesApart
    <3> QED BY <1>2, <3>1, <3>2 DEF Measured
  <2>7. CASE (CountResources(q) \/ CountGrants(q) \/ MoveSubtree(q)) /\ ~Refused(q)
    BY <2>7 DEF CountResources, CountGrants, MoveSubtree, Check, TreeInv, TypeOK
  <2> QED BY <2>1, <2>2, <2>3, <2>4, <2>5, <2>6, <2>7
<1>3. ASSUME NEW o \in Requests, o # q, crossed'[o] = "nothing", target'[o] \in Nodes
      PROVE  /\ pc'[o] \in {"slug", "insert"} =>
                  target'[o] = target[o] /\ (PathsFit /\ Measured => RoomUnder(target[o]))
             /\ pc'[o] \in {"clash", "move"} =>
                  /\ target'[o] = target[o] /\ node'[o] = node[o] /\ node[o] \in Nodes
                  /\ PathsFit /\ Measured => RoomFor(node[o], target[o])
  BY <1>1, <1>3 DEF Measured, TreeInv, MovesApart
<1>4. \A m \in Nodes : Path(m)' \subseteq Path(m)
  BY <1>1, SamePaths
<1> QED BY <1>1, <1>2, <1>3, <1>4, DepthStep

\* A write to the tree leaves no other handler with a measurement.
LEMMA Crossed ==
  ASSUME TypeOK, NEW q \in Requests, NEW what \in {"create", "move"}, Crossing(q, what), End(q)
  PROVE  /\ raced' = "nothing" => raced = "nothing" /\ (target[q] = Top \/ crossed[q] = "nothing")
         /\ \A o \in Requests : crossed'[o] = "nothing" =>
              pc'[o] \notin {"slug", "insert", "clash", "move"}
BY DEF Crossing, End, Checked, TypeOK

LEMMA InsertFits ==
  ASSUME TreeInv, DepthInv, TypeOK', NEW q \in Requests, NEW x \in Nodes, InsertNode(q, x),
         ~Refused(q)
  PROVE  DepthInv'
<1> DEFINE p == target[q]
<1>1. /\ parent[x] = Unborn /\ (p = Top \/ Exists(p)) /\ pc[q] = "insert"
      /\ parent' = [parent EXCEPT ![x] = p] /\ Crossing(q, "create") /\ End(q)
  BY DEF InsertNode
<1> SUFFICES ASSUME raced' = "nothing" PROVE PathsFit' /\ Measured'
  BY DEF DepthInv
<1>2. Measured'
  BY <1>1, Crossed DEF TreeInv, Measured
<1>3. PathsFit /\ Measured /\ (p = Top \/ crossed[q] = "nothing")
  BY <1>1, Crossed DEF TreeInv, DepthInv
<1>4. /\ \A m \in Nodes \ {x} : Path(m)' \subseteq Path(m)
      /\ Path(x)' \subseteq (IF p = Top THEN {} ELSE Path(p)) \cup {x}
  BY <1>1, InsertPaths DEF TreeInv
<1>5. IsFiniteSet(Path(x)') /\ Cardinality(Path(x)') <= MAX_DIRECTORY_DEPTH
  <2>1. CASE p = Top
    <3>1. Path(x)' \in SUBSET {x} /\ IsFiniteSet({x}) /\ Cardinality({x}) = 1
      BY <1>4, <2>1, FS_Singleton
    <3>2. IsFiniteSet(Path(x)') /\ Cardinality(Path(x)') <= 1
      BY <3>1, FS_Subset
    <3> QED BY <3>2, FS_CardinalityType
  <2>2. CASE p # Top
    <3>1. p \in Nodes /\ RoomUnder(p)
      BY <1>1, <1>3, <2>2 DEF Exists, Measured
    <3>2. IsFiniteSet(Path(p)) /\ Cardinality(Path(p)) \in Nat
      BY <1>3, <3>1, FS_CardinalityType DEF PathsFit
    <3>3. /\ IsFiniteSet(Path(p) \cup {x}) /\ Cardinality(Path(p) \cup {x}) \in Nat
          /\ Cardinality(Path(p) \cup {x}) <= Cardinality(Path(p)) + 1
      <4>1. /\ IsFiniteSet(Path(p) \cup {x})
            /\ Cardinality(Path(p) \cup {x})
                 = IF x \in Path(p) THEN Cardinality(Path(p)) ELSE Cardinality(Path(p)) + 1
        BY <3>2, FS_AddElement
      <4> QED BY <3>2, <4>1
    <3>4. Path(x)' \in SUBSET (Path(p) \cup {x})
      BY <1>4, <2>2
    <3>5. IsFiniteSet(Path(x)') /\ Cardinality(Path(x)') <= Cardinality(Path(p) \cup {x})
      BY <3>3, <3>4, FS_Subset
    <3>6. Cardinality(Path(x)') \in Nat
      BY <3>5, FS_CardinalityType
    <3> QED BY <3>1, <3>2, <3>3, <3>5, <3>6 DEF RoomUnder
  <2> QED BY <2>1, <2>2
<1>6. PathsFit'
  BY <1>3, <1>4, <1>5, Shorter DEF PathsFit
<1> QED BY <1>2, <1>6

LEMMA MoveFits ==
  ASSUME TreeInv, DepthInv, TypeOK', NEW q \in Requests, MoveNode(q), ~Refused(q)
  PROVE  DepthInv'
<1> DEFINE x == node[q]  p == target[q]
<1>1. /\ Exists(x) /\ (p = Top \/ Exists(p)) /\ pc[q] = "move"
      /\ parent' = [parent EXCEPT ![x] = p] /\ Crossing(q, "move") /\ End(q)
  BY DEF MoveNode
<1> SUFFICES ASSUME raced' = "nothing" PROVE PathsFit' /\ Measured'
  BY DEF DepthInv
<1>2. Measured'
  BY <1>1, Crossed DEF TreeInv, Measured
<1>3. PathsFit /\ Measured /\ (p = Top \/ crossed[q] = "nothing")
  BY <1>1, Crossed DEF TreeInv, DepthInv
<1>4. x \in Nodes /\ p \in Nodes \cup {Top}
  BY <1>1 DEF Exists
<1>5. ASSUME NEW m \in Nodes
      PROVE  IsFiniteSet(Path(m)') /\ Cardinality(Path(m)') <= MAX_DIRECTORY_DEPTH
  <2>1. IF x \in Path(m)
        THEN Path(m)' \subseteq (IF p = Top THEN {} ELSE Path(p)) \cup Line(x, m)
        ELSE Path(m)' \subseteq Path(m)
    BY <1>1, <1>4, MovePaths DEF TreeInv
  <2>2. CASE x \notin Path(m) \/ p = Top
    <3>1. Path(m)' \subseteq Path(m)
      BY <2>1, <2>2 DEF Line
    <3> QED BY <1>3, <3>1, Shorter
  <2>3. CASE x \in Path(m) /\ p # Top
    <3>1. p \in Nodes /\ RoomFor(x, p)
      BY <1>1, <1>3, <1>4, <2>3 DEF Measured
    <3>2. Cardinality(Path(p)) + Cardinality(Line(x, m)) <= MAX_DIRECTORY_DEPTH
      BY <2>3, <3>1 DEF RoomFor
    <3>3. /\ IsFiniteSet(Path(p)) /\ Cardinality(Path(p)) \in Nat
          /\ IsFiniteSet(Line(x, m)) /\ Cardinality(Line(x, m)) \in Nat
      BY <1>3, <1>4, <3>1, LinesFit, FS_CardinalityType DEF PathsFit
    <3>4. IsFiniteSet(Path(p) \cap Line(x, m))
      BY <3>3, FS_Subset
    <3>5. Cardinality(Path(p) \cap Line(x, m)) \in Nat
      BY <3>4, FS_CardinalityType
    <3>6. /\ IsFiniteSet(Path(p) \cup Line(x, m))
          /\ Cardinality(Path(p) \cup Line(x, m))
               = Cardinality(Path(p)) + Cardinality(Line(x, m))
                   - Cardinality(Path(p) \cap Line(x, m))
      BY <3>3, FS_Union
    <3>7. Path(m)' \in SUBSET (Path(p) \cup Line(x, m))
      BY <2>1, <2>3
    <3>8. /\ IsFiniteSet(Path(m)')
          /\ Cardinality(Path(m)') <= Cardinality(Path(p) \cup Line(x, m))
      BY <3>6, <3>7, FS_Subset
    <3>9. Cardinality(Path(m)') \in Nat
      BY <3>8, FS_CardinalityType
    <3> QED BY <3>2, <3>3, <3>5, <3>6, <3>8, <3>9
  <2> QED BY <2>2, <2>3
<1>6. PathsFit'
  BY <1>5 DEF PathsFit
<1> QED BY <1>2, <1>6

LEMMA DeleteFits ==
  ASSUME TreeInv, DepthInv, TypeOK', NEW q \in Requests, DeleteNode(q), ~Refused(q)
  PROVE  DepthInv'
<1> DEFINE x == node[q]
<1>1. /\ Exists(x) /\ parent' = [parent EXCEPT ![x] = Gone]
      /\ crossed' = crossed /\ raced' = raced /\ End(q)
  BY DEF DeleteNode
<1>2. \A m \in Nodes : Path(m)' \subseteq Path(m)
  BY <1>1, DeleteShortens DEF TreeInv, Exists
<1>3. /\ pc'[q] = "idle"
      /\ \A o \in Requests \ {q} : /\ pc'[o] = pc[o] /\ node'[o] = node[o]
                                   /\ target'[o] = target[o]
  BY <1>1 DEF End, TreeInv, TypeOK
<1>4. ASSUME NEW o \in Requests, crossed'[o] = "nothing", target'[o] \in Nodes
      PROVE  /\ pc'[o] \in {"slug", "insert"} =>
                  target'[o] = target[o] /\ (PathsFit /\ Measured => RoomUnder(target[o]))
             /\ pc'[o] \in {"clash", "move"} =>
                  /\ target'[o] = target[o] /\ node'[o] = node[o] /\ node[o] \in Nodes
                  /\ PathsFit /\ Measured => RoomFor(node[o], target[o])
  BY <1>1, <1>3, <1>4 DEF Measured, TreeInv, MovesApart, Moving
<1> QED BY <1>1, <1>2, <1>4, DepthStep

THEOREM DepthInvariant == Spec => []DepthInv
<1>1. Init => DepthInv
  <2> SUFFICES ASSUME Init PROVE PathsFit /\ Measured
    BY DEF DepthInv
  <2>1. ASSUME NEW n \in Nodes
        PROVE  IsFiniteSet(Path(n)) /\ Cardinality(Path(n)) <= MAX_DIRECTORY_DEPTH
    <3>1. Path(n) = {n}
      BY PathUp DEF Init
    <3>2. IsFiniteSet({n}) /\ Cardinality({n}) = 1
      BY FS_Singleton
    <3>3. 1 <= MAX_DIRECTORY_DEPTH
      OBVIOUS
    <3> QED BY <3>1, <3>2, <3>3
  <2> QED BY <2>1 DEF Init, PathsFit, Measured
<1>2. TreeInv /\ DepthInv /\ TypeOK' /\ [Next]_vars => DepthInv'
  <2> SUFFICES ASSUME TreeInv, DepthInv, TypeOK', [Next]_vars PROVE DepthInv'
    OBVIOUS
  <2>1. ASSUME NEW q \in Requests, Arrive(q) \/ Proceed(q) PROVE DepthInv'
    BY <2>1, ReadingFits, InsertFits, MoveFits, DeleteFits DEF Proceed, Abort
  <2>2. CASE Surroundings \/ UNCHANGED vars
    <3>1. UNCHANGED <<parent, pc, node, target, crossed, raced>>
      BY <2>2 DEF Surroundings, SetEnabled, PlaceResource, PurgeResource, InsertGrant,
                  DeleteGrant, handler, tree, vars
    <3>2. \A m \in Nodes : Path(m)' \subseteq Path(m)
      BY <3>1, SamePaths
    <3> QED BY <3>1, <3>2, DepthStep DEF Measured, TreeInv, MovesApart, Moving
  <2> QED BY <2>1, <2>2 DEF Next
<1> QED BY <1>1, <1>2, TreeInvariant, TreeTypeCorrect, PTL DEF Spec

\* No path is longer than MAX_DIRECTORY_DEPTH, unless a directory was put into
\* the path of another handler after it had counted the levels.
THEOREM DepthStaysBounded == Spec => []DepthBounded
<1>1. DepthInv => DepthBounded
  BY DEF DepthInv, DepthBounded, PathsFit
<1> QED BY <1>1, DepthInvariant, PTL
-----------------------------------------------------------------------------
(* What getTree shows.  A directory still shown after i passes either has    *)
(* only visible ones above it, or at least i + 1 of them; no path is as long *)
(* as the number of passes, so what is left are the closed directories.      *)

\* The passes of Shown(M), as one function.
Visible(M) == {n \in Nodes : Exists(n) /\ (isUsable(n) \/ n \in Below(M))}
IsRounds(f, N, S) == f = [i \in 0..N |-> IF i = 0 THEN S ELSE Pass(f[i - 1])]
Rounds(S) == CHOOSE f : IsRounds(f, Passes, S)

LEMMA ShownIsLastRound == ASSUME NEW M PROVE Shown(M) = Rounds(Visible(M))[Passes]
BY DEF Shown, Rounds, IsRounds, Visible

\* The recursive definition defines a function.
LEMMA RoundsExist ==
  ASSUME NEW S
  PROVE  IsRounds(Rounds(S), Passes, S)
<1> DEFINE Q == {k \in 0..Passes : \E f : IsRounds(f, k, S)}
<1>1. Passes \in Nat
  BY DEF Passes
<1>2. 0 \in Q
  <2>1. IsRounds([i \in 0..0 |-> S], 0, S)
    BY DEF IsRounds
  <2> QED BY <1>1, <2>1
<1>3. ASSUME NEW k \in 0..Passes, k \in Q, k < Passes PROVE k + 1 \in Q
  <2>1. PICK f : IsRounds(f, k, S)
    BY <1>3
  <2> DEFINE g == [i \in 0..(k + 1) |-> IF i = k + 1 THEN Pass(f[k]) ELSE f[i]]
  <2>2. ASSUME NEW i \in 0..(k + 1)
        PROVE  g[i] = IF i = 0 THEN S ELSE Pass(g[i - 1])
    <3>1. CASE i = k + 1
      BY <3>1
    <3>2. CASE i # k + 1
      <4>1. i \in 0..k /\ g[i] = f[i]
        BY <3>2
      <4>2. f[i] = IF i = 0 THEN S ELSE Pass(f[i - 1])
        BY <2>1, <4>1 DEF IsRounds
      <4>3. i # 0 => i - 1 \in 0..(k + 1) /\ i - 1 # k + 1 /\ g[i - 1] = f[i - 1]
        BY <4>1
      <4> QED BY <4>1, <4>2, <4>3
    <3> QED BY <3>1, <3>2
  <2>3. IsRounds(g, k + 1, S)
    BY <2>2 DEF IsRounds
  <2>4. k + 1 \in 0..Passes
    BY <1>1, <1>3
  <2> QED BY <2>3, <2>4
<1>4. Passes \in Q
  <2> HIDE DEF Q
  <2> QED BY <1>1, <1>2, <1>3, CountUp
<1> QED BY <1>4 DEF Rounds

\* In a tree, a path gets longer with every level.
LEMMA PathGrows ==
  ASSUME TypeOK, Acyclic, PathsFit, NEW n \in Nodes, parent[n] \in Nodes
  PROVE  /\ Path(n) = {n} \cup Path(parent[n])
         /\ Cardinality(Path(n)) = Cardinality(Path(parent[n])) + 1
<1> DEFINE p == parent[n]
           C == Line(n, p)
<1>1. Path(n) = {n} \cup Path(p)
  BY PathUp
<1>2. ASSUME n \in Path(p) PROVE FALSE
  <2>1. C \in SUBSET Nodes /\ p \in C
    BY <1>2, PathIsClosed DEF Line, Path
  <2>2. ASSUME NEW m \in C PROVE parent[m] \in C
    <3>1. CASE m = n
      BY <2>1, <3>1
    <3>2. CASE m # n
      <4>1. m \in Nodes /\ m \in Path(p) /\ n \in Path(m)
        BY <2>1, <2>2 DEF Line, Path
      <4>2. parent[m] \in Nodes /\ n \in Path(parent[m])
        BY <3>2, <4>1, PathUp
      <4>3. parent[m] \in Path(p)
        BY <4>1, <4>2, PathIsClosed DEF Closed
      <4> QED BY <4>2, <4>3 DEF Line, Path
    <3> QED BY <3>1, <3>2
  <2> HIDE DEF C
  <2> QED BY <2>1, <2>2 DEF Acyclic
<1>3. IsFiniteSet(Path(p))
  BY DEF PathsFit
<1>4. Cardinality(Path(p) \cup {n})
        = IF n \in Path(p) THEN Cardinality(Path(p)) ELSE Cardinality(Path(p)) + 1
  BY <1>3, FS_AddElement
<1>5. Path(n) = Path(p) \cup {n}
  BY <1>1
<1> QED BY <1>1, <1>2, <1>4, <1>5

LEMMA RoundsAreLong ==
  ASSUME TypeOK, Acyclic, PathsFit, NEW S \in SUBSET Nodes
  PROVE  \A i \in 0..Passes : \A n \in Rounds(S)[i] :
           n \in S /\ (Path(n) \subseteq S \/ Cardinality(Path(n)) >= i + 2)
<1> DEFINE f == Rounds(S)
           Good(i) == \A n \in f[i] :
             n \in S /\ (Path(n) \subseteq S \/ Cardinality(Path(n)) >= i + 2)
           Q == {i \in 0..Passes : Good(i)}
<1>1. Passes \in Nat /\ \A i \in 0..Passes : f[i] = IF i = 0 THEN S ELSE Pass(f[i - 1])
  <2>1. Passes \in Nat /\ IsRounds(f, Passes, S)
    BY RoundsExist DEF Passes
  <2> QED BY <2>1 DEF IsRounds
<1>2. ASSUME NEW n \in Nodes, n \in S, ~(Path(n) \subseteq S)
      PROVE  /\ parent[n] \in Nodes /\ ~(Path(parent[n]) \subseteq S)
             /\ Cardinality(Path(n)) = Cardinality(Path(parent[n])) + 1
             /\ Cardinality(Path(parent[n])) \in Nat \ {0}
  <2>1. parent[n] \in Nodes /\ ~(Path(parent[n]) \subseteq S)
    BY <1>2, PathUp
  <2>2. Cardinality(Path(n)) = Cardinality(Path(parent[n])) + 1
    BY <2>1, PathGrows
  <2>3. IsFiniteSet(Path(parent[n])) /\ parent[n] \in Path(parent[n])
    BY <2>1, PathIsClosed DEF PathsFit
  <2>4. Cardinality(Path(parent[n])) \in Nat /\ Cardinality(Path(parent[n])) # 0
    BY <2>3, FS_CardinalityType, FS_EmptySet
  <2> QED BY <2>1, <2>2, <2>4
<1>3. 0 \in Q
  <2>1. ASSUME NEW n \in f[0]
        PROVE  n \in S /\ (Path(n) \subseteq S \/ Cardinality(Path(n)) >= 0 + 2)
    <3>1. n \in S /\ n \in Nodes
      BY <1>1
    <3> QED BY <1>2, <3>1
  <2> QED BY <1>1, <2>1
<1>4. ASSUME NEW i \in 0..Passes, i \in Q, i < Passes PROVE i + 1 \in Q
  <2>1. i + 1 \in 0..Passes /\ f[i + 1] = Pass(f[i])
    BY <1>1, <1>4
  <2>2. Good(i)
    BY <1>4
  <2>3. ASSUME NEW n \in f[i + 1]
        PROVE  n \in S /\ (Path(n) \subseteq S \/ Cardinality(Path(n)) >= (i + 1) + 2)
    <3>1. n \in f[i] /\ (parent[n] \in Nodes => parent[n] \in f[i])
      BY <2>1, <2>3 DEF Pass
    <3>2. n \in S /\ n \in Nodes
      BY <2>2, <3>1
    <3>3. CASE ~(Path(n) \subseteq S)
      <4>1. /\ parent[n] \in f[i] /\ ~(Path(parent[n]) \subseteq S)
            /\ Cardinality(Path(n)) = Cardinality(Path(parent[n])) + 1
            /\ Cardinality(Path(parent[n])) \in Nat \ {0}
        BY <1>2, <3>1, <3>2, <3>3
      <4>2. Cardinality(Path(parent[n])) >= i + 2
        BY <2>2, <4>1
      <4> QED BY <3>2, <4>1, <4>2
    <3> QED BY <3>2, <3>3
  <2> QED BY <2>1, <2>3
<1>5. \A i \in 0..Passes : i \in Q
  <2> HIDE DEF Q
  <2> QED BY <1>1, <1>3, <1>4, CountUp
<1> QED BY <1>5

\* A directory all of whose path is in S is in every round.
LEMMA RoundsKeep ==
  ASSUME NEW S \in SUBSET Nodes
  PROVE  \A i \in 0..Passes : \A n \in Nodes : Path(n) \subseteq S => n \in Rounds(S)[i]
<1> DEFINE f == Rounds(S)
           Q == {i \in 0..Passes : \A n \in Nodes : Path(n) \subseteq S => n \in f[i]}
<1>1. Passes \in Nat /\ \A i \in 0..Passes : f[i] = IF i = 0 THEN S ELSE Pass(f[i - 1])
  <2>1. Passes \in Nat /\ IsRounds(f, Passes, S)
    BY RoundsExist DEF Passes
  <2> QED BY <2>1 DEF IsRounds
<1>2. 0 \in Q
  BY <1>1, PathIsClosed
<1>3. ASSUME NEW i \in 0..Passes, i \in Q, i < Passes PROVE i + 1 \in Q
  <2>1. i + 1 \in 0..Passes /\ f[i + 1] = Pass(f[i])
    BY <1>1, <1>3
  <2>2. ASSUME NEW n \in Nodes, Path(n) \subseteq S PROVE n \in Pass(f[i])
    <3>1. n \in f[i]
      BY <1>3, <2>2
    <3>2. ASSUME parent[n] \in Nodes PROVE parent[n] \in f[i]
      BY <1>3, <2>2, <3>2, PathUp
    <3> QED BY <3>1, <3>2 DEF Pass
  <2> QED BY <2>1, <2>2
<1>4. \A i \in 0..Passes : i \in Q
  <2> HIDE DEF Q
  <2> QED BY <1>1, <1>2, <1>3, CountUp
<1> QED BY <1>4

\* MAX_DIRECTORY_DEPTH passes are enough to hide what is below a hidden
\* directory: nothing is shown as a top-level directory that is not one.
THEOREM NothingIsPromoted == Spec => []NothingPromoted
<1>1. TreeInv /\ DepthInv => NothingPromoted
  <2> SUFFICES ASSUME TreeInv, DepthInv, raced = "nothing", NEW M
               PROVE  Pass(Shown(M)) = Shown(M)
    BY DEF NothingPromoted
  <2> DEFINE S == Visible(M)
             last == Rounds(S)[Passes]
  <2>1. TypeOK /\ Acyclic /\ PathsFit
    BY DEF TreeInv, DepthInv, CycleNeedsRacingMoves
  <2>2. S \in SUBSET Nodes /\ Passes = MAX_DIRECTORY_DEPTH /\ Passes \in 0..Passes
    BY DEF Visible, Passes
  <2> HIDE DEF S
  <2>3. ASSUME NEW n \in last PROVE n \in Nodes /\ Path(n) \subseteq S
    <3>1. n \in S /\ (Path(n) \subseteq S \/ Cardinality(Path(n)) >= Passes + 2)
      BY <2>1, <2>2, <2>3, RoundsAreLong
    <3>2. n \in Nodes /\ Cardinality(Path(n)) \in 0..MAX_DIRECTORY_DEPTH
      BY <2>1, <2>2, <3>1, LinesFit
    <3> QED BY <2>2, <3>1, <3>2
  <2>4. ASSUME NEW n \in last, parent[n] \in Nodes PROVE parent[n] \in last
    <3>1. Path(parent[n]) \subseteq S
      BY <2>3, <2>4, PathUp
    <3> QED BY <2>2, <2>4, <3>1, RoundsKeep
  <2>5. Pass(last) = last
    BY <2>4 DEF Pass
  <2> QED BY <2>5, ShownIsLastRound DEF S
<1> QED BY <1>1, DepthInvariant, TreeInvariant, PTL
=============================================================================
