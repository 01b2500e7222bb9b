------------------------------ MODULE DirectoryTree ------------------------------
(***************************************************************************)
(* The tree of directories of the V2 server: creating, moving, disabling   *)
(* and removing directories, and what hangs on them, the resources they    *)
(* hold and the permissions granted on them                                *)
(* (V2/server/directories/directories.service.ts,                          *)
(* V2/server/authz/authorization.service.ts, 0001_init.sql).               *)
(*                                                                         *)
(* As in ResourceLifecycle, a handler awaits one statement after another   *)
(* and holds no lock in between.  What a recursive query of the code       *)
(* computes by walking the tree is defined here by closed sets: a          *)
(* directory is above n when every set that holds n and, with each         *)
(* directory, its parent, holds it.  On a cycle such a query does not come *)
(* back; a handler that issues it then stays where it is.                  *)
(*                                                                         *)
(* Names, types, icons, the order of siblings and the flags allow_children *)
(* and allow_custom_folders are left out.  Of the flags that loses         *)
(* nothing: all they do is to refuse a call.  All directories here are     *)
(* named alike, so a slug is the number of the attempt of slugWithSuffix   *)
(* that gave it.                                                           *)
(***************************************************************************)
EXTENDS Integers, FiniteSets

CONSTANTS
  Nodes,        \* directory ids
  Resources,    \* resource ids
  Grants,       \* rows of user_permissions that name a directory
  Requests,     \* slots for handlers in flight
  Top,          \* parent_id IS NULL
  Unborn, Gone, \* no row yet / no longer
  MaxMarks,     \* bound on what hangs on directories at a time (see Marks)
  Attempts,     \* attempts of allocateSlug (50 in the code)
  StopAfterRace, \* bound: TRUE takes up no call once moves have raced
  MAX_DIRECTORY_DEPTH

ASSUME DirectoryAssumption ==
  /\ Top \notin Nodes /\ Unborn \notin Nodes /\ Gone \notin Nodes
  /\ Top # Unborn /\ Top # Gone /\ Unborn # Gone
  /\ MaxMarks \in Nat /\ StopAfterRace \in BOOLEAN
  /\ Attempts \in Nat \ {0}
  /\ MAX_DIRECTORY_DEPTH \in Nat \ {0}

VARIABLES
  parent,    \* parent[n]: parent_id of n, or that n has no row
  slug,      \* slug[n]: the attempt that named n
  disabled,  \* the directories with enabled = FALSE
  home,      \* home[r]: directory_id of resource r
  scope,     \* scope[g]: directory_id of grant g
  pc,        \* pc[q]: the statement handler q issues next
  node,      \* node[q]: the directory q is about
  target,    \* target[q]: the parent q puts it under
  chosen,    \* chosen[q]: the slug q has chosen
  crossed,   \* history: what other handlers wrote since q checked the tree
  raced,     \* history: whether a handler wrote on such a check, and what that
             \* puts at risk
  late       \* late[q]: history: grants given since q counted them

tree == <<parent, slug>>
content == <<disabled, home, scope>>
handler == <<pc, node, target, chosen>>
vars == <<parent, slug, disabled, home, scope, pc, node, target, chosen,
          crossed, raced, late>>

-----------------------------------------------------------------------------
(* The tree, and the recursive queries. *)

Exists(n) == n \in Nodes /\ parent[n] \in Nodes \cup {Top}

\* S holds with a directory also its parent.
Closed(S) == \A n \in S : parent[n] \in Nodes => parent[n] \in S

\* isInSubtree: n is a or below a.
isInSubtree_Child(a, n) == n = a \/ parent[n] = a
isInSubtree(a, n) == \A S \in SUBSET (Nodes \ {a}) : n \in S => ~Closed(S)

\* The rows of ancestorsOf, with the directory itself.
Path(n) == {a \in Nodes : isInSubtree(a, n)}

\* The upward query from n comes to a directory without parent, and ends.
Ends(n) == \E a \in Path(n) : parent[a] \notin Nodes

isUsable(n) == \A a \in Path(n) : a \notin disabled

\* subtreeDepth: the levels below and including n.
subtreeDepth(n) ==
  LET below == {m \in Nodes : isInSubtree(n, m)}
      levels == {Cardinality(Path(m) \cap below) : m \in below}
  IN CHOOSE d \in levels : \A e \in levels : e <= d

\* The level of a directory put under p.
LevelUnder(p) == IF p = Top THEN 1 ELSE Cardinality(Path(p)) + 1

Siblings(p) == {n \in Nodes : parent[n] = p}

\* directories_sibling_slug_key.
SlugFree_Any(p, s) == TRUE
SlugFree(p, s) == \A n \in Siblings(p) : slug[n] # s

-----------------------------------------------------------------------------
(* Handlers. *)

\* q has checked the tree and not yet written on that.
Checked(q) == pc[q] \in {"slug", "insert", "depth", "clash", "move"}

Start(q, stmt, n, p) ==
  /\ pc[q] = "idle" /\ (raced = "cycle" => ~StopAfterRace)
  /\ pc' = [pc EXCEPT ![q] = stmt]
  /\ node' = [node EXCEPT ![q] = n]
  /\ target' = [target EXCEPT ![q] = p]
  /\ UNCHANGED <<tree, content, chosen, crossed, raced, late>>

\* The handler ends.
End(q) ==
  /\ pc' = [pc EXCEPT ![q] = "idle"]
  /\ node' = [node EXCEPT ![q] = Top]
  /\ target' = [target EXCEPT ![q] = Top]
  /\ chosen' = [chosen EXCEPT ![q] = 1]
  /\ late' = [late EXCEPT ![q] = {}]

\* The call is refused, or the handler fails.
Refused(q) ==
  /\ End(q)
  /\ crossed' = [crossed EXCEPT ![q] = "nothing"]
  /\ UNCHANGED <<tree, content, raced>>

\* A statement that reads and is followed by stmt, unless the call is refused.
Check(q, ok, stmt) ==
  IF ok THEN /\ pc' = [pc EXCEPT ![q] = stmt]
             /\ UNCHANGED <<tree, content, node, target, chosen, crossed, raced, late>>
        ELSE Refused(q)

\* What a write of q to the tree means for those who have checked it, and
\* what those before it meant for this one.
Crossing(q, what) ==
  /\ crossed' = [o \in Requests |->
       CASE o = q -> "nothing"
         [] o # q /\ Checked(o) /\ crossed[o] # "move" -> what
         [] OTHER -> crossed[o]]
  /\ raced' = IF target[q] = Top \/ crossed[q] = "nothing" \/ raced = "cycle" THEN raced
              ELSE IF what = "move" /\ crossed[q] = "move" THEN "cycle" ELSE "depth"

-----------------------------------------------------------------------------
(* Creating a directory (create, and createFolder, which calls it). *)

\* The parent exists and is usable; a directory at the top has no such checks.
BeginCreate(q, p) ==
  /\ p = Top \/ (Exists(p) /\ Ends(p) /\ isUsable(p))
  /\ \E n \in Nodes : parent[n] = Unborn
  /\ Start(q, IF p = Top THEN "slug" ELSE "level", Top, p)

CreateLevel(q) ==
  /\ pc[q] = "level" /\ Ends(target[q])
  /\ Check(q, LevelUnder(target[q]) <= MAX_DIRECTORY_DEPTH, "slug")

\* allocateSlug: the first attempt that no sibling has, if there is one.
slugAttempts_FromZero == 0..(Attempts - 1)
slugAttempts == 1..Attempts
AllocateSlug(q) ==
  LET free == {s \in slugAttempts : SlugFree(target[q], s)} IN
  /\ pc[q] = "slug"
  /\ \/ \E s \in free :
          /\ \A t \in free : s <= t
          /\ chosen' = [chosen EXCEPT ![q] = s]
          /\ pc' = [pc EXCEPT ![q] = "insert"]
          /\ UNCHANGED <<tree, content, node, target, crossed, raced, late>>
     \/ free = {} /\ Refused(q)

\* INSERT: a fresh uuid n; the parent must exist and the slug be free.
InsertNode(q, n) ==
  LET p == target[q] IN
  /\ pc[q] = "insert"
  /\ parent[n] = Unborn
  /\ IF (p = Top \/ Exists(p)) /\ SlugFree(p, chosen[q])
     THEN /\ parent' = [parent EXCEPT ![n] = p]
          /\ slug' = [slug EXCEPT ![n] = chosen[q]]
          /\ Crossing(q, "create")
          /\ End(q)
          /\ UNCHANGED content
     ELSE Refused(q)

-----------------------------------------------------------------------------
(* Moving a directory. *)

MoveChecks_Inverted(p) == IF p = Top THEN "subtree" ELSE "clash"
MoveChecks(p) == IF p = Top THEN "clash" ELSE "subtree"
BeginMove(q, n, p) ==
  /\ Exists(n) /\ p # n
  /\ p = Top \/ (Exists(p) /\ Ends(p) /\ isUsable(p))
  /\ Start(q, MoveChecks(p), n, p)

\* The query walks down from the directory; it ends unless that is on a cycle.
MoveSubtree(q) ==
  /\ pc[q] = "subtree"
  /\ parent[node[q]] \in Nodes => ~isInSubtree(node[q], parent[node[q]])
  /\ Check(q, ~isInSubtree(node[q], target[q]), "depth")

\* ancestors.length + subtreeDepth + 1 > MAX_DIRECTORY_DEPTH, where ancestors
\* does not count the target itself.
FitsBelow_Flat(n, p) == LevelUnder(p) <= MAX_DIRECTORY_DEPTH
FitsBelow(n, p) ==
  (Cardinality(Path(p)) - 1) + subtreeDepth(n) + 1 <= MAX_DIRECTORY_DEPTH
MoveDepth(q) ==
  /\ pc[q] = "depth" /\ Ends(target[q])
  /\ Check(q, FitsBelow(node[q], target[q]), "clash")

MoveClash(q) ==
  /\ pc[q] = "clash"
  /\ Check(q, SlugFree(target[q], slug[node[q]]), "move")

\* UPDATE directories SET parent_id WHERE id: a row that is gone is no error to
\* the database (the handler then fails on the missing result).
MoveNode(q) ==
  LET n == node[q]  p == target[q] IN
  /\ pc[q] = "move"
  /\ IF /\ Exists(n)
        /\ p = Top \/ Exists(p)
        /\ parent[n] = p \/ SlugFree(p, slug[n])
     THEN /\ parent' = [parent EXCEPT ![n] = p]
          /\ Crossing(q, "move")
          /\ End(q)
          /\ UNCHANGED <<slug, content>>
     ELSE Refused(q)

-----------------------------------------------------------------------------
(* Removing a directory: three counts, then the DELETE. *)

BeginRemove(q, n) ==
  /\ Exists(n) /\ Siblings(n) = {}
  /\ Start(q, "resources", n, Top)

CountResources(q) ==
  /\ pc[q] = "resources"
  /\ Check(q, \A r \in Resources : home[r] # node[q], "grants")

CountGrants_Skipped(q) == pc[q] = "grants" /\ Check(q, TRUE, "delete")
CountGrants(q) ==
  /\ pc[q] = "grants"
  /\ Check(q, \A g \in Grants : scope[g] # node[q], "delete")

\* The foreign keys restrict (children, resources) or cascade (grants).
Restricted_ByResources(n) == \E r \in Resources : home[r] = n
Restricted(n) == Siblings(n) # {} \/ \E r \in Resources : home[r] = n
DeleteNode(q) ==
  LET n == node[q] IN
  /\ pc[q] = "delete"
  /\ IF Exists(n) /\ ~Restricted(n)
     THEN /\ parent' = [parent EXCEPT ![n] = Gone]
          /\ disabled' = disabled \ {n}
          /\ scope' = [g \in Grants |-> IF scope[g] = n THEN Gone ELSE scope[g]]
          /\ End(q)
          /\ UNCHANGED <<slug, home, crossed, raced>>
     ELSE Refused(q)

-----------------------------------------------------------------------------
(* What single statements of other handlers do to directories. *)

\* The directories switched off, the resources in one and the grants on one.
Marks == Cardinality(disabled) + Cardinality({r \in Resources : home[r] # Gone})
         + Cardinality({g \in Grants : scope[g] # Gone})

\* update: UPDATE directories SET enabled.
SetEnabled(n) ==
  /\ Exists(n)
  /\ \/ n \in disabled /\ disabled' = disabled \ {n}
     \/ n \notin disabled /\ Marks < MaxMarks /\ disabled' = disabled \cup {n}
  /\ UNCHANGED <<tree, home, scope, handler, crossed, raced, late>>

\* resources: the INSERT (with the foreign key), update's directory_id, purge.
PlaceResource(r, n) ==
  /\ Exists(n) /\ (home[r] # Gone \/ Marks < MaxMarks)
  /\ home' = [home EXCEPT ![r] = n]
  /\ UNCHANGED <<tree, disabled, scope, handler, crossed, raced, late>>

PurgeResource(r) ==
  /\ home[r] # Gone
  /\ home' = [home EXCEPT ![r] = Gone]
  /\ UNCHANGED <<tree, disabled, scope, handler, crossed, raced, late>>

\* users.setPermissions: a grant is inserted, or deleted with the others.
InsertGrant(g, n) ==
  /\ Exists(n) /\ scope[g] = Gone /\ Marks < MaxMarks
  /\ scope' = [scope EXCEPT ![g] = n]
  /\ late' = [q \in Requests |-> IF pc[q] = "delete" THEN late[q] \cup {g} ELSE late[q]]
  /\ UNCHANGED <<tree, disabled, home, handler, crossed, raced>>

DeleteGrant(g) ==
  /\ scope[g] # Gone
  /\ scope' = [scope EXCEPT ![g] = Gone]
  /\ UNCHANGED <<tree, disabled, home, handler, crossed, raced, late>>

\* A statement fails.
Abort(q) ==
  /\ pc[q] # "idle"
  /\ Refused(q)

Init ==
  /\ parent = [n \in Nodes |-> Unborn]
  /\ slug = [n \in Nodes |-> 1]
  /\ disabled = {}
  /\ home = [r \in Resources |-> Gone]
  /\ scope = [g \in Grants |-> Gone]
  /\ pc = [q \in Requests |-> "idle"]
  /\ node = [q \in Requests |-> Top]
  /\ target = [q \in Requests |-> Top]
  /\ chosen = [q \in Requests |-> 1]
  /\ crossed = [q \in Requests |-> "nothing"]
  /\ raced = "nothing"
  /\ late = [q \in Requests |-> {}]

Arrive(q) ==
  \/ \E p \in Nodes \cup {Top} : BeginCreate(q, p)
  \/ \E n \in Nodes, p \in Nodes \cup {Top} : BeginMove(q, n, p)
  \/ \E n \in Nodes : BeginRemove(q, n)

Proceed(q) ==
  \/ CreateLevel(q) \/ AllocateSlug(q)
  \/ \E n \in Nodes : InsertNode(q, n)
  \/ MoveSubtree(q) \/ MoveDepth(q) \/ MoveClash(q) \/ MoveNode(q)
  \/ CountResources(q) \/ CountGrants(q) \/ DeleteNode(q)
  \/ Abort(q)

Surroundings ==
  \/ \E n \in Nodes :
       \/ SetEnabled(n)
       \/ \E r \in Resources : PlaceResource(r, n)
       \/ \E g \in Grants : InsertGrant(g, n)
  \/ \E r \in Resources : PurgeResource(r)
  \/ \E g \in Grants : DeleteGrant(g)

Next ==
  \/ \E q \in Requests : Arrive(q) \/ Proceed(q)
  \/ Surroundings

Spec == Init /\ [][Next]_vars

-----------------------------------------------------------------------------
(* What getTree shows to somebody who may see every directory and manages   *)
(* M and what is below.  A pass of the code goes through the rows in the    *)
(* order of the siblings; here it only notices what was hidden before it.   *)

Below(M) == {n \in Nodes : \E a \in M : isInSubtree(a, n)}
Pass(S) == {n \in S : parent[n] \in Nodes => parent[n] \in S}

Passes_None == 0
Passes == MAX_DIRECTORY_DEPTH

Shown(M) ==
  LET first == {n \in Nodes : Exists(n) /\ (isUsable(n) \/ n \in Below(M))}
      round[i \in 0..Passes] == IF i = 0 THEN first ELSE Pass(round[i - 1])
  IN round[Passes]

-----------------------------------------------------------------------------
(* Properties. *)

\* Every variable has its type.
TypeOK ==
  /\ parent \in [Nodes -> Nodes \cup {Top, Unborn, Gone}]
  /\ slug \in [Nodes -> Nat \ {0}]
  /\ disabled \subseteq Nodes
  /\ home \in [Resources -> Nodes \cup {Gone}]
  /\ scope \in [Grants -> Nodes \cup {Gone}]
  /\ pc \in [Requests -> {"idle", "level", "slug", "insert", "subtree", "depth",
                          "clash", "move", "resources", "grants", "delete"}]
  /\ node \in [Requests -> Nodes \cup {Top}]
  /\ target \in [Requests -> Nodes \cup {Top}]
  /\ chosen \in [Requests -> Nat \ {0}]
  /\ crossed \in [Requests -> {"nothing", "create", "move"}]
  /\ raced \in {"nothing", "depth", "cycle"}
  /\ late \in [Requests -> SUBSET Grants]

\* No directory is its own ancestor, in any set of directories: going up from
\* anywhere one comes out.
Acyclic == \A S \in SUBSET Nodes : S # {} => \E n \in S : parent[n] \notin S

\* move() keeps the tree a tree, whatever is created, removed, disabled or
\* granted between its checks and its write; only another move written in
\* between can close a cycle (the subtree check of move, RESTRICT on parents).
CycleNeedsRacingMoves == raced # "cycle" => Acyclic

\* Directories stay within MAX_DIRECTORY_DEPTH levels, unless a directory was
\* put into the path of another handler after it had counted the levels.
DepthBounded ==
  raced = "nothing" =>
    \A n \in Nodes : Exists(n) => Cardinality(Path(n)) <= MAX_DIRECTORY_DEPTH

\* Two siblings never have the same slug, so a path leads to one directory,
\* although create and move look for a free slug before they write.
SiblingSlugsDiffer ==
  \A m, n \in Nodes :
    Exists(m) /\ Exists(n) /\ m # n /\ parent[m] = parent[n] => slug[m] # slug[n]

\* What hangs on a directory never loses it: parents and the directories of
\* resources exist, however a removal overlaps what is put into it.
NothingDangles ==
  /\ \A n \in Nodes : parent[n] \in Nodes => Exists(n) /\ Exists(parent[n])
  /\ \A r \in Resources : home[r] # Gone => Exists(home[r])
  /\ \A g \in Grants : scope[g] # Gone => Exists(scope[g])

\* Removing a directory deletes no grant, except one that was given after the
\* handler had counted the grants (remove's third protection).
RemovalSparesGrants ==
  [][\A q \in Requests, g \in Grants :
       DeleteNode(q) /\ scope'[g] # scope[g] => g \in late[q]]_vars

\* A directory is never shown as a top-level one because its parent is hidden
\* from the viewer: the passes of getTree are enough for the depth of the tree.
NothingPromoted ==
  raced = "nothing" =>
    \A M \in SUBSET {n \in Nodes : Exists(n)} : Pass(Shown(M)) = Shown(M)
=============================================================================
