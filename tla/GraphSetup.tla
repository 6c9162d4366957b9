----------------------------- MODULE GraphSetup -----------------------------
(***************************************************************************)
(* How s16.graphd builds its graph (usr/src/agent/graphd/graph.c): every   *)
(* service of the repository is installed with its instances, then each    *)
(* vertex is set up, which adds its dependency groups and, depth first,    *)
(* what they name.  An edge that would close a cycle is to be refused.     *)
(*                                                                         *)
(* Installing one service, and setting up one vertex of the list with all  *)
(* that this reaches, is one action.                                       *)
(***************************************************************************)
EXTENDS Naturals, Sequences, SequencesExt

CONSTANTS
  Svc,        \* the services, in the order of the repository
  insts,      \* service -> its instances
  Unknown,    \* a path that is not in the repository
  Manifests   \* the dependencies considered: instance -> its groups

Inst == UNION {ToSet(insts[s]) : s \in ToSet(Svc)}

\* A group of instance i is named by its number: make_depgroup_path.
Group(i, n) == <<i, n>>

ASSUME SetupAssumption ==
  \A m \in Manifests : \A i \in Inst : \A n \in DOMAIN m[i] :
    /\ m[i][n].type \in {"RequireAll", "RequireAny", "OptionalAll", "ExcludeAll"}
    /\ ToSet(m[i][n].paths) \subseteq Inst \cup ToSet(Svc) \cup {Unknown}

VARIABLES
  manifest,  \* the dependencies
  g,         \* the graph
  next,      \* what main does next: services to install, vertices to set up
  phase      \* "install", "setup", "done" or "aborted"

vars == <<manifest, g, next, phase>>

\* g.vertices is the list "graph", g.edges the dependency lists of its
\* vertices, g.is_setup the vertices that are set up, g.reported the instances
\* for which a cycle was reported, g.abort a failed assertion.
Edges(h, v) == IF v \in DOMAIN h.edges THEN h.edges[v] ELSE <<>>

Exclusive(v) == \E i \in Inst : \E n \in DOMAIN manifest[i] :
                  v = Group(i, n) /\ manifest[i][n].type = "ExcludeAll"

vtx_find_or_add(h, v) ==
  IF v \in ToSet(h.vertices) THEN h
  ELSE [h EXCEPT !.vertices = Append(@, v),
                 !.edges = [w \in DOMAIN @ \cup {v} |-> IF w = v THEN <<>> ELSE @[w]]]

vtx_edge_add(h, v, w) == [h EXCEPT !.edges[v] = Append(@, w)]

-----------------------------------------------------------------------------
(* The check for cycles. *)

\* vtx_is_reachable_internal.  "cont" is its result: a vertex that was seen, an
\* exclude-all group and the vertex that is sought all end the search.
RECURSIVE vtx_is_reachable_internal(_, _, _, _)
vtx_is_reachable_internal(h, v, to, seen) ==
  LET stop(found) == [cont |-> FALSE, found |-> found, seen |-> seen \cup {v}]
      step(acc, w) == IF acc.cont THEN vtx_is_reachable_internal(h, w, to, acc.seen) ELSE acc
  IN  CASE v \in seen              -> stop(FALSE)
        [] v \notin seen /\ Exclusive(v) -> stop(FALSE)
        [] v \notin seen /\ ~Exclusive(v) /\ v = to -> stop(TRUE)
        [] OTHER -> FoldLeft(step, [cont |-> TRUE, found |-> FALSE, seen |-> seen \cup {v}],
                             Edges(h, v))

vtx_is_reachable(h, v, to) == vtx_is_reachable_internal(h, v, to, {}).found

\* Mutant: no check.
add_unchecked(r, v, w) == [r EXCEPT !.h = vtx_edge_add(r.h, v, w), !.err = FALSE]

\* vtx_dependency_add.  r is a graph with pathTo, of which only matters whether
\* it is empty: a path that was found before is still in it.
vtx_dependency_add(r, v, w) ==
  IF r.path \/ vtx_is_reachable(r.h, w, v)
  THEN [r EXCEPT !.path = TRUE, !.err = TRUE]
  ELSE [r EXCEPT !.h = vtx_edge_add(r.h, v, w), !.err = FALSE]

-----------------------------------------------------------------------------
(* Setting up a vertex. *)

RECURSIVE vtx_setup(_, _)

\* setup_dep, for one path of a group; an assertion fails if it is not there.
setup_dep(r, vg, path) ==
  IF path \notin ToSet(r.h.vertices) THEN [r EXCEPT !.h.abort = TRUE]
  ELSE LET added == vtx_dependency_add(r, vg, path)
       IN  IF added.err THEN added ELSE [added EXCEPT !.h = vtx_setup(added.h, path)]

\* Mutant: only the first path of a group is set up.
depgroup_first_path(r, v, n) ==
  LET r1 == vtx_dependency_add([r EXCEPT !.h = vtx_find_or_add(r.h, Group(v, n))], v, Group(v, n))
  IN  setup_dep(r1, Group(v, n), Head(manifest[v][n].paths))

\* setup_depgroup.  The result of attaching the group is not looked at; the
\* paths are set up until one is refused.
setup_depgroup(r, v, n) ==
  LET dgv  == Group(v, n)
      r1   == vtx_dependency_add([r EXCEPT !.h = vtx_find_or_add(r.h, dgv)], v, dgv)
      step(acc, path) == IF acc.err \/ acc.h.abort THEN acc ELSE setup_dep(acc, dgv, path)
  IN  FoldLeft(step, [r1 EXCEPT !.err = FALSE], manifest[v][n].paths)

\* vtx_update: the groups of an instance, all with the same pathTo.
vtx_update(h, v) ==
  LET step(acc, n) ==
        LET r == setup_depgroup(acc, v, n)
        IN  IF acc.h.abort THEN acc
            ELSE IF r.err THEN [r EXCEPT !.h.reported = @ \cup {v}] ELSE r
  IN  IF v \in Inst
      THEN FoldLeft(step, [h |-> h, path |-> FALSE, err |-> FALSE],
                    [n \in DOMAIN manifest[v] |-> n]).h
      ELSE h

vtx_setup(h, v) ==
  IF v \in h.is_setup THEN h ELSE vtx_update([h EXCEPT !.is_setup = @ \cup {v}], v)

-----------------------------------------------------------------------------
\* graph_install_service: the service, its instances and the edges to them.
graph_install_service(h, s) ==
  LET step(acc, i) == vtx_edge_add(vtx_find_or_add(acc, i), s, i)
      h1 == vtx_find_or_add(h, s)
  IN  IF s \in h1.is_setup THEN h1
      ELSE [FoldLeft(step, h1, insts[s]) EXCEPT !.is_setup = @ \cup {s}]

Init ==
  /\ manifest \in Manifests
  /\ g = [vertices |-> <<>>, edges |-> <<>>, is_setup |-> {}, reported |-> {}, abort |-> FALSE]
  /\ next = Svc
  /\ phase = "install"

\* main: the services of the repository, one after the other.
Install ==
  /\ phase = "install" /\ next # <<>>
  /\ g' = graph_install_service(g, Head(next))
  /\ next' = Tail(next)
  /\ UNCHANGED <<manifest, phase>>

\* graph_setup_all goes through the vertices that are there when it begins; the
\* groups that are added meanwhile have nothing to set up.
BeginSetup ==
  /\ phase = "install" /\ next = <<>>
  /\ next' = g.vertices
  /\ phase' = "setup"
  /\ UNCHANGED <<manifest, g>>

Setup ==
  /\ phase = "setup" /\ next # <<>>
  /\ g' = vtx_setup(g, Head(next))
  /\ next' = Tail(next)
  /\ phase' = IF g'.abort THEN "aborted" ELSE IF next' = <<>> THEN "done" ELSE "setup"
  /\ UNCHANGED manifest

Next == Install \/ BeginSetup \/ Setup

Spec == Init /\ [][Next]_vars

-----------------------------------------------------------------------------
(* Properties. *)

Edge(v, w) == Contains(Edges(g, v), w)

(* What vtx_dependency_add says of a cyclic edge, that it "does not add the
   edges": the graph has no cycle, apart from those through an exclude-all
   group, past which the check does not look on purpose. *)
Acyclic ==
  ~\E S \in SUBSET {v \in ToSet(g.vertices) : ~Exclusive(v)} :
     S # {} /\ \A v \in S : \E w \in S : Edge(v, w)

\* The declared edges of group n of instance i.
Declared(i, n) == {<<i, Group(i, n)>>} \cup {<<Group(i, n), p>> : p \in ToSet(manifest[i][n].paths)}

(* An instance of which no cycle was reported has every dependency that its
   manifest declares, however the depth-first setting up interleaves it with
   the others. *)
Complete ==
  phase = "done" =>
    \A i \in Inst \ g.reported : \A n \in DOMAIN manifest[i] :
      \A e \in Declared(i, n) : Edge(e[1], e[2])

=============================================================================
