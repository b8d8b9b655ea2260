------------------------------ MODULE Synchronizer ----------------------------
(***************************************************************************)
(* The synchronized product of a system of processes, as a system of one   *)
(* process: a depth-first search over the tuples of locations, that adds a *)
(* location for each tuple and an edge for each tuple of edges.  The       *)
(* declarations of a system are a record:                                  *)
(*   ints, clocks  sequences of variables [name, size]                     *)
(*   locations     location id -> [name, pid, attributes]                  *)
(*   edges         sequence of [pid, src, tgt, event, attributes]          *)
(*   syncs, intval as in SynchronizedProduct                               *)
(* A name is a sequence of parts, the separator being one of them, and the *)
(* event of the product a sequence of process and event names.             *)
(***************************************************************************)
EXTENDS SynchronizedProduct

CONSTANTS
  Declarations,   \* the systems whose product is computed
  IntValues       \* valuations of their integer variables

VARIABLES
  system,         \* the declarations of the processes
  product,        \* those of the product
  waiting,        \* the stack of tuples of locations to expand
  status          \* "running", "built" or "throws"

vars == <<system, product, waiting, status>>

-------------------------------------------------------------------------------
(* attributes_t: the values of each key.  The container is an unordered    *)
(* one: that of the GNU library puts a value right after the first one of  *)
(* its key.                                                                *)
NoAttributes == <<>>
values(attr, key) == IF key \in DOMAIN attr THEN attr[key] ELSE <<>>

add_attribute(attr, key, value) ==
  LET vs == values(attr, key)
  IN (key :> IF vs = <<>> THEN <<value>> ELSE <<Head(vs), value>> \o Tail(vs)) @@ attr

(* Keys do not interfere with each other.                                  *)
add_attributes(attr, other) ==
  FoldLeft(LAMBDA a, key : FoldLeft(LAMBDA b, value : add_attribute(b, key, value), a, other[key]),
           attr, SetToSeq(DOMAIN other))

(* What the later stages read in attributes.                               *)
Flagged(attr, key) == values(attr, key) # <<>>

compute_labels(attr) == UNION ToSet(values(attr, "labels"))

conjunction_from_attrs(conditions) ==
  [ints |-> {b \in IntValues : Pass(conditions, b)}, clocks |-> ClockConstraints(conditions)]

sequence_from_attrs(stmts) ==
  [sets |-> [b \in IntValues |-> FoldLeft(LAMBDA v, a : a.sets[v], b, stmts)],
   resets |-> FlattenSeq([i \in DOMAIN stmts |-> stmts[i].resets])]

(* ta::system_t of declarations.                                           *)
compute_from_syncprod_system(d) ==
  [locations |-> [l \in DOMAIN d.locations |->
     LET attr == d.locations[l].attributes
     IN [pid |-> d.locations[l].pid, initial |-> Flagged(attr, "initial"),
         committed |-> Flagged(attr, "committed"), urgent |-> Flagged(attr, "urgent"),
         labels |-> compute_labels(attr),
         invariant |-> conjunction_from_attrs(values(attr, "invariant"))]],
   edges |-> [e \in DOMAIN d.edges |->
     [pid |-> d.edges[e].pid, src |-> d.edges[e].src, tgt |-> d.edges[e].tgt,
      event |-> d.edges[e].event,
      guard |-> conjunction_from_attrs(values(d.edges[e].attributes, "provided")),
      statement |-> sequence_from_attrs(values(d.edges[e].attributes, "do"))]],
   syncs |-> d.syncs, intval |-> d.intval]

-------------------------------------------------------------------------------
(* size_variables_t::declare: an array takes as many identifiers as it has *)
(* cells.                                                                  *)
Identifiers(vs) == [i \in DOMAIN vs |-> FoldLeft(LAMBDA n, v : n + v.size, 0, SubSeq(vs, 1, i - 1))]

(* integer_variables, clock_variables: the product declares the variables  *)
(* with identifiers 0, 1, ... below their number; info throws when there   *)
(* is none.                                                                *)
Known(vs) == \A n \in DOMAIN vs : n - 1 \in ToSet(Identifiers(vs))
Redeclared(vs) == [n \in DOMAIN vs |-> vs[CHOOSE i \in DOMAIN vs : Identifiers(vs)[i] = n - 1]]

ProductPid == 0

(* namify, of a tuple of locations and of a tuple of edges.                *)
Separator == "_"
Joined(parts) == FlattenSeq([i \in DOMAIN parts |-> IF i = 1 THEN parts[i] ELSE <<Separator>> \o parts[i]])

InOrder(vloc) == LET order == SetToSortSeq(DOMAIN vloc, <) IN [i \in DOMAIN order |-> vloc[order[i]]]

Named(vloc) == Joined([i \in DOMAIN InOrder(vloc) |-> system.locations[InOrder(vloc)[i]].name])

(* vedge: the edges of a tuple by increasing process, in whatever order    *)
(* the synchronisation lists them.                                         *)
ByProcess(es) == SetToSortSeq(ToSet(es), LAMBDA e, f : system.edges[e].pid < system.edges[f].pid)

EventNamed(es) ==
  LET vedge == ByProcess(es)
  IN Joined([i \in DOMAIN vedge |-> <<system.edges[vedge[i]].pid, Separator, system.edges[vedge[i]].event>>])

(* The attributes of the locations, "initial" only if it is counted once   *)
(* for each process.                                                       *)
LocationAttributes(vloc) ==
  LET of(l) == system.locations[l].attributes
      count == FoldLeft(LAMBDA n, l : n + Len(values(of(l), "initial")), 0, InOrder(vloc))
      others(l) == [key \in DOMAIN of(l) \ {"initial"} |-> of(l)[key]]
      attr == FoldLeft(LAMBDA a, l : add_attributes(a, others(l)), NoAttributes, InOrder(vloc))
  IN IF count = Len(InOrder(vloc)) THEN add_attribute(attr, "initial", "") ELSE attr

EdgeAttributes(es) ==
  FoldLeft(LAMBDA a, e : add_attributes(a, system.edges[e].attributes), NoAttributes, ByProcess(es))

LocationsNamed(p, name) == {l \in DOMAIN p.locations : p.locations[l].name = name}

(* A tuple is given a location and has to be expanded, unless its name is  *)
(* known.                                                                  *)
AddLocation(r, vloc) ==
  IF LocationsNamed(r.product, Named(vloc)) # {} THEN r
  ELSE [product |-> [r.product EXCEPT !.locations =
                       (Cardinality(DOMAIN @) :> [name |-> Named(vloc), pid |-> ProductPid,
                                                  attributes |-> LocationAttributes(vloc)]) @@ @],
        waiting |-> Append(r.waiting, vloc)]

AddEdge(r, src, es) ==
  LET target == Moved(system, src, es)
      added == AddLocation(r, target)
      id(vloc) == CHOOSE l \in LocationsNamed(added.product, Named(vloc)) : TRUE
      edge == [pid |-> ProductPid, src |-> id(src), tgt |-> id(target), event |-> EventNamed(es),
               attributes |-> EdgeAttributes(es)]
  IN [added EXCEPT !.product.edges = Append(@, edge)]

Becomes(r) == product' = r.product /\ waiting' = r.waiting

-------------------------------------------------------------------------------
EmptyProduct ==
  [ints |-> Redeclared(system.ints), clocks |-> Redeclared(system.clocks),
   locations |-> <<>>, edges |-> <<>>, syncs |-> <<>>, intval |-> system.intval]

Init ==
  /\ system \in Declarations
  /\ IF Known(system.ints) /\ Known(system.clocks)
     THEN LET initial == SetToSeq(initial_edges(compute_from_syncprod_system(system)))
              r == FoldLeft(AddLocation, [product |-> EmptyProduct, waiting |-> <<>>], initial)
          IN product = r.product /\ waiting = r.waiting /\ status = "running"
     ELSE product = <<>> /\ waiting = <<>> /\ status = "throws"

(* A turn of the loop of locations_edges_events.                           *)
Expand ==
  /\ status = "running" /\ waiting # <<>>
  /\ LET src == Last(waiting)
         edges == outgoing_edges(compute_from_syncprod_system(system), src)
     IN Becomes(FoldLeft(LAMBDA r, es : AddEdge(r, src, es),
                         [product |-> product, waiting |-> Front(waiting)], edges))
  /\ UNCHANGED <<system, status>>

Finish ==
  /\ status = "running" /\ waiting = <<>>
  /\ status' = "built" /\ UNCHANGED <<system, product, waiting>>

Next == Expand \/ Finish

Spec == Init /\ [][Next]_vars

-------------------------------------------------------------------------------
(* The product, as a system of its own, does what the system of processes  *)
(* does: its initial locations are those of the initial tuples, and in     *)
(* each of its locations, that are reached, the same edges lead to the     *)
(* same tuples, under the same constraints on integer variables and        *)
(* clocks, and time passes alike.  There is a product unless an array is   *)
(* declared before another variable (synchronizer_t).                      *)
(*   The processes run their statements in the order of the                *)
(* synchronisation, their product by increasing process: where the two     *)
(* orders differ, a divergence from the documentation, the product does    *)
(* what the processes do by increasing process.                            *)
ProductFollows ==
  LET s == compute_from_syncprod_system(system)
      p == compute_from_syncprod_system(product)
      tuples == {v \in [Processes(s) -> DOMAIN s.locations] :
                   \A q \in Processes(s) : s.locations[v[q]].pid = q}
      tuple(l) == CHOOSE v \in tuples : Named(v) = product.locations[l].name
      at(l) == ProductPid :> l
      alike(c, d) == /\ \A k \in {"src_invariant", "guard", "tgt_invariant"} : ToSet(c[k]) = ToSet(d[k])
                     /\ c.reset = d.reset
      in_order(es) ==
        LET stmts == SelectSeq(es, LAMBDA e : Flagged(system.edges[e].attributes, "do"))
        IN stmts = ByProcess(stmts)
      same(t, u) ==
        /\ t.status = u.status
        /\ t.status = "OK" => /\ Named(t.state.vloc) = product.locations[u.state.vloc[ProductPid]].name
                              /\ t.state.intval = u.state.intval /\ alike(t.constraints, u.constraints)
  IN /\ status = "throws" <=> \E vs \in {system.ints, system.clocks} :
                                \E i, j \in DOMAIN vs : i < j /\ vs[i].size > 1
     /\ status = "built" =>
          /\ product.ints = system.ints /\ product.clocks = system.clocks
          /\ {tuple(l) : l \in {m \in DOMAIN p.locations : p.locations[m].initial}} = initial_edges(s)
          /\ \A l \in DOMAIN p.locations :
               LET v == tuple(l)
                   edges == outgoing_edges(s, v)
                   merged == outgoing_edges(p, at(l))
               IN /\ p.locations[l].initial \/ \E e \in DOMAIN p.edges : p.edges[e].tgt = l /\ p.edges[e].src < l
                  /\ p.locations[l].labels = UNION {s.locations[v[q]].labels : q \in DOMAIN v}
                  /\ delay_allowed(s, v) = delay_allowed(p, at(l))
                  /\ DOMAIN edges = DOMAIN merged
                  /\ \A b \in IntValues, n \in DOMAIN edges :
                       LET es == IF in_order(edges[n]) THEN edges[n] ELSE ByProcess(edges[n])
                       IN same(ta_next(s, v, b, es), ta_next(p, at(l), b, merged[n]))
===============================================================================
