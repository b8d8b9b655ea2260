-------------------------- MODULE SynchronizedProduct -------------------------
(***************************************************************************)
(* A system of processes and the product they form.  A system is a record: *)
(*   locations  location id -> [pid, initial, committed, ...]              *)
(*   edges      sequence of [pid, src, tgt, event, ...]                    *)
(*   syncs      sequence of synchronisations, each a sequence of           *)
(*              constraints [pid, event, strong], one at most for each     *)
(*              process                                                    *)
(* A tuple of locations vloc maps each process to its location; an edge is *)
(* its index in the sequence of edges.                                     *)
(***************************************************************************)
EXTENDS Integers, Sequences, FiniteSetsExt, SequencesExt, TLC

Processes(s) == {s.locations[l].pid : l \in DOMAIN s.locations}
EdgeIds(s) == [i \in DOMAIN s.edges |-> i]

(* loc_edges_maps_t: the outgoing edges of a location on an event, in the  *)
(* order of their declarations.                                            *)
loc_edges(s, loc, event) ==
  SelectSeq(EdgeIds(s), LAMBDA e : s.edges[e].src = loc /\ s.edges[e].event = event)

(* A constraint of a synchronisation of several processes claims the edges *)
(* of its process on its event.                                            *)
is_asynchronous(s, e) ==
  \A k \in DOMAIN s.syncs : \A c \in ToSet(s.syncs[k]) :
    ~(c.pid = s.edges[e].pid /\ c.event = s.edges[e].event /\ Len(s.syncs[k]) > 1)

asynchronous_outgoing_edges(s, loc) ==
  SelectSeq(EdgeIds(s), LAMBDA e : s.edges[e].src = loc /\ is_asynchronous(s, e))

committed_processes(s, vloc) ==
  {s.locations[l].pid : l \in {vloc[p] : p \in DOMAIN vloc} \cap {m \in DOMAIN s.locations : s.locations[m].committed}}

(* No synchronisation is missing an edge of a strong constraint.           *)
enabled(s, vloc, sync) ==
  \A c \in ToSet(sync) : c.strong => loc_edges(s, vloc[c.pid], c.event) # <<>>

(* The ranges of edges that the cartesian product goes through.            *)
ranges(s, vloc, sync) ==
  SelectSeq([i \in DOMAIN sync |-> loc_edges(s, vloc[sync[i].pid], sync[i].event)],
            LAMBDA r : r # <<>>)

(* The tuples of edges out of a tuple of locations, in the order of the    *)
(* iteration over them (OutgoingEdges): for each synchronisation, the      *)
(* cartesian product of its ranges, then the asynchronous edges, if some   *)
(* edge leaves a committed location or there is none.                      *)
outgoing_edges(s, vloc) ==
  LET committed == committed_processes(s, vloc)
      order == SetToSortSeq(Processes(s), <)
      product(rs) == FoldLeft(LAMBDA tuples, r : FlattenSeq([i \in DOMAIN tuples |->
                                                    [j \in DOMAIN r |-> Append(tuples[i], r[j])]]),
                              <<<<>>>>, rs)
      synchronised == FlattenSeq([k \in DOMAIN s.syncs |->
                        IF enabled(s, vloc, s.syncs[k]) THEN product(ranges(s, vloc, s.syncs[k])) ELSE <<>>])
      asynchronous(p) == LET es == asynchronous_outgoing_edges(s, vloc[p])
                         IN [i \in DOMAIN es |-> <<es[i]>>]
  IN SelectSeq(synchronised \o FlattenSeq([i \in DOMAIN order |-> asynchronous(order[i])]),
               LAMBDA es : committed = {} \/ \E i \in DOMAIN es : s.edges[es[i]].pid \in committed)

(* Initial tuples of locations: the product of the initial locations.      *)
initial_edges(s) ==
  {v \in [Processes(s) -> DOMAIN s.locations] :
     \A p \in Processes(s) : s.locations[v[p]].pid = p /\ s.locations[v[p]].initial}

(* next: the edges are taken one after the other.                          *)
Moved(s, vloc, es) ==
  FoldLeft(LAMBDA v, e : [v EXCEPT ![s.edges[e].pid] = s.edges[e].tgt], vloc, es)

-------------------------------------------------------------------------------
(***************************************************************************)
(* The product of timed automata before clocks are given a meaning.  An    *)
(* invariant or a guard is a record of the valuations of the integer       *)
(* variables that satisfy it and of the clock constraints it outputs, a    *)
(* statement is a record of a function on these valuations and of the      *)
(* clock resets it outputs: what the virtual machine makes of them.        *)
(***************************************************************************)

(* The conditions of a sequence of terms, in order, on a valuation.        *)
Pass(conditions, intval) == \A i \in DOMAIN conditions : intval \in conditions[i].ints
ClockConstraints(conditions) == FlattenSeq([i \in DOMAIN conditions |-> conditions[i].clocks])

invariants(s, vloc) ==
  LET order == SetToSortSeq(Processes(s), <)
  IN [i \in DOMAIN order |-> s.locations[vloc[order[i]]].invariant]

guards(s, es) == [i \in DOMAIN es |-> s.edges[es[i]].guard]
statements(s, es) == [i \in DOMAIN es |-> s.edges[es[i]].statement]

delay_allowed(s, vloc) ==
  \A p \in DOMAIN vloc : ~s.locations[vloc[p]].committed /\ ~s.locations[vloc[p]].urgent

(* What a state holds, and the constraints and resets of a transition.     *)
state(vloc, intval) == [vloc |-> vloc, intval |-> intval]
transition(src_invariant, guard, reset, tgt_invariant) ==
  [src_invariant |-> src_invariant, guard |-> guard, reset |-> reset,
   tgt_invariant |-> tgt_invariant]

Failed(status) == [status |-> status]
Reaching(s, constraints) == [status |-> "OK", state |-> s, constraints |-> constraints]

ta_initial(s, vloc) ==
  IF Pass(invariants(s, vloc), s.intval)
  THEN Reaching(state(vloc, s.intval),
                transition(ClockConstraints(invariants(s, vloc)), <<>>, <<>>, <<>>))
  ELSE Failed("INTVARS_SRC_INVARIANT_VIOLATED")

(* The guards are checked before any statement runs; the statements run    *)
(* one after the other, each on what the ones before it leave.             *)
ta_next(s, vloc, intval, es) ==
  LET next == Moved(s, vloc, es)
      after == FoldLeft(LAMBDA v, a : a.sets[v], intval, statements(s, es))
  IN IF ~Pass(invariants(s, vloc), intval) THEN Failed("INTVARS_SRC_INVARIANT_VIOLATED")
     ELSE IF \E i \in DOMAIN es : s.edges[es[i]].src # vloc[s.edges[es[i]].pid]
     THEN Failed("INCOMPATIBLE_EDGE")
     ELSE IF ~Pass(guards(s, es), intval) THEN Failed("INTVARS_GUARD_VIOLATED")
     ELSE IF ~Pass(invariants(s, next), after) THEN Failed("INTVARS_TGT_INVARIANT_VIOLATED")
     ELSE Reaching(state(next, after),
                   transition(ClockConstraints(invariants(s, vloc)), ClockConstraints(guards(s, es)),
                              FlattenSeq([i \in DOMAIN es |-> statements(s, es)[i].resets]),
                              ClockConstraints(invariants(s, next))))
===============================================================================
