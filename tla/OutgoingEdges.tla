----------------------------- MODULE OutgoingEdges ----------------------------
(***************************************************************************)
(* The iteration over the edges of a tuple of locations: first, for each   *)
(* enabled synchronisation, the cartesian product of the edges of its      *)
(* constraints; then the asynchronous edges, location after location.      *)
(* When a location is committed, only the tuples with an edge of a         *)
(* committed process are kept.                                             *)
(***************************************************************************)
EXTENDS SynchronizedProduct

CONSTANT Systems      \* the systems under exploration

VARIABLES
  system,
  vloc,
  sync_it,         \* index of the current synchronisation
  cartesian_it,    \* a position in each of its ranges; past the first: at end
  async_it,        \* process and position of the current asynchronous edge
  yielded          \* the tuples of edges that the caller has been given

vars == <<system, vloc, sync_it, cartesian_it, async_it, yielded>>

-------------------------------------------------------------------------------
(* vloc_synchronized_edges_iterator_t.                                     *)
SyncAtEnd(k) == k > Len(system.syncs)

RangesOf(k) == ranges(system, vloc, system.syncs[k])

(* The first enabled synchronisation from k on, and its first tuple.       *)
advance_while_empty_cartesian_product(k) ==
  LET from == {j \in k .. Len(system.syncs) : enabled(system, vloc, system.syncs[j])}
  IN Min(from \cup {Len(system.syncs) + 1})

CartesianBegin(k) == IF SyncAtEnd(k) THEN <<>> ELSE [i \in DOMAIN RangesOf(k) |-> 1]

(* Mutant: the ranges after the one that moves are not reset.              *)
CartesianWithoutReset(its, k) ==
  LET r == RangesOf(k)
      movable == {i \in DOMAIN its : its[i] < Len(r[i])}
      moved == Max(movable \cup {1})
  IN [i \in DOMAIN its |-> IF i = moved THEN its[i] + 1 ELSE its[i]]

(* cartesian_iterator_t::operator++: the last range that can move, the     *)
(* ranges after it start again; the first one goes to its end.             *)
CartesianIncremented(its, k) ==
  LET r == RangesOf(k)
      movable == {i \in DOMAIN its : its[i] < Len(r[i])}
      moved == Max(movable \cup {1})
  IN [i \in DOMAIN its |-> IF i < moved THEN its[i] ELSE IF i = moved THEN its[i] + 1 ELSE 1]

CartesianAtEnd(its, k) == its = <<>> \/ its[1] > Len(RangesOf(k)[1])

CartesianValue == [i \in DOMAIN cartesian_it |-> RangesOf(sync_it)[i][cartesian_it[i]]]

-------------------------------------------------------------------------------
(* vloc_asynchronous_edges_iterator_t, a join_iterator_t over the          *)
(* locations of the tuple.                                                 *)
AsyncEdges(p) == asynchronous_outgoing_edges(system, vloc[p])
ProcessOrder == SetToSortSeq(Processes(system), <)

advance_while_empty_range(n) ==
  LET from == {m \in n .. Len(ProcessOrder) : AsyncEdges(ProcessOrder[m]) # <<>>}
  IN [process |-> Min(from \cup {Len(ProcessOrder) + 1}), at |-> 1]

AsyncAtEnd(it) == it.process > Len(ProcessOrder)

AsyncIncremented(it) ==
  IF it.at < Len(AsyncEdges(ProcessOrder[it.process])) THEN [it EXCEPT !.at = @ + 1]
  ELSE advance_while_empty_range(it.process + 1)

-------------------------------------------------------------------------------
(* vloc_edges_iterator_t and outgoing_edges_iterator_t.                    *)
at_end == SyncAtEnd(sync_it) /\ AsyncAtEnd(async_it)

Value ==
  IF ~SyncAtEnd(sync_it) THEN CartesianValue
  ELSE <<AsyncEdges(ProcessOrder[async_it.process])[async_it.at]>>

involves_committed_process(es) ==
  LET committed == committed_processes(system, vloc)
  IN committed = {} \/ \E i \in DOMAIN es : system.edges[es[i]].pid \in committed

Init ==
  /\ system \in Systems
  /\ vloc \in {v \in [Processes(system) -> DOMAIN system.locations] :
                 \A p \in Processes(system) : system.locations[v[p]].pid = p}
  /\ sync_it = advance_while_empty_cartesian_product(1)
  /\ cartesian_it = CartesianBegin(sync_it)
  /\ async_it = advance_while_empty_range(1)
  /\ yielded = <<>>

(* The tuple is given to the caller unless the loop that looks for a       *)
(* committed process passes it.                                            *)
Give == yielded' = IF involves_committed_process(Value) THEN Append(yielded, Value) ELSE yielded

NextTuple ==
  /\ ~SyncAtEnd(sync_it)
  /\ Give
  /\ LET its == CartesianIncremented(cartesian_it, sync_it)
         k == advance_while_empty_cartesian_product(sync_it + 1)
     IN IF CartesianAtEnd(its, sync_it)
        THEN sync_it' = k /\ cartesian_it' = CartesianBegin(k)
        ELSE cartesian_it' = its /\ UNCHANGED sync_it
  /\ UNCHANGED <<system, vloc, async_it>>

NextAsynchronous ==
  /\ SyncAtEnd(sync_it) /\ ~AsyncAtEnd(async_it)
  /\ Give
  /\ async_it' = AsyncIncremented(async_it)
  /\ UNCHANGED <<system, vloc, sync_it, cartesian_it>>

Next == NextTuple \/ NextAsynchronous

Spec == Init /\ [][Next]_vars

-------------------------------------------------------------------------------
(* What the documentation promises: the global edges of a synchronisation. *)
(* A strong constraint takes part with one edge; a weak one takes part if  *)
(* it can; some constraint takes part; nobody else moves.                  *)
Leaving(p, event) == {e \in DOMAIN system.edges :
                        system.edges[e].src = vloc[p] /\ system.edges[e].event = event}

TakesPart(c) == c.strong \/ Leaving(c.pid, c.event) # {}

GlobalEdges(sync) ==
  LET part == SelectSeq(sync, TakesPart)
  IN {es \in [DOMAIN part -> DOMAIN system.edges] :
        \A i \in DOMAIN part : es[i] \in Leaving(part[i].pid, part[i].event)} \ {<<>>}

(* An edge on an event that its process does not synchronise is global.    *)
LocalEdges ==
  {<<e>> : e \in {f \in DOMAIN system.edges :
     /\ system.edges[f].src = vloc[system.edges[f].pid]
     /\ \A k \in DOMAIN system.syncs : \A i \in DOMAIN system.syncs[k] :
          Len(system.syncs[k]) > 1 =>
            system.syncs[k][i].pid # system.edges[f].pid
              \/ system.syncs[k][i].event # system.edges[f].event}}

Admissible(es) ==
  LET committed == {p \in Processes(system) : system.locations[vloc[p]].committed}
  IN committed # {} => \E i \in DOMAIN es : system.edges[es[i]].pid \in committed

(* The caller sees every global edge as often as synchronisations and      *)
(* local edges give rise to it, only the admissible ones, and never a      *)
(* tuple of edges of which one does not leave the tuple of locations; the  *)
(* order is the one that the other modules rely on.                        *)
EdgesExact ==
  at_end =>
    LET sources(es) ==
          Cardinality({k \in DOMAIN system.syncs : es \in GlobalEdges(system.syncs[k])})
            + (IF es \in LocalEdges THEN 1 ELSE 0)
        all == LocalEdges \cup UNION {GlobalEdges(system.syncs[k]) : k \in DOMAIN system.syncs}
        times(es) == Cardinality({i \in DOMAIN yielded : yielded[i] = es})
    IN /\ yielded = outgoing_edges(system, vloc)
       /\ \A es \in all : times(es) = IF Admissible(es) THEN sources(es) ELSE 0
       /\ ToSet(yielded) \subseteq all
===============================================================================
