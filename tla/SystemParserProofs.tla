-------------------------- MODULE SystemParserProofs ---------------------------
(***************************************************************************)
(* Proofs about SystemParser, for every set of files: the two lists of     *)
(* prophecy clocks that the parser keeps to decide whether successors can  *)
(* be computed finitely speak of the whole file.                           *)
(***************************************************************************)
EXTENDS SystemParser, TLAPS

Programs == {file[n].program : n \in {m \in 1 .. line : file[m].kind = "program"}}

(* Clocks are good if no program read so far releases them unchecked, and  *)
(* the clocks to verify are all that such a program compares.              *)
ListsKnown ==
  /\ finiteness.good \subseteq known.prophecy
  /\ finiteness.verify \subseteq finiteness.good
  /\ \A p \in Programs : /\ compared_prophecies(known, p) \subseteq finiteness.verify
                        /\ finiteness.good \cap released_unchecked(known, p) = {}

FinitenessInv ==
  /\ file \in Files /\ line \in 0 .. Len(file)
  /\ known = [prophecy |-> known.prophecy, history |-> known.history, timers |-> known.timers,
               event_history |-> known.event_history, event_prophecy |-> known.event_prophecy,
               ints |-> known.ints]
  /\ finiteness = [good |-> finiteness.good, verify |-> finiteness.verify,
                    continue |-> finiteness.continue]
  /\ finiteness.continue \in BOOLEAN /\ log_error \in BOOLEAN /\ exited \in BOOLEAN
  /\ ~finiteness.continue /\ ~exited /\ ~log_error => ListsKnown

(* New prophecy clocks that a program does not use change nothing for it.  *)
LEMMA NewNames ==
  ASSUME NEW k, NEW l, NEW new, NEW p, NEW good, good \subseteq k.prophecy,
         l.prophecy = k.prophecy \cup new, NamesUsed(p) \cap new = {}
  PROVE  /\ compared_prophecies(l, p) \subseteq compared_prophecies(k, p)
         /\ good \cap released_unchecked(k, p) = {} =>
              (good \cup new) \cap released_unchecked(l, p) = {}
<1>1. \A n \in DOMAIN p : /\ \A g \in ToSet(p[n].guards) : g.x \in NamesUsed(p) /\ g.y \in NamesUsed(p)
                          /\ \A op \in ToSet(p[n].ops) : op.clock \in NamesUsed(p)
  BY DEF NamesUsed
<1>2. \A g : Checks(k, g) => Checks(l, g)
  BY DEF Checks
<1>3. compared_prophecies(l, p) \subseteq compared_prophecies(k, p)
  <2>1. \A n \in DOMAIN p : \A h \in ToSet(p[n].guards) :
          {h.x, h.y} \subseteq l.prophecy => {h.x, h.y} \subseteq k.prophecy
    BY <1>1
  <2>2. ASSUME NEW n \in DOMAIN p
        PROVE  UNION {{g.x, g.y} : g \in {h \in ToSet(p[n].guards) : {h.x, h.y} \subseteq l.prophecy}}
                 \subseteq UNION {{g.x, g.y} : g \in {h \in ToSet(p[n].guards) : {h.x, h.y} \subseteq k.prophecy}}
    BY <2>1
  <2> QED BY <2>2 DEF compared_prophecies
<1>4. ASSUME good \cap released_unchecked(k, p) = {}, NEW x \in good \cup new,
             x \in released_unchecked(l, p)
      PROVE  FALSE
  <2>1. PICK n \in DOMAIN p :
          /\ \E op \in ToSet(p[n].ops) : op.clock = x
          /\ \A i \in 1 .. n : \A g \in ToSet(p[i].guards) : g.x = x => ~Checks(l, g)
    BY <1>4 DEF released_unchecked
  <2>2. x \in NamesUsed(p)
    BY <1>1, <2>1
  <2>3. x \in good /\ x \in k.prophecy
    BY <2>2
  <2>4. x \in released_unchecked(k, p)
    BY <1>2, <2>1, <2>3 DEF released_unchecked
  <2> QED BY <1>4, <2>3, <2>4
<1> QED BY <1>3, <1>4

(* The lines of a file, and the one that is read.                          *)
LEMMA LineRead ==
  ASSUME FinitenessInv, NEW kind, NEW d, Read(kind, d)
  PROVE  /\ Len(file) \in Nat /\ DOMAIN file = 1 .. Len(file)
         /\ line \in Nat /\ line + 1 \in DOMAIN file /\ d = file[line + 1] /\ d.kind = kind
         /\ file' = file /\ line' = line + 1 /\ line' \in 0 .. Len(file')
         /\ kind # "program" => Programs' = Programs
         /\ kind = "program" => Programs' = Programs \cup {d.program}
<1>1. Len(file) \in Nat /\ DOMAIN file = 1 .. Len(file)
  BY FilesAssumption DEF FinitenessInv
<1>2. /\ line \in Nat /\ line + 1 \in DOMAIN file /\ d = file[line + 1] /\ d.kind = kind
      /\ file' = file /\ line' = line + 1 /\ line' \in 0 .. Len(file')
  BY <1>1 DEF Read, FinitenessInv
<1>3. \A m : m \in 1 .. line' <=> m \in 1 .. line \/ m = line + 1
  BY <1>2
<1>4. kind # "program" => Programs' = Programs
  BY <1>2, <1>3 DEF Programs
<1>5. kind = "program" => Programs' = Programs \cup {d.program}
  BY <1>2, <1>3 DEF Programs
<1> QED BY <1>1, <1>2, <1>4, <1>5

(* A line that is no program, brings no prophecy clock, and whose error is *)
(* logged.                                                                 *)
LEMMA OtherLine ==
  ASSUME FinitenessInv, NEW kind, NEW d, Read(kind, d), kind # "program",
         known'.prophecy = known.prophecy,
         known' = [prophecy |-> known'.prophecy, history |-> known'.history,
                   timers |-> known'.timers, event_history |-> known'.event_history,
                   event_prophecy |-> known'.event_prophecy, ints |-> known'.ints],
         log_error' \in BOOLEAN, log_error => log_error', UNCHANGED <<finiteness, exited>>
  PROVE  FinitenessInv'
<1>1. Programs' = Programs /\ file' = file /\ line' \in 0 .. Len(file')
  BY LineRead
<1>2. \A p : /\ compared_prophecies(known', p) = compared_prophecies(known, p)
             /\ released_unchecked(known', p) = released_unchecked(known, p)
  BY DEF compared_prophecies, released_unchecked, Checks
<1>3. ListsKnown => ListsKnown'
  BY <1>1, <1>2 DEF ListsKnown
<1> QED BY <1>1, <1>3 DEF FinitenessInv

(* A line that brings prophecy clocks, which no program so far has used.   *)
LEMMA ClockLine ==
  ASSUME FinitenessInv, DeclaredBeforeUse, NEW kind, NEW d, Read(kind, d), kind # "program",
         NEW new, new \subseteq NamesBrought(d), known'.prophecy = known.prophecy \cup new,
         known' = [prophecy |-> known'.prophecy, history |-> known'.history,
                   timers |-> known'.timers, event_history |-> known'.event_history,
                   event_prophecy |-> known'.event_prophecy, ints |-> known'.ints],
         NEW fresh, fresh \subseteq new,
         finiteness' = [finiteness EXCEPT !.good = @ \cup fresh],
         log_error' \in BOOLEAN, log_error => log_error', UNCHANGED exited
  PROVE  FinitenessInv'
<1>1. Programs' = Programs /\ file' = file /\ line' \in 0 .. Len(file')
  BY LineRead
<1>2. \A p \in Programs : NamesUsed(p) \cap new = {}
  <2>1. \A m \in 1 .. line : m \in DOMAIN file /\ line + 1 \in DOMAIN file /\ m < line + 1
                             /\ d = file[line + 1]
    BY LineRead
  <2>2. \A m \in 1 .. line : file[m].kind = "program" => NamesUsed(file[m].program) \cap NamesBrought(d) = {}
    BY <2>1 DEF DeclaredBeforeUse, FinitenessInv
  <2> QED BY <2>2 DEF Programs
<1>3. finiteness' = [good |-> finiteness.good \cup fresh, verify |-> finiteness.verify,
                     continue |-> finiteness.continue]
  BY DEF FinitenessInv
<1>4. ASSUME ListsKnown
      PROVE  ListsKnown'
  <2>1. finiteness'.good \subseteq known'.prophecy /\ finiteness'.verify \subseteq finiteness'.good
    BY <1>3, <1>4 DEF ListsKnown
  <2>2. ASSUME NEW p \in Programs
        PROVE  /\ compared_prophecies(known', p) \subseteq finiteness'.verify
               /\ finiteness'.good \cap released_unchecked(known', p) = {}
    <3>1. /\ finiteness.good \subseteq known.prophecy
          /\ compared_prophecies(known, p) \subseteq finiteness.verify
          /\ finiteness.good \cap released_unchecked(known, p) = {}
          /\ NamesUsed(p) \cap new = {}
      BY <1>2, <1>4 DEF ListsKnown
    <3>2. /\ compared_prophecies(known', p) \subseteq compared_prophecies(known, p)
          /\ (finiteness.good \cup new) \cap released_unchecked(known', p) = {}
      BY <3>1, NewNames
    <3> QED BY <1>3, <3>1, <3>2
  <2> QED BY <1>1, <2>1, <2>2 DEF ListsKnown
<1> QED BY <1>1, <1>3, <1>4 DEF FinitenessInv

(* A program: the clocks that it releases unchecked are no longer good,    *)
(* those that it compares are to be verified, and the parser asks unless   *)
(* the latter are still among the former.                                  *)
LEMMA ProgramLine ==
  ASSUME FinitenessInv, NEW d, NEW answer \in BOOLEAN, ProgramEdge(d, answer)
  PROVE  FinitenessInv'
<1>1. /\ file' = file /\ line' \in 0 .. Len(file') /\ known' = known
      /\ Programs' = Programs \cup {d.program}
  BY LineRead DEF ProgramEdge
<1>2. /\ finiteness' = [good |-> finiteness'.good, verify |-> finiteness'.verify,
                        continue |-> finiteness'.continue]
      /\ finiteness'.continue \in BOOLEAN /\ exited' \in BOOLEAN /\ log_error' \in BOOLEAN
  BY DEF ProgramEdge, FinitenessInv
<1>3. ASSUME ~finiteness'.continue, ~exited', ~log_error'
      PROVE  ListsKnown'
  <2>1. ~finiteness.continue /\ ~log_error /\ ~asks(d) /\ ProgramOf(d) = d.program
    BY <1>3 DEF ProgramEdge, FinitenessInv
  <2>2. finiteness'.good = Good(d) /\ finiteness'.verify = Verify(d) /\ Verify(d) \subseteq Good(d)
    BY <2>1 DEF ProgramEdge, asks
  <2>3. ~exited
    BY DEF ProgramEdge, Read
  <2>4. ListsKnown
    BY <2>1, <2>3 DEF FinitenessInv
  <2>5. /\ Good(d) = finiteness.good \ released_unchecked(known, d.program)
        /\ Verify(d) = finiteness.verify \cup compared_prophecies(known, d.program)
    BY <2>1 DEF Good, Verify
  <2> QED BY <1>1, <2>2, <2>4, <2>5 DEF ListsKnown
<1> QED BY <1>1, <1>2, <1>3 DEF FinitenessInv

(* When the parser has not asked, no program of the file releases a        *)
(* prophecy clock unchecked that a program of it compares, provided that   *)
(* clocks are declared before they are used: the parser looks at each      *)
(* program once, with the clocks that it knows then.                       *)
THEOREM FinitenessCorrect ==
  ASSUME DeclaredBeforeUse
  PROVE  Spec => []FinitenessKnown
<1>1. Init => FinitenessInv
  <2> SUFFICES ASSUME Init
               PROVE  FinitenessInv
    OBVIOUS
  <2>1. file \in Files /\ line = 0 /\ Len(file) \in Nat
    BY FilesAssumption DEF Init, ParserInit
  <2>2. Programs = {}
    BY <2>1 DEF Programs
  <2>3. ListsKnown
    BY <2>2 DEF ListsKnown, Init, ParserInit, NoNames
  <2>4. known = NoNames /\ known = [prophecy |-> known.prophecy, history |-> known.history,
          timers |-> known.timers, event_history |-> known.event_history,
          event_prophecy |-> known.event_prophecy, ints |-> known.ints]
    BY DEF Init, ParserInit, NoNames
  <2>5. /\ finiteness = [good |-> finiteness.good, verify |-> finiteness.verify,
                         continue |-> finiteness.continue]
        /\ finiteness.continue \in BOOLEAN
    BY DEF Init, ParserInit
  <2>6. line \in 0 .. Len(file)
    BY <2>1
  <2>7. log_error \in BOOLEAN /\ exited \in BOOLEAN
    BY Zenon DEF Init, ParserInit
  <2> QED BY <2>1, <2>3, <2>4, <2>5, <2>6, <2>7 DEF FinitenessInv
<1>2. FinitenessInv /\ [Next]_vars => FinitenessInv'
  <2> SUFFICES ASSUME FinitenessInv, [Next]_vars
               PROVE  FinitenessInv'
    OBVIOUS
  <2> USE DEF Declare, DeclareIf, Fail
  <2>1. ASSUME NEW d, PlainClock(d)
        PROVE  FinitenessInv'
    <3>1. /\ Read("clock", d) /\ known' = known /\ UNCHANGED <<finiteness, exited>>
          /\ log_error' \in BOOLEAN /\ (log_error => log_error')
      BY <2>1 DEF PlainClock, FinitenessInv
    <3> QED BY <3>1, OtherLine DEF FinitenessInv
  <2>2. ASSUME NEW d, KindClock(d)
        PROVE  FinitenessInv'
    <3> DEFINE own == IF d.type \in {"prophecy", "timer"} THEN {d.name} ELSE {}
               fresh == (IF TmpDeclared THEN {} ELSE {"tmp"}) \cup own
    <3>1. /\ Read("kind_clock", d) /\ UNCHANGED exited
          /\ log_error' \in BOOLEAN /\ (log_error => log_error')
      BY <2>2 DEF KindClock, FinitenessInv
    <3>2. /\ known'.prophecy = known.prophecy \cup ({"tmp"} \cup own)
          /\ known' = [prophecy |-> known'.prophecy, history |-> known'.history,
                       timers |-> known'.timers, event_history |-> known'.event_history,
                       event_prophecy |-> known'.event_prophecy, ints |-> known'.ints]
      BY <2>2 DEF KindClock, FinitenessInv
    <3>3. finiteness' = [finiteness EXCEPT !.good = @ \cup fresh]
      BY <2>2 DEF KindClock, FinitenessInv
    <3>4. {"tmp"} \cup own \subseteq NamesBrought(d) /\ fresh \subseteq {"tmp"} \cup own
      BY <3>1 DEF Read, NamesBrought
    <3> HIDE DEF own, fresh
    <3> QED BY <3>1, <3>2, <3>3, <3>4, ClockLine
  <2>3. ASSUME NEW d, IntVariable(d)
        PROVE  FinitenessInv'
    <3>1. /\ Read("int", d) /\ UNCHANGED <<finiteness, exited>>
          /\ log_error' \in BOOLEAN /\ (log_error => log_error')
      BY <2>3 DEF IntVariable, FinitenessInv
    <3>2. /\ known'.prophecy = known.prophecy
          /\ known' = [prophecy |-> known'.prophecy, history |-> known'.history,
                       timers |-> known'.timers, event_history |-> known'.event_history,
                       event_prophecy |-> known'.event_prophecy, ints |-> known'.ints]
      BY <2>3 DEF IntVariable, FinitenessInv
    <3> QED BY <3>1, <3>2, OtherLine
  <2>4. ASSUME NEW d, Process(d) \/ Location(d) \/ Event(d)
        PROVE  FinitenessInv'
    <3>1. PICK kind \in {"process", "location", "event"} :
            /\ Read(kind, d) /\ known' = known /\ UNCHANGED <<finiteness, exited>>
            /\ log_error' \in BOOLEAN /\ (log_error => log_error')
      BY <2>4 DEF Process, Location, Event, FinitenessInv
    <3> QED BY <3>1, OtherLine DEF FinitenessInv
  <2>5. ASSUME NEW d, EventWithClocks(d)
        PROVE  FinitenessInv'
    <3> DEFINE p == IF d.prophecy /\ ~Declared("event", d.name) THEN {prophecy_clock(d.name)} ELSE {}
               fresh == (IF TmpDeclared THEN {} ELSE {"tmp"}) \cup p
    <3>1. /\ Read("event_clocks", d) /\ UNCHANGED exited
          /\ log_error' \in BOOLEAN /\ (log_error => log_error')
      BY <2>5 DEF EventWithClocks, FinitenessInv
    <3>2. /\ known'.prophecy = known.prophecy \cup ({"tmp"} \cup p)
          /\ known' = [prophecy |-> known'.prophecy, history |-> known'.history,
                       timers |-> known'.timers, event_history |-> known'.event_history,
                       event_prophecy |-> known'.event_prophecy, ints |-> known'.ints]
      BY <2>5 DEF EventWithClocks, FinitenessInv
    <3>3. finiteness' = [finiteness EXCEPT !.good = @ \cup fresh]
      BY <2>5 DEF EventWithClocks, FinitenessInv
    <3>4. {"tmp"} \cup p \subseteq NamesBrought(d) /\ fresh \subseteq {"tmp"} \cup p
      BY <3>1 DEF Read, NamesBrought
    <3> HIDE DEF p, fresh
    <3> QED BY <3>1, <3>2, <3>3, <3>4, ClockLine
  <2>6. ASSUME NEW d, Edge(d)
        PROVE  FinitenessInv'
    <3>1. /\ Read("edge", d) /\ known' = known /\ UNCHANGED <<finiteness, exited>>
          /\ log_error' \in BOOLEAN /\ (log_error => log_error')
      BY <2>6 DEF Edge, FinitenessInv
    <3> QED BY <3>1, OtherLine DEF FinitenessInv
  <2>7. ASSUME NEW d, Sync(d)
        PROVE  FinitenessInv'
    <3>1. /\ Read("sync", d) /\ known' = known /\ UNCHANGED <<finiteness, exited>>
          /\ log_error' \in BOOLEAN /\ (log_error => log_error')
      BY <2>7 DEF Sync, FinitenessInv
    <3> QED BY <3>1, OtherLine DEF FinitenessInv
  <2>8. ASSUME NEW d, NEW answer \in BOOLEAN, ProgramEdge(d, answer)
        PROVE  FinitenessInv'
    BY <2>8, ProgramLine
  <2>9. CASE UNCHANGED parser_vars
    <3>1. Programs' = Programs
      BY <2>9 DEF parser_vars, Programs
    <3>2. ListsKnown' <=> ListsKnown
      BY <2>9, <3>1 DEF parser_vars, ListsKnown
    <3> QED BY <2>9, <3>2 DEF parser_vars, FinitenessInv
  <2> QED BY <2>1, <2>2, <2>3, <2>4, <2>5, <2>6, <2>7, <2>8, <2>9
          DEF Next, Parse, ParserNext, Build, vars, parser_vars
<1>3. FinitenessInv => FinitenessKnown
  <2> DEFINE guards(p, n) == UNION {ToSet(p[i].guards) : i \in 1 .. n}
             compared == {x \in known.prophecy : \E p \in Programs : \E g \in guards(p, Len(p)) :
                            g.x # g.y /\ x \in {g.x, g.y} /\ {g.x, g.y} \subseteq known.prophecy}
  <2>1. ASSUME FinitenessInv, ~finiteness.continue, ~exited, ~log_error,
               NEW x \in compared, NEW p \in Programs, NEW n \in DOMAIN p,
               \E i \in DOMAIN p[n].ops : p[n].ops[i].clock = x
        PROVE  \E g \in guards(p, n) : g.x = x /\ g.y = ""
                 /\ <<g.cmp, g.c>> \in {<<">=", 0>>, <<"==", 0>>, <<"<=", -Infinity>>, <<"==", -Infinity>>}
    <3>1. ListsKnown
      BY <2>1 DEF FinitenessInv
    <3>2. PICK q \in Programs : \E j \in 1 .. Len(q) : \E h \in ToSet(q[j].guards) :
            x \in {h.x, h.y} /\ {h.x, h.y} \subseteq known.prophecy
      OBVIOUS
    <3>3. 1 .. Len(q) = DOMAIN q
      <4>1. PICK m \in 1 .. line : file[m].kind = "program" /\ q = file[m].program
        BY DEF Programs
      <4>2. file[m] \in ToSet(file)
        BY <2>1, FilesAssumption DEF FinitenessInv, ToSet
      <4> QED BY <2>1, <4>1, <4>2, FilesAssumption DEF FinitenessInv
    <3>4. x \in compared_prophecies(known, q)
      BY <3>2, <3>3 DEF compared_prophecies
    <3>5. x \in finiteness.good /\ x \notin released_unchecked(known, p) /\ x \in known.prophecy
      BY <3>1, <3>4 DEF ListsKnown
    <3>6. \E op \in ToSet(p[n].ops) : op.clock = x
      BY <2>1 DEF ToSet
    <3>7. PICK i \in 1 .. n : \E g \in ToSet(p[i].guards) : g.x = x /\ Checks(known, g)
      BY <3>5, <3>6 DEF released_unchecked
    <3> QED BY <3>7 DEF Checks
  <2> QED BY <2>1 DEF FinitenessKnown, Programs
<1> QED BY <1>1, <1>2, <1>3, PTL DEF Spec
===============================================================================
