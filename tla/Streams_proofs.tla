---------------------------- MODULE Streams_proofs ----------------------------
(***************************************************************************)
(* What Streams promises, for any set of streams, any lines, page sizes    *)
(* and bounds.  The tree needs NoKnot: that a parent accepted by the walk  *)
(* from it closes no knot is an argument about the smallest set of streams *)
(* the walk stays in.                                                      *)
(*                                                                         *)
(* Then the logs of test runs (RawLogs), for any runs and any budget, and  *)
(* one call judged (Verdicts), for any rules, requests and worlds: a chain *)
(* of any length, with scripts of any length, is no looser than its parts. *)
(***************************************************************************)
EXTENDS Streams, RawLogs, Verdicts, WellFoundedInduction, TLAPS

Ups == [Stream -> Stream \cup {NoStream}]

-------------------------------------------------------------------------------
(* Above(up, p): the smallest set with p and closed under up *)

LEMMA AboveHasStart == ASSUME NEW up \in Ups, NEW p \in Stream PROVE p \in Above(up, p)
  BY DEF Above

LEMMA AboveIsClosed ==
  ASSUME NEW up \in Ups, NEW p \in Stream, NEW q \in Above(up, p), up[q] \in Stream
  PROVE up[q] \in Above(up, p)
<1>1. SUFFICES ASSUME NEW S \in SUBSET Stream, p \in S, ClosedUp(up, S) PROVE up[q] \in S
  BY DEF Above
<1>2. q \in S
  BY <1>1 DEF Above
<1> QED BY <1>1, <1>2 DEF ClosedUp

LEMMA AboveIsLeast ==
  ASSUME NEW up \in Ups, NEW p \in Stream,
         NEW S \in SUBSET Stream, p \in S, ClosedUp(up, S)
  PROVE Above(up, p) \subseteq S
  BY DEF Above

\* The heart of the argument: streams E without a knot, one of them given a
\* parent p from which the walk does not come back, have no knot either.
Knotless(E, up) == \A T \in SUBSET E : T # {} => \E x \in T : up[x] \notin T
Inside(S, up, s, p) == (\A x \in S \ {s} : up[x] \in S) /\ (s \in S => p \in S)

LEMMA NoNewKnot ==
  ASSUME NEW E \in SUBSET Stream, NEW up \in Ups, NEW s \in Stream, NEW p \in Stream,
         Knotless(E \ {s}, up),
         s \notin Above(up, p),
         NEW S \in SUBSET (E \cup {s}), S # {}, Inside(S, up, s, p)
  PROVE FALSE
<1>1. CASE s \notin S
  BY <1>1 DEF Knotless, Inside
<1>2. CASE s \in S
  <2> DEFINE T == S \cap Above(up, p)
  <2>1. p \in T
    BY <1>2, AboveHasStart DEF Inside
  <2>2. T \in SUBSET (E \ {s}) /\ T # {}
    BY <2>1
  <2>3. PICK x \in T : up[x] \notin T
    BY <2>2 DEF Knotless
  <2>4. x \in S \ {s} /\ x \in Above(up, p) /\ x \in Stream
    BY <2>2, <2>3
  <2>5. up[x] \in S /\ up[x] \in Stream
    BY <2>4 DEF Inside
  <2>6. up[x] \in Above(up, p)
    BY <2>4, <2>5, AboveIsClosed
  <2> QED BY <2>3, <2>5, <2>6
<1> QED BY <1>1, <1>2

-------------------------------------------------------------------------------
(* Types *)

LEMMA LookupType == ASSUME StreamsAssumption, TypeOK PROVE Lookup \in Ups
  BY DEF StreamsAssumption, TypeOK, Lookup, Ups

LEMMA PageType ==
  ASSUME NEW t \in Seq(Line), NEW start \in Nat, NEW limit \in Nat
  PROVE Page(t, start, limit) \in Seq(Line)
  BY DEF Page, Least, Most

\* A page is the entries that follow, and is empty at the end only.
LEMMA PageIs ==
  ASSUME NEW t \in Seq(Line), NEW start \in Nat, NEW limit \in Nat, start <= Len(t),
         NEW page, page = Page(t, start, limit)
  PROVE /\ Len(t) \in Nat /\ Len(page) \in Nat
        /\ start + Len(page) = Least(start + Most(1, limit), Len(t))
        /\ start + Len(page) <= Len(t)
        /\ start < Len(t) => 0 < Len(page)
        /\ \A i \in 1..Len(page) : page[i] = t[start + i]
  BY DEF Page, Least, Most

\* The page that opens a thread.
LEMMA FirstPageIs ==
  ASSUME NEW t \in Seq(Line), NEW limit \in Nat, NEW page, page = Page(t, 0, limit)
  PROVE /\ Len(t) \in Nat /\ Len(page) \in Nat /\ Len(page) <= Len(t)
        /\ \A i \in 1..Len(page) : page[i] = t[i]
<1>1. page = Page(t, 0, limit) /\ 0 \in Nat /\ 0 <= Len(t)
  OBVIOUS
<1>2. /\ Len(t) \in Nat /\ Len(page) \in Nat /\ 0 + Len(page) <= Len(t)
      /\ \A i \in 1..Len(page) : page[i] = t[0 + i]
  BY <1>1 DEF Page, Least, Most
<1> QED BY <1>2

LEMMA NextIs ==
  ASSUME NEW t \in Seq(Line), NEW start \in Nat, NEW limit \in Nat, start <= Len(t),
         HasNext(t, start, limit)
  PROVE /\ 0 < start + Len(Page(t, start, limit))
        /\ start + Len(Page(t, start, limit)) < Len(t)
<1>1. Len(t) \in Nat /\ Len(Page(t, start, limit)) \in Nat
  BY PageIs
<1> QED BY <1>1 DEF HasNext

LEMMA NoNextIs ==
  ASSUME NEW t \in Seq(Line), NEW start \in Nat, NEW limit \in Nat, start <= Len(t),
         ~HasNext(t, start, limit)
  PROVE start + Len(Page(t, start, limit)) = Len(t)
<1>1. /\ Len(t) \in Nat /\ Len(Page(t, start, limit)) \in Nat
      /\ start + Len(Page(t, start, limit)) <= Len(t)
      /\ start < Len(t) => 0 < Len(Page(t, start, limit))
  BY PageIs
<1> QED BY <1>1 DEF HasNext

LEMMA ShortLines == <<>> \in Seq(Line) /\ FirstLines \subseteq Seq(Line)
<1>1. <<>> \in Seq(Line)
  OBVIOUS
<1>2. ASSUME NEW l \in Line PROVE <<l>> \in Seq(Line)
  OBVIOUS
<1> QED BY <1>1, <1>2 DEF FirstLines

\* Records, threads and what readers hold are of their types, and no move closes a knot.
THEOREM Typing == ASSUME StreamsAssumption PROVE Spec => []TypeOK
<1>1. Init => TypeOK
  <2> SUFFICES ASSUME Init PROVE TypeOK
    OBVIOUS
  <2>1. thread \in [Stream -> Seq(Line)] /\ got \in Seq(Line) /\ printed \in Seq(Line)
    BY ShortLines DEF Init
  <2> QED BY <2>1 DEF Init, TypeOK
<1>2. TypeOK /\ [Next]_vars => TypeOK'
  <2> SUFFICES ASSUME TypeOK, [Next]_vars PROVE TypeOK'
    OBVIOUS
  <2> USE DEF StreamsAssumption
  <2>1. ASSUME NEW s \in Stream, NEW p \in Stream \cup {NoStream}, NEW first \in FirstLines,
               Create(s, p, first)
        PROVE TypeOK'
    <3>1. first \in Seq(Line)
      BY ShortLines
    <3> QED BY <2>1, <3>1 DEF TypeOK, Create, May, reader, show
  <2>2. ASSUME NEW s \in Stream, NEW p \in Stream, Reparent(s, p) PROVE TypeOK'
    BY <2>2 DEF TypeOK, Reparent, PatchParents, May, reader, show
  <2>3. ASSUME NEW s \in Stream, Archive(s) PROVE TypeOK'
    BY <2>3 DEF TypeOK, Archive, May, reader, show
  <2>4. ASSUME NEW s \in Stream, NEW line \in Line, AppendThread(s, line) PROVE TypeOK'
    BY <2>4 DEF TypeOK, AppendThread, record, reader, show
  <2>5. ASSUME NEW s \in Stream, NEW limit \in Limits, Open(s, limit) PROVE TypeOK'
    <3>1. got' \in Seq(Line) /\ from' \in Nat
      BY <2>5, PageType DEF TypeOK, Open
    <3>2. more' \in BOOLEAN
      BY <2>5 DEF Open, HasNext
    <3> QED BY <2>5, <3>1, <3>2 DEF TypeOK, Open, record, show
  <2>6. ASSUME NEW limit \in Limits, ReadOn(limit) PROVE TypeOK'
    <3>0. at \in Stream /\ thread[at] \in Seq(Line) /\ from \in Nat /\ limit \in Nat
      BY <2>6 DEF TypeOK, ReadOn
    <3>1. got' \in Seq(Line) /\ from' \in Nat
      BY <2>6, <3>0, PageType DEF TypeOK, ReadOn
    <3>2. more' \in BOOLEAN
      BY <2>6 DEF ReadOn, HasNext
    <3> QED BY <2>6, <3>1, <3>2 DEF TypeOK, ReadOn, record, show
  <2>7. ASSUME NEW s \in Stream, ShowAsk(s) PROVE TypeOK'
    BY <2>7 DEF TypeOK, ShowAsk, record, reader
  <2>8. CASE ShowTail
    <3>1. ShowStart(asked) \in Nat /\ Shown \in Nat
      BY DEF TypeOK, ShowStart
    <3>2. printed' \in Seq(Line)
      BY <2>8, <3>1, PageType DEF TypeOK, ShowTail
    <3> QED BY <2>8, <3>2 DEF TypeOK, ShowTail, record, reader
  <2>9. CASE UNCHANGED vars
    BY <2>9 DEF TypeOK, vars, record, reader, show
  <2> QED BY <2>1, <2>2, <2>3, <2>4, <2>5, <2>6, <2>7, <2>8, <2>9 DEF Next
<1> QED BY <1>1, <1>2, PTL DEF Spec

-------------------------------------------------------------------------------
(* The tree *)

LEMMA StaysWithoutKnots == ASSUME StreamsAssumption PROVE TypeOK /\ NoKnot /\ [Next]_vars => NoKnot'
<1> SUFFICES ASSUME TypeOK, NoKnot, [Next]_vars,
                    NEW S \in SUBSET exists', S # {}, \A x \in S : parent'[x] \in S
             PROVE FALSE
  BY DEF NoKnot
<1>0. exists \in SUBSET Stream /\ parent \in Ups /\ Lookup \in Ups
  BY LookupType DEF TypeOK, Ups
<1>1. ASSUME NEW s \in Stream, NEW p \in Stream \cup {NoStream}, NEW first \in FirstLines,
             Create(s, p, first)
      PROVE FALSE
  <2>1. S \in SUBSET (exists \cup {s}) /\ parent'[s] = p /\ \A x \in exists : parent'[x] = parent[x]
    BY <1>0, <1>1 DEF Create, Ups
  <2>2. CASE s \notin S
    <3>1. S \in SUBSET exists /\ \A x \in S : parent[x] \in S
      BY <2>1, <2>2
    <3> QED BY <3>1 DEF NoKnot
  <2>3. CASE s \in S
    <3>1. p \in S /\ p \in Stream
      BY <2>1, <2>3, <1>0
    <3>2. s \notin Above(Lookup, p)
      BY <1>1, <3>1 DEF StreamsAssumption, Create, NoStreamCycle
    <3>3. \A x \in exists \ {s} : Lookup[x] = parent[x]
      BY <1>0 DEF Lookup
    <3>4. Knotless(exists \ {s}, Lookup)
      BY <3>3 DEF NoKnot, Knotless
    <3>5. Inside(S, Lookup, s, p)
      BY <2>1, <3>1, <3>3 DEF Inside
    <3>6. S \in SUBSET (exists \cup {s}) /\ S # {}
      BY <2>1
    <3> QED BY <1>0, <3>1, <3>2, <3>4, <3>5, <3>6, NoNewKnot
  <2> QED BY <2>2, <2>3
<1>2. ASSUME NEW s \in Stream, NEW p \in Stream, Reparent(s, p) PROVE FALSE
  <2> DEFINE up == [Lookup EXCEPT ![s] = p]
  <2>1. up \in Ups /\ S \in SUBSET exists /\ parent'[s] = p
        /\ \A x \in exists \ {s} : parent'[x] = parent[x] /\ up[x] = parent[x]
    BY <1>0, <1>2 DEF Reparent, Ups, Lookup
  <2>2. CASE s \notin S
    BY <2>1, <2>2 DEF NoKnot
  <2>3. CASE s \in S
    <3>1. p \in S
      BY <2>1, <2>3
    <3>2. s \notin Above(up, p)
      BY <1>2 DEF StreamsAssumption, Reparent, After, NoStreamCycle
    <3>3. Knotless(exists \ {s}, up)
      BY <2>1 DEF NoKnot, Knotless
    <3>4. Inside(S, up, s, p)
      BY <2>1, <3>1 DEF Inside
    <3>5. S \in SUBSET (exists \cup {s}) /\ S # {}
      BY <2>1
    <3> HIDE DEF up
    <3> QED BY <1>0, <2>1, <3>2, <3>3, <3>4, <3>5, NoNewKnot
  <2> QED BY <2>2, <2>3
<1>3. CASE UNCHANGED <<exists, parent>>
  BY <1>3 DEF NoKnot
<1>4. ASSUME NEW s \in Stream, Archive(s) PROVE UNCHANGED <<exists, parent>>
  BY <1>4 DEF Archive
<1>5. ASSUME NEW s \in Stream, NEW line \in Line, AppendThread(s, line)
      PROVE UNCHANGED <<exists, parent>>
  BY <1>5 DEF AppendThread, record
<1>6. ASSUME NEW s \in Stream, NEW limit \in Limits, Open(s, limit)
      PROVE UNCHANGED <<exists, parent>>
  BY <1>6 DEF Open, record
<1>7. ASSUME NEW limit \in Limits, ReadOn(limit) PROVE UNCHANGED <<exists, parent>>
  BY <1>7 DEF ReadOn, record
<1>8. ASSUME NEW s \in Stream, ShowAsk(s) PROVE UNCHANGED <<exists, parent>>
  BY <1>8 DEF ShowAsk, record
<1>9. CASE ShowTail
  BY <1>3, <1>9 DEF ShowTail, record
<1>10. CASE UNCHANGED vars
  BY <1>3, <1>10 DEF vars, record
<1> QED BY <1>1, <1>2, <1>3, <1>4, <1>5, <1>6, <1>7, <1>8, <1>9, <1>10 DEF Next

\* checkParents: no set of streams is ever closed under parents, by any creations and moves.
THEOREM NoKnotAlways == ASSUME StreamsAssumption PROVE Spec => []NoKnot
<1>1. Init => NoKnot
  BY DEF Init, NoKnot
<1> QED BY <1>1, Typing, StaysWithoutKnots, PTL DEF Spec

\* The tree draws every stream it is given: what it leaves out would be a knot.
LEMMA ShownWithoutKnots == ASSUME StreamsAssumption, TypeOK, NoKnot PROVE EveryStreamShown
<1> SUFFICES ASSUME NEW V \in SUBSET exists, NEW T \in SUBSET V,
                    RootsOf(V) \subseteq T, ClosedDown(V, T),
                    NEW s \in V, s \notin T
             PROVE FALSE
  BY DEF EveryStreamShown, TreeOf
<1>1. PICK x \in V \ T : parent[x] \notin V \ T
  BY DEF NoKnot
<1>2. CASE parent[x] \in V
  BY <1>1, <1>2 DEF ClosedDown
<1>3. CASE parent[x] \notin V
  BY <1>1, <1>3 DEF RootsOf
<1> QED BY <1>2, <1>3

\* For any streams, however they were made, moved and archived: the tree of the
\* records, of those not archived and of those a filter keeps draws each one.
THEOREM EveryStreamShownAlways == ASSUME StreamsAssumption PROVE Spec => []EveryStreamShown
  BY Typing, NoKnotAlways, ShownWithoutKnots, PTL

LEMMA WritableWithoutKnots == ASSUME StreamsAssumption, TypeOK, NoKnot PROVE RecordsStayWritable
<1> SUFFICES ASSUME NEW s \in exists, parent[s] # NoStream PROVE NoStreamCycle(s, parent[s], Lookup)
  BY DEF RecordsStayWritable, NoStreamCycle
<1> DEFINE p == parent[s]
           A == Above(Lookup, p)
<1>0. Lookup \in Ups /\ p \in Stream /\ s \in Stream /\ exists \subseteq Stream
  BY LookupType DEF TypeOK
<1>1. p \in A /\ A \subseteq Stream
  BY <1>0, AboveHasStart DEF Above
<1>2. \E q \in A : Lookup[q] = NoStream
  <2> SUFFICES ASSUME \A q \in A : Lookup[q] # NoStream PROVE FALSE
    OBVIOUS
  <2>1. A \subseteq exists /\ \A q \in A : parent[q] = Lookup[q]
    BY <1>1 DEF Lookup
  <2>2. \A q \in A : Lookup[q] \in Stream
    BY <1>0, <1>1 DEF Ups
  <2>3. \A q \in A : Lookup[q] \in A
    BY <1>0, <2>2, AboveIsClosed
  <2> QED BY <1>1, <2>1, <2>3 DEF NoKnot
<1>3. s \notin A
  <2> SUFFICES ASSUME s \in A PROVE FALSE
    OBVIOUS
  <2> DEFINE K == {x \in A : s \in Above(Lookup, x)}
  <2>1. s \in K
    BY <1>0, AboveHasStart
  <2>2. ASSUME NEW x \in K, x # s PROVE Lookup[x] \in K
    <3>1. CASE Lookup[x] \in Stream
      <4>1. Lookup[x] \in A
        BY <1>0, <2>2, <3>1, AboveIsClosed
      <4> DEFINE S == {x} \cup Above(Lookup, Lookup[x])
      <4>2. ClosedUp(Lookup, S) /\ x \in S /\ S \in SUBSET Stream
        BY <1>0, <1>1, <2>2, <3>1, AboveHasStart, AboveIsClosed DEF ClosedUp, Above
      <4>3. Above(Lookup, x) \subseteq S
        BY <1>0, <1>1, <4>2, AboveIsLeast
      <4>4. s \in Above(Lookup, Lookup[x])
        BY <2>2, <4>3
      <4> QED BY <4>1, <4>4
    <3>2. CASE Lookup[x] \notin Stream
      <4>1. ClosedUp(Lookup, {x}) /\ {x} \in SUBSET Stream
        BY <1>1, <3>2 DEF ClosedUp
      <4>2. Above(Lookup, x) \subseteq {x}
        BY <1>0, <1>1, <4>1, AboveIsLeast
      <4> QED BY <2>2, <4>2
    <3> QED BY <3>1, <3>2
  <2>3. p \in K
    BY <1>1
  <2>4. \A x \in K : Lookup[x] \in K
    <3>1. Lookup[s] = p
      BY <1>0 DEF Lookup
    <3> HIDE DEF K, p
    <3> QED BY <2>2, <2>3, <3>1
  <2>5. \A x \in K : x \in exists /\ parent[x] = Lookup[x]
    BY <1>0, <1>1, <2>4 DEF StreamsAssumption, Lookup
  <2> QED BY <2>1, <2>4, <2>5 DEF NoKnot
<1> QED BY <1>2, <1>3 DEF NoStreamCycle

\* For any streams: the check a status write of the daemon runs on the parent
\* the record keeps never refuses it, whatever was re-parented meanwhile.
THEOREM RecordsStayWritableAlways == ASSUME StreamsAssumption PROVE Spec => []RecordsStayWritable
  BY Typing, NoKnotAlways, WritableWithoutKnots, PTL

-------------------------------------------------------------------------------
(* Reading *)

ReadersAreWhole ==
  /\ at \in exists \cup {NoStream} /\ asking \in exists \cup {NoStream}
  /\ PagesReadWhole
  /\ asking # NoStream => asked <= Len(thread[asking])
  /\ printed # <<>> => asking # NoStream
  /\ ShowHasTheTail

\* Threads only grow: what is written leaves every line at its index.
Grows(s) == /\ Len(thread[s]) <= Len(thread'[s])
            /\ \A i \in 1..Len(thread[s]) : thread'[s][i] = thread[s][i]

LEMMA GrowthKeepsReaders ==
  ASSUME StreamsAssumption, TypeOK, TypeOK', ReadersAreWhole, UNCHANGED <<reader, show>>,
         exists \subseteq exists', \A s \in exists : Grows(s)
  PROVE ReadersAreWhole'
<1>1. at' \in exists' \cup {NoStream} /\ asking' \in exists' \cup {NoStream}
  BY DEF ReadersAreWhole, reader, show
<1>2. PagesReadWhole'
  <2> SUFFICES ASSUME at # NoStream
      PROVE /\ from = Len(got) /\ from <= Len(thread'[at])
            /\ \A i \in 1..from : got[i] = thread'[at][i]
            /\ more => 0 < from /\ from < Len(thread'[at])
    BY DEF PagesReadWhole, reader
  <2>1. at \in exists /\ at \in Stream /\ Grows(at) /\ from \in Nat
        /\ Len(thread[at]) \in Nat /\ Len(thread'[at]) \in Nat
    BY DEF StreamsAssumption, ReadersAreWhole, TypeOK
  <2>2. /\ from = Len(got) /\ from <= Len(thread[at])
        /\ \A i \in 1..from : got[i] = thread[at][i]
        /\ more => 0 < from /\ from < Len(thread[at])
    BY DEF ReadersAreWhole, PagesReadWhole
  <2>3. Len(thread[at]) <= Len(thread'[at])
    BY <2>1 DEF Grows
  <2>4. \A i \in 1..from : thread'[at][i] = thread[at][i]
    <3>1. \A i \in 1..from : i \in 1..Len(thread[at])
      BY <2>1, <2>2
    <3> QED BY <2>1, <3>1 DEF Grows
  <2> QED BY <2>1, <2>2, <2>3, <2>4
<1>3. asking' # NoStream => asked' <= Len(thread'[asking'])
  <2> SUFFICES ASSUME asking # NoStream PROVE asked <= Len(thread'[asking])
    BY DEF show
  <2>1. asking \in exists /\ asking \in Stream /\ Grows(asking) /\ asked \in Nat
        /\ Len(thread[asking]) \in Nat /\ Len(thread'[asking]) \in Nat
    BY DEF StreamsAssumption, ReadersAreWhole, TypeOK
  <2>2. asked <= Len(thread[asking])
    BY DEF ReadersAreWhole
  <2>3. Len(thread[asking]) <= Len(thread'[asking])
    BY <2>1 DEF Grows
  <2> QED BY <2>1, <2>2, <2>3
<1>4. ShowHasTheTail'
  <2> SUFFICES ASSUME printed # <<>>
      PROVE /\ ShowStart(asked) + Len(printed) >= asked
            /\ ShowStart(asked) + Len(printed) <= Len(thread'[asking])
            /\ \A i \in 1..Len(printed) : printed[i] = thread'[asking][ShowStart(asked) + i]
    BY DEF ShowHasTheTail, show, ShowStart
  <2>1. asking \in exists /\ asking \in Stream /\ Grows(asking) /\ ShowStart(asked) \in Nat
        /\ Len(thread[asking]) \in Nat /\ Len(thread'[asking]) \in Nat /\ Len(printed) \in Nat
    BY DEF StreamsAssumption, ReadersAreWhole, TypeOK, ShowStart
  <2>2. /\ ShowStart(asked) + Len(printed) >= asked
        /\ ShowStart(asked) + Len(printed) <= Len(thread[asking])
        /\ \A i \in 1..Len(printed) : printed[i] = thread[asking][ShowStart(asked) + i]
    BY DEF ReadersAreWhole, ShowHasTheTail
  <2>3. \A i \in 1..Len(printed) : ShowStart(asked) + i \in 1..Len(thread[asking])
    BY <2>1, <2>2
  <2>4. \A i \in 1..Len(printed) : thread'[asking][ShowStart(asked) + i] = thread[asking][ShowStart(asked) + i]
    BY <2>1, <2>3 DEF Grows
  <2>5. Len(thread[asking]) <= Len(thread'[asking])
    BY <2>1 DEF Grows
  <2> QED BY <2>1, <2>2, <2>4, <2>5
<1>5. printed' # <<>> => asking' # NoStream
  BY DEF ReadersAreWhole, show
<1> QED BY <1>1, <1>2, <1>3, <1>4, <1>5 DEF ReadersAreWhole

LEMMA StaysWhole == ASSUME StreamsAssumption
                    PROVE TypeOK /\ TypeOK' /\ ReadersAreWhole /\ [Next]_vars => ReadersAreWhole'
<1> SUFFICES ASSUME TypeOK, TypeOK', ReadersAreWhole, [Next]_vars PROVE ReadersAreWhole'
  OBVIOUS
<1> USE DEF StreamsAssumption
<1>0. thread \in [Stream -> Seq(Line)] /\ exists \subseteq Stream /\ from \in Nat /\ asked \in Nat
  BY DEF TypeOK
<1>1. ASSUME NEW s \in Stream, NEW p \in Stream \cup {NoStream}, NEW first \in FirstLines,
             Create(s, p, first)
      PROVE ReadersAreWhole'
  <2>1. exists \subseteq exists' /\ UNCHANGED <<reader, show>> /\ \A q \in exists : Grows(q)
    BY <1>0, <1>1 DEF Create, Grows
  <2> QED BY <2>1, GrowthKeepsReaders
<1>2. ASSUME NEW s \in Stream, NEW line \in Line, AppendThread(s, line) PROVE ReadersAreWhole'
  <2>1. exists \subseteq exists' /\ UNCHANGED <<reader, show>>
    BY <1>2 DEF AppendThread, record
  <2>2. ASSUME NEW q \in exists PROVE Grows(q)
    <3>1. thread[q] \in Seq(Line) /\ q \in Stream
      BY <1>0
    <3>2. CASE q = s
      <4>1. thread'[q] = Append(thread[q], line)
        BY <1>0, <1>2, <3>2 DEF AppendThread
      <4> QED BY <3>1, <4>1 DEF Grows
    <3>3. CASE q # s
      BY <1>0, <1>2, <3>1, <3>3 DEF AppendThread, Grows
    <3> QED BY <3>2, <3>3
  <2> QED BY <2>1, <2>2, GrowthKeepsReaders
<1>3. ASSUME exists' = exists, thread' = thread, UNCHANGED <<reader, show>> PROVE ReadersAreWhole'
  <2>1. \A q \in exists : Grows(q)
    BY <1>0, <1>3 DEF Grows
  <2> QED BY <1>3, <2>1, GrowthKeepsReaders
<1>4. ASSUME NEW s \in Stream, NEW limit \in Limits, Open(s, limit) PROVE ReadersAreWhole'
  <2>1. limit \in Nat /\ thread[s] \in Seq(Line) /\ s \in exists /\ s # NoStream
    BY <1>0, <1>4 DEF Open
  <2> DEFINE t == thread[s]
             page == Page(t, 0, limit)
  <2>2. 0 \in Nat /\ 0 <= Len(t) /\ t \in Seq(Line)
    BY <2>1
  <2>3. Len(t) \in Nat /\ Len(page) \in Nat
    <3> HIDE DEF t, StreamsAssumption
    <3> QED BY <2>1, <2>2, FirstPageIs
  <2>4. at' = s /\ got' = page /\ from' = Len(page) /\ thread' = thread
    BY <1>4 DEF Open
  <2>6. more' => 0 < 0 + Len(page) /\ 0 + Len(page) < Len(t)
    <3>1. more' = HasNext(t, 0, limit)
      BY <1>4 DEF Open
    <3> HIDE DEF t
    <3> QED BY <2>1, <2>2, <3>1, NextIs
  <2>7. Len(page) <= Len(t) /\ \A i \in 1..Len(page) : page[i] = t[i]
    <3> HIDE DEF t, StreamsAssumption
    <3> QED BY <2>1, <2>2, FirstPageIs
  <2> HIDE DEF page
  <2>5. PagesReadWhole'
    BY <2>3, <2>4, <2>6, <2>7 DEF PagesReadWhole
  <2> QED BY <1>4, <2>1, <2>5 DEF Open, ReadersAreWhole, ShowHasTheTail, record, show
<1>5. ASSUME NEW limit \in Limits, ReadOn(limit) PROVE ReadersAreWhole'
  <2> DEFINE t == thread[at]
             page == Page(t, from, limit)
  <2>1. limit \in Nat /\ at \in Stream /\ t \in Seq(Line) /\ at # NoStream /\ more /\ got \in Seq(Line)
    BY <1>0, <1>5 DEF ReadOn, TypeOK
  <2>2. from = Len(got) /\ from <= Len(t) /\ from < Len(t) /\ \A i \in 1..from : got[i] = t[i]
    BY <2>1 DEF ReadersAreWhole, PagesReadWhole
  <2>3. page \in Seq(Line)
    BY <1>0, <2>1, PageType
  <2>4. /\ Len(t) \in Nat /\ Len(page) \in Nat /\ 0 < Len(page) /\ from + Len(page) <= Len(t)
        /\ \A i \in 1..Len(page) : page[i] = t[from + i]
    <3> HIDE DEF t
    <3>1. t \in Seq(Line) /\ from \in Nat /\ limit \in Nat /\ from <= Len(t) /\ from < Len(t)
      BY <1>0, <2>1, <2>2
    <3> QED BY <3>1, PageIs
  <2>5. got' = got \o page /\ from' = Len(got') /\ at' = at /\ thread' = thread
    BY <1>5 DEF ReadOn
  <2>6. from' = from + Len(page)
    BY <2>1, <2>2, <2>3, <2>5
  <2>7. \A i \in 1..from' : got'[i] = t[i]
    <3> SUFFICES ASSUME NEW i \in 1..from' PROVE got'[i] = t[i]
      OBVIOUS
    <3>1. CASE i <= from
      <4>1. i \in 1..Len(got) /\ got'[i] = got[i]
        BY <1>0, <2>1, <2>2, <2>3, <2>4, <2>5, <2>6, <3>1
      <4> QED BY <2>2, <4>1
    <3>2. CASE i > from
      <4>1. i - from \in 1..Len(page) /\ from + (i - from) = i
        BY <1>0, <2>4, <2>6, <3>2
      <4>2. got'[i] = page[i - from]
        BY <1>0, <2>1, <2>2, <2>3, <2>4, <2>5, <2>6, <3>2
      <4> QED BY <2>4, <4>1, <4>2
    <3> QED BY <1>0, <2>4, <2>6, <3>1, <3>2
  <2>8. more' => 0 < from' /\ from' < Len(t)
    <3>1. more' = HasNext(t, from, limit)
      BY <1>5 DEF ReadOn
    <3> HIDE DEF t
    <3> QED BY <1>0, <2>1, <2>2, <2>6, <3>1, NextIs
  <2>9. PagesReadWhole'
    BY <1>0, <2>1, <2>4, <2>5, <2>6, <2>7, <2>8 DEF PagesReadWhole
  <2> QED BY <1>5, <2>9 DEF ReadOn, ReadersAreWhole, ShowHasTheTail, record, show
<1>6. ASSUME NEW s \in Stream, ShowAsk(s) PROVE ReadersAreWhole'
  BY <1>0, <1>6 DEF ShowAsk, ReadersAreWhole, ShowHasTheTail, PagesReadWhole, record, reader
<1>7. CASE ShowTail
  <2> DEFINE t == thread[asking]
             start == ShowStart(asked)
  <2>1. asking \in Stream /\ t \in Seq(Line) /\ asked <= Len(t) /\ start \in Nat /\ start <= asked /\ Shown \in Nat \ {0}
    BY <1>0, <1>7 DEF ShowTail, ReadersAreWhole, ShowStart, TypeOK
  <2>2. Len(t) \in Nat /\ printed' = Page(t, start, Shown) /\ asking' = asking /\ asked' = asked /\ thread' = thread
    BY <1>7, <2>1 DEF ShowTail
  <2>3. /\ Len(printed') \in Nat /\ start + Len(printed') = Least(start + Shown, Len(t))
        /\ \A i \in 1..Len(printed') : printed'[i] = t[start + i]
    <3>1. start <= Len(t) /\ Shown \in Nat /\ Most(1, Shown) = Shown
      BY <1>0, <2>1, <2>2 DEF Most
    <3>2. /\ Len(Page(t, start, Shown)) \in Nat
          /\ start + Len(Page(t, start, Shown)) = Least(start + Most(1, Shown), Len(t))
          /\ \A i \in 1..Len(Page(t, start, Shown)) : Page(t, start, Shown)[i] = t[start + i]
      <4> HIDE DEF t, start
      <4> QED BY <2>1, <3>1, PageIs
    <3> QED BY <2>2, <3>1, <3>2
  <2>4. start + Shown >= asked
    BY <1>0, <2>1 DEF ShowStart
  <2>5. ShowHasTheTail'
    BY <1>0, <2>1, <2>2, <2>3, <2>4 DEF ShowHasTheTail, Least, ShowStart
  <2> QED BY <1>7, <2>5 DEF ShowTail, ReadersAreWhole, PagesReadWhole, record, reader
<1>8. ASSUME NEW s \in Stream, NEW p \in Stream, Reparent(s, p) PROVE ReadersAreWhole'
  BY <1>3, <1>8 DEF Reparent
<1>9. ASSUME NEW s \in Stream, Archive(s) PROVE ReadersAreWhole'
  BY <1>3, <1>9 DEF Archive
<1>10. CASE UNCHANGED vars
  BY <1>3, <1>10 DEF vars, record
<1> QED BY <1>1, <1>2, <1>4, <1>5, <1>6, <1>7, <1>8, <1>9, <1>10 DEF Next

LEMMA ReadersAlwaysWhole == ASSUME StreamsAssumption PROVE Spec => []ReadersAreWhole
<1>1. Init => ReadersAreWhole
  BY DEF Init, ReadersAreWhole, PagesReadWhole, ShowHasTheTail
<1> QED BY <1>1, Typing, StaysWhole, PTL DEF Spec

\* For any lines, page sizes and writers: following `next` reads the thread
\* without a gap or a duplicate.
THEOREM PagesReadWholeAlways == ASSUME StreamsAssumption PROVE Spec => []PagesReadWhole
<1>1. ReadersAreWhole => PagesReadWhole
  BY DEF ReadersAreWhole
<1> QED BY <1>1, ReadersAlwaysWhole, PTL

\* For any writers between its two calls: `stream show` prints the newest lines
\* there were when it was asked.
THEOREM ShowHasTheTailAlways == ASSUME StreamsAssumption PROVE Spec => []ShowHasTheTail
<1>1. ReadersAreWhole => ShowHasTheTail
  BY DEF ReadersAreWhole
<1> QED BY <1>1, ReadersAlwaysWhole, PTL

\* For any lines, page sizes and writers: a page without `next` ended the thread.
THEOREM EndIsTheEndAlways == ASSUME StreamsAssumption PROVE Spec => EndIsTheEnd
<1>1. ASSUME TypeOK, ReadersAreWhole, [Next]_vars,
             at' # NoStream, at = NoStream \/ more, ~more', vars' # vars
      PROVE Len(got') = Len(thread[at'])
  <2> USE DEF StreamsAssumption
  <2>0. thread \in [Stream -> Seq(Line)] /\ from \in Nat /\ got \in Seq(Line)
    BY <1>1 DEF TypeOK
  <2>1. ASSUME NEW s \in Stream, NEW limit \in Limits, Open(s, limit)
        PROVE Len(got') = Len(thread[at'])
    <3> DEFINE t == thread[s]
    <3>1. t \in Seq(Line) /\ 0 \in Nat /\ limit \in Nat /\ 0 <= Len(t) /\ Len(t) \in Nat
      BY <2>0
    <3>2. ~HasNext(t, 0, limit) /\ got' = Page(t, 0, limit) /\ thread[at'] = t
      BY <1>1, <2>1 DEF Open
    <3>3. 0 + Len(Page(t, 0, limit)) = Len(t) /\ Len(Page(t, 0, limit)) \in Nat
      <4> HIDE DEF t
      <4> QED BY <3>1, <3>2, NoNextIs, PageIs
    <3> QED BY <3>2, <3>3
  <2>2. ASSUME NEW limit \in Limits, ReadOn(limit)
        PROVE Len(got') = Len(thread[at'])
    <3> DEFINE t == thread[at]
               page == Page(t, from, limit)
    <3>1. t \in Seq(Line) /\ limit \in Nat /\ from <= Len(t) /\ from = Len(got)
      BY <1>1, <2>0, <2>2 DEF ReadOn, TypeOK, ReadersAreWhole, PagesReadWhole
    <3>2. ~HasNext(t, from, limit) /\ got' = got \o page /\ thread[at'] = t
      BY <1>1, <2>2 DEF ReadOn
    <3>3. page \in Seq(Line) /\ from + Len(page) = Len(t)
      <4> HIDE DEF t
      <4> QED BY <2>0, <3>1, <3>2, NoNextIs, PageType
    <3>4. Len(got \o page) = Len(got) + Len(page)
      <4> HIDE DEF page
      <4> QED BY <2>0, <3>3
    <3> QED BY <3>1, <3>2, <3>3, <3>4
  <2>3. ASSUME UNCHANGED reader PROVE FALSE
    BY <1>1, <2>3 DEF StreamsAssumption, reader, TypeOK
  <2>4. ASSUME NEW s \in Stream, NEW p \in Stream \cup {NoStream}, NEW first \in FirstLines,
               Create(s, p, first)
        PROVE UNCHANGED reader
    BY <2>4 DEF Create
  <2>5. ASSUME NEW s \in Stream, NEW p \in Stream, Reparent(s, p) PROVE UNCHANGED reader
    BY <2>5 DEF Reparent
  <2>6. ASSUME NEW s \in Stream, Archive(s) PROVE UNCHANGED reader
    BY <2>6 DEF Archive
  <2>7. ASSUME NEW s \in Stream, NEW line \in Line, AppendThread(s, line) PROVE UNCHANGED reader
    BY <2>7 DEF AppendThread
  <2>8. ASSUME NEW s \in Stream, ShowAsk(s) PROVE UNCHANGED reader
    BY <2>8 DEF ShowAsk
  <2>9. ASSUME ShowTail PROVE UNCHANGED reader
    BY <2>9 DEF ShowTail
  <2> QED BY <1>1, <2>1, <2>2, <2>3, <2>4, <2>5, <2>6, <2>7, <2>8, <2>9 DEF Next
<1>2. TypeOK /\ ReadersAreWhole /\ [Next]_vars =>
        [(at' # NoStream /\ (at = NoStream \/ more) /\ ~more') => Len(got') = Len(thread[at'])]_vars
  <2> SUFFICES ASSUME TypeOK, ReadersAreWhole, [Next]_vars, vars' # vars,
                      at' # NoStream, at = NoStream \/ more, ~more',
                      Len(got') # Len(thread[at'])
               PROVE FALSE
    OBVIOUS
  <2> QED BY <1>1
<1> QED BY <1>2, Typing, ReadersAlwaysWhole, PTL DEF Spec, EndIsTheEnd

-------------------------------------------------------------------------------
(* The logs of test runs, for any number of runs of any length, any budget, and however often
   the daemon dies. *)

\* What a run in flight has on disk is registered, and is what its process wrote.
Registered == \A r \in Run : phase[r] \in Active => Paths(r) \subseteq inFlight

Captured ==
  \A r \in Run, s \in Streams : phase[r] \in Active =>
    <<r, s>> \in Disk /\ size[<<r, s>>] = wrote[r][s]

Combined ==
  \A r \in Run :
    /\ phase[r] \in {"half", "combined"} => Log(r) \in Disk
    /\ phase[r] = "half" => size[Log(r)] = wrote[r]["out"]
    /\ phase[r] = "combined" => size[Log(r)] = wrote[r]["out"] + wrote[r]["err"]

\* A log is there only once it is begun.
Begun == \A r \in Run : Log(r) \in Disk => phase[r] \in {"half", "combined", "returned", "failed"}

\* A run that others saw fail stays failed; what it had not begun when a run started
\* was last written after that.
Later ==
  /\ \A s \in Run : startedAt[s] <= now
  /\ \A s \in Run : phase[s] \in Active => seen[s] \in [Run -> Phase]
  /\ \A r, s \in Run : phase[s] \in Active =>
       /\ seen[s][r] = "failed" => phase[r] = "failed"
       /\ seen[s][r] \notin {"half", "combined", "returned", "failed"} /\ Log(r) \in Disk =>
            mtime[Log(r)] >= startedAt[s]

\* Nothing is written before a run begins.
Unwritten == \A r \in Run, s \in Streams : phase[r] = "idle" => wrote[r][s] = 0

Inv == Unwritten /\ LogsTypeOK /\ Registered /\ Captured /\ Combined /\ Begun /\ Later

-------------------------------------------------------------------------------
(* Paths, and what a step does to the files *)

\* A path says whose it is.
LEMMA PathsApart ==
  /\ \A r, q \in Run, s \in Streams : Log(r) # <<q, s>>
  /\ \A r, q \in Run : Log(r) = Log(q) => r = q
  /\ \A r, q \in Run, s, t \in Streams : <<r, s>> = <<q, t>> => r = q /\ s = t
  /\ \A r \in Run, s \in Streams : <<r, s>> \in Captures(r) /\ <<r, s>> \in Paths(r)
  /\ \A r \in Run : Log(r) \in Paths(r)
  /\ \A r, q \in Run, s \in Streams : <<r, s>> \in Paths(q) => r = q
  /\ \A r, q \in Run : Log(r) \in Paths(q) => r = q
  /\ \A r, q \in Run : Log(r) \notin Captures(q)
  /\ \A r \in Run : Captures(r) \subseteq Paths(r)
BY DEF Log, Paths, Captures, Streams

\* Created files have the given length and the present time; the others are as they were.
LEMMA FilesCreated ==
  ASSUME LogsTypeOK, NEW new \in SUBSET UNION {Paths(r) : r \in Run}, NEW n \in Nat, CreateFiles(new, n)
  PROVE  /\ Disk' = Disk \cup new /\ Disk' \subseteq UNION {Paths(r) : r \in Run}
         /\ size' \in [Disk' -> Nat] /\ mtime' \in [Disk' -> Nat]
         /\ \A p \in new : size'[p] = n /\ mtime'[p] = now
         /\ \A p \in Disk \ new : size'[p] = size[p] /\ mtime'[p] = mtime[p]
BY DEF LogsTypeOK, CreateFiles, Disk

\* A file that grows is n longer.
LEMMA GrowFile ==
  ASSUME LogsTypeOK, NEW path \in Disk, NEW n \in Nat, Grow(path, n)
  PROVE  /\ Disk' = Disk /\ size' \in [Disk' -> Nat] /\ mtime' \in [Disk' -> Nat]
         /\ size'[path] = size[path] + n /\ mtime'[path] = now
         /\ \A p \in Disk \ {path} : size'[p] = size[p] /\ mtime'[p] = mtime[p]
BY DEF LogsTypeOK, Grow, Disk

\* A sweep takes only what is neither registered nor young.
LEMMA SweptIsOld ==
  ASSUME NEW r \in Run, NEW disk, NEW gone \in Pruned(r, disk), NEW p \in gone
  PROVE  p \in disk /\ p \notin inFlight /\ mtime[p] < startedAt[r]
<1>1. gone \subseteq Prunable(r, disk) BY DEF Pruned
<1> QED BY <1>1 DEF Prunable

-------------------------------------------------------------------------------
(* The invariant is inductive *)

LEMMA InitInv == LogsInit => Inv
BY
DEF LogsInit, Inv, Unwritten, LogsTypeOK, Registered, Captured, Combined, Begun, Later, Disk,
    Active, Phase,
       Streams

\* Steps that leave the files alone and take no run into flight.
LEMMA QuietInv ==
  ASSUME Inv, UNCHANGED <<startedAt, size, mtime, wrote, seen>>, now' \in Nat, now' >= now,
         deaths' \in Nat, phase' \in [Run -> Phase], overBudget' = overBudget,
         inFlight' \subseteq inFlight,
         \A r \in Run :
           /\ phase'[r] \in Active => /\ phase[r] \in Active /\ Paths(r) \cap inFlight \subseteq inFlight'
                                      /\ phase'[r] \in {"half", "combined"} => phase'[r] = phase[r]
           /\ phase[r] \in {"half", "combined"} => phase'[r] \in {phase[r], "failed"}
           /\ phase[r] \in {"failed", "returned"} => phase'[r] = phase[r]
           /\ phase'[r] = "idle" => phase[r] = "idle"
  PROVE  Inv'
<1>1. Disk' = Disk BY DEF Disk
<1>2. LogsTypeOK' BY <1>1 DEF Inv, LogsTypeOK
<1>3. Registered' BY DEF Inv, Registered
<1>4. Captured' BY <1>1 DEF Inv, Captured
<1>5. Combined' BY <1>1 DEF Inv, Combined, Active
<1>6. Begun' BY <1>1 DEF Inv, Begun
<1>7. Later' BY <1>1 DEF Inv, Later, LogsTypeOK
<1>8. Unwritten' BY DEF Inv, Unwritten
<1> QED BY <1>2, <1>3, <1>4, <1>5, <1>6, <1>7, <1>8 DEF Inv

LEMMA StartInv == ASSUME Inv, NEW r \in Run, Start(r) PROVE Inv'
<1>1. /\ phase[r] = "idle" /\ phase' = [phase EXCEPT ![r] = "running"]
      /\ startedAt' = [startedAt EXCEPT ![r] = now] /\ now' = now
      /\ inFlight' = inFlight \cup Paths(r) /\ wrote' = wrote
      /\ seen' = [seen EXCEPT ![r] = phase]
  BY DEF Start, Enter
<1>2. Captures(r) \in SUBSET UNION {Paths(q) : q \in Run} BY PathsApart
<1>3. /\ Disk' = Disk \cup Captures(r) /\ Disk' \subseteq UNION {Paths(q) : q \in Run}
      /\ size' \in [Disk' -> Nat] /\ mtime' \in [Disk' -> Nat]
      /\ \A p \in Captures(r) : size'[p] = 0
      /\ \A p \in Disk \ Captures(r) : size'[p] = size[p] /\ mtime'[p] = mtime[p]
  <2>1. CreateFiles(Captures(r), 0) BY DEF Start
  <2> QED BY <1>2, <2>1, FilesCreated DEF Inv
<1>4. LogsTypeOK' BY <1>1, <1>3 DEF Inv, LogsTypeOK, Start, Phase, Active
<1>5. Registered' BY <1>1 DEF Inv, Registered, LogsTypeOK
<1>6. Captured'
  <2> SUFFICES ASSUME NEW q \in Run, NEW s \in Streams, phase'[q] \in Active
               PROVE  <<q, s>> \in Disk' /\ size'[<<q, s>>] = wrote[q][s]
    BY <1>1 DEF Captured
  <2>1. CASE q = r BY <2>1, <1>1, <1>3, PathsApart DEF Inv, Unwritten
  <2>2. CASE q # r
    <3>1. phase[q] \in Active BY <2>2, <1>1 DEF Inv, LogsTypeOK
    <3>2. <<q, s>> \in Disk \ Captures(r) /\ size[<<q, s>>] = wrote[q][s]
      BY <3>1, <2>2, PathsApart DEF Inv, Captured
    <3> QED BY <3>2, <1>3
  <2> QED BY <2>1, <2>2
<1>7. Combined' BY <1>1, <1>3, PathsApart DEF Inv, Combined, LogsTypeOK
<1>8. Begun' BY <1>1, <1>3, PathsApart DEF Inv, Begun, LogsTypeOK
<1>9. Later'
  <2>1. \A s \in Run : startedAt'[s] <= now' BY <1>1 DEF Inv, LogsTypeOK, Later
  <2>2. \A s \in Run : phase'[s] \in Active => seen'[s] \in [Run -> Phase]
    BY <1>1 DEF Inv, LogsTypeOK, Later
  <2>3. ASSUME NEW q \in Run, NEW s \in Run, phase'[s] \in Active
        PROVE  /\ seen'[s][q] = "failed" => phase'[q] = "failed"
               /\ seen'[s][q] \notin {"half", "combined", "returned", "failed"} /\ Log(q) \in Disk' =>
                    mtime'[Log(q)] >= startedAt'[s]
    <3>1. Log(q) \in Disk' => Log(q) \in Disk /\ mtime'[Log(q)] = mtime[Log(q)]
      BY <1>3, PathsApart
    <3>2. CASE s = r BY <3>1, <3>2, <1>1 DEF Inv, LogsTypeOK, Begun
    <3>3. CASE s # r BY <3>1, <3>3, <2>3, <1>1 DEF Inv, LogsTypeOK, Later
    <3> QED BY <3>2, <3>3
  <2> QED BY <2>1, <2>2, <2>3 DEF Later
<1>10. Unwritten' BY <1>1 DEF Inv, Unwritten, LogsTypeOK
<1> QED BY <1>10, <1>4, <1>5, <1>6, <1>7, <1>8, <1>9 DEF Inv

LEMMA WriteInv == ASSUME Inv, NEW r \in Run, NEW s \in Streams, Write(r, s) PROVE Inv'
<1>1. /\ phase[r] \in {"running", "orphan"} /\ wrote' = [wrote EXCEPT ![r][s] = @ + 1]
      /\ UNCHANGED <<now, phase, startedAt, inFlight, seen, overBudget, deaths>>
  BY DEF Write
<1>2. /\ Disk' = Disk /\ size' \in [Disk' -> Nat] /\ mtime' \in [Disk' -> Nat]
      /\ <<r, s>> \in Disk => size'[<<r, s>>] = size[<<r, s>>] + 1
      /\ \A p \in Disk \ {<<r, s>>} : size'[p] = size[p] /\ mtime'[p] = mtime[p]
  <2>1. CASE <<r, s>> \in Disk
    <3>1. Grow(<<r, s>>, 1) BY <2>1 DEF Write
    <3> QED BY <2>1, <3>1, GrowFile DEF Inv
  <2>2. CASE <<r, s>> \notin Disk
    <3>1. UNCHANGED <<size, mtime>> BY <2>2 DEF Write, files
    <3> QED BY <2>2, <3>1 DEF Inv, LogsTypeOK, Disk
  <2> QED BY <2>1, <2>2
<1>3. LogsTypeOK' BY <1>1, <1>2 DEF Inv, LogsTypeOK
<1>4. Registered' BY <1>1 DEF Inv, Registered
<1>5. Captured'
  <2> SUFFICES ASSUME NEW q \in Run, NEW t \in Streams, phase[q] \in Active
               PROVE  <<q, t>> \in Disk' /\ size'[<<q, t>>] = wrote'[q][t]
    BY <1>1 DEF Captured
  <2>1. <<q, t>> \in Disk /\ size[<<q, t>>] = wrote[q][t] BY DEF Inv, Captured
  <2>2. CASE q = r /\ t = s BY <2>1, <2>2, <1>1, <1>2 DEF Inv, LogsTypeOK
  <2>3. CASE ~(q = r /\ t = s)
    <3>1. wrote'[q][t] = wrote[q][t] BY <2>3, <1>1 DEF Inv, LogsTypeOK
    <3>2. <<q, t>> # <<r, s>> BY <2>3, PathsApart
    <3> QED BY <2>1, <3>1, <3>2, <1>2
  <2> QED BY <2>2, <2>3
<1>6. \A q \in Run : Log(q) \in Disk' => /\ Log(q) \in Disk /\ size'[Log(q)] = size[Log(q)]
                                         /\ mtime'[Log(q)] = mtime[Log(q)]
  BY <1>2, PathsApart
<1>7. Combined'
  <2>1. \A q \in Run : phase[q] \in {"half", "combined"} => q # r BY <1>1
  <2>2. \A q \in Run : q # r => wrote'[q] = wrote[q] BY <1>1 DEF Inv, LogsTypeOK
  <2> QED BY <2>1, <2>2, <1>1, <1>2, <1>6 DEF Inv, Combined
<1>8. Begun' BY <1>1, <1>6 DEF Inv, Begun
<1>9. Later' BY <1>1, <1>6 DEF Inv, Later
<1>10. Unwritten' BY <1>1 DEF Inv, Unwritten, LogsTypeOK
<1> QED BY <1>3, <1>4, <1>5, <1>7, <1>8, <1>9, <1>10 DEF Inv

\* A log that is begun: its run was in flight, so nobody else's file is touched.
LEMMA CombineOutInv == ASSUME Inv, NEW r \in Run, CombineOut(r) PROVE Inv'
<1>1. /\ phase[r] = "read" /\ phase' = [phase EXCEPT ![r] = "half"]
      /\ UNCHANGED <<now, startedAt, inFlight, wrote, seen, overBudget, deaths>>
  BY DEF CombineOut, Enter, history
<1>2. <<r, "out">> \in Disk /\ size[<<r, "out">>] = wrote[r]["out"] /\ wrote[r]["out"] \in Nat
  BY <1>1 DEF Inv, Captured, Active, Streams, LogsTypeOK
<1>3. {Log(r)} \in SUBSET UNION {Paths(q) : q \in Run} BY PathsApart
<1>4. CreateFiles({Log(r)}, wrote[r]["out"]) BY <1>2 DEF CombineOut
<1>5. /\ Disk' = Disk \cup {Log(r)} /\ Disk' \subseteq UNION {Paths(q) : q \in Run}
      /\ size' \in [Disk' -> Nat] /\ mtime' \in [Disk' -> Nat]
      /\ size'[Log(r)] = wrote[r]["out"] /\ mtime'[Log(r)] = now
      /\ \A p \in Disk \ {Log(r)} : size'[p] = size[p] /\ mtime'[p] = mtime[p]
  BY <1>2, <1>3, <1>4, FilesCreated DEF Inv
<1>6. LogsTypeOK' BY <1>1, <1>5 DEF Inv, LogsTypeOK, Phase, Active
<1>7. Registered' BY <1>1 DEF Inv, Registered, LogsTypeOK, Active
<1>8. Captured' BY <1>1, <1>5, PathsApart DEF Inv, Captured, LogsTypeOK, Active
<1>9. Combined' BY <1>1, <1>5, PathsApart DEF Inv, Combined, LogsTypeOK
<1>10. Begun' BY <1>1, <1>5, PathsApart DEF Inv, Begun, LogsTypeOK
<1>11. Later' BY <1>1, <1>5, PathsApart DEF Inv, Later, LogsTypeOK, Active
<1>12. Unwritten' BY <1>1 DEF Inv, Unwritten, LogsTypeOK
<1> QED BY <1>6, <1>7, <1>8, <1>9, <1>10, <1>11, <1>12 DEF Inv

\* And then it grows by the other capture.
LEMMA CombineErrInv == ASSUME Inv, NEW r \in Run, CombineErr(r) PROVE Inv'
<1>1. /\ phase[r] = "half" /\ phase' = [phase EXCEPT ![r] = "combined"]
      /\ UNCHANGED <<now, startedAt, inFlight, wrote, seen, overBudget, deaths>>
  BY DEF CombineErr, Enter, history
<1>2. /\ <<r, "err">> \in Disk /\ size[<<r, "err">>] = wrote[r]["err"]
      /\ wrote[r]["err"] \in Nat /\ wrote[r]["out"] \in Nat
      /\ Log(r) \in Disk /\ size[Log(r)] = wrote[r]["out"]
  BY <1>1 DEF Inv, Captured, Combined, Active, Streams, LogsTypeOK
<1>3. /\ Disk' = Disk /\ size' \in [Disk' -> Nat] /\ mtime' \in [Disk' -> Nat]
      /\ size'[Log(r)] = wrote[r]["out"] + wrote[r]["err"]
      /\ mtime'[Log(r)] \in {now, mtime[Log(r)]}
      /\ \A p \in Disk \ {Log(r)} : size'[p] = size[p] /\ mtime'[p] = mtime[p]
  <2>1. CASE wrote[r]["err"] > 0
    <3>1. Grow(Log(r), wrote[r]["err"]) BY <2>1, <1>2 DEF CombineErr
    <3> QED BY <3>1, <1>2, GrowFile DEF Inv
  <2>2. CASE ~(wrote[r]["err"] > 0)
    <3>1. UNCHANGED <<size, mtime>> BY <2>2, <1>2 DEF CombineErr, files
    <3> QED BY <2>2, <3>1, <1>2 DEF Inv, LogsTypeOK, Disk
  <2> QED BY <2>1, <2>2
<1>4. LogsTypeOK' BY <1>1, <1>3 DEF Inv, LogsTypeOK, Phase, Active
<1>5. Registered' BY <1>1 DEF Inv, Registered, LogsTypeOK, Active
<1>6. Captured' BY <1>1, <1>3, PathsApart DEF Inv, Captured, LogsTypeOK, Active
<1>7. Combined' BY <1>1, <1>3, <1>2, PathsApart DEF Inv, Combined, LogsTypeOK
<1>8. Begun' BY <1>1, <1>3, PathsApart DEF Inv, Begun, LogsTypeOK
<1>9. Later'
  <2>1. \A q \in Run : Log(q) \in Disk' => Log(q) \in Disk /\ mtime'[Log(q)] \in {now, mtime[Log(q)]}
    BY <1>3
  <2>2. \A q \in Run : /\ phase'[q] \in Active => phase[q] \in Active
                       /\ phase[q] = "failed" => phase'[q] = "failed"
    BY <1>1 DEF Inv, LogsTypeOK, Active
  <2> QED BY <2>1, <2>2, <1>1 DEF Inv, Later
<1>10. Unwritten' BY <1>1 DEF Inv, Unwritten, LogsTypeOK
<1> QED BY <1>4, <1>5, <1>6, <1>7, <1>8, <1>9, <1>10 DEF Inv

\* What the end of a run leaves: its log, and every file that is registered to others or
\* was written since it began.
LEMMA FinishKeeps ==
  ASSUME Inv, NEW r \in Run, Finish(r)
  PROVE  /\ Disk' \subseteq Disk \ Captures(r)
         /\ size' = [p \in Disk' |-> size[p]] /\ mtime' = [p \in Disk' |-> mtime[p]]
         /\ \A p \in (Disk \ Captures(r)) \ Disk' : p \notin inFlight /\ mtime[p] < startedAt[r]
<1> PICK gone \in Pruned(r, Disk \ Captures(r)) :
      /\ size' = Restrict(size, (Disk \ Captures(r)) \ gone)
      /\ mtime' = Restrict(mtime, (Disk \ Captures(r)) \ gone)
  BY DEF Finish
<1>1. Disk' = (Disk \ Captures(r)) \ gone BY DEF Disk, Restrict
<1>2. \A p \in gone : p \notin inFlight /\ mtime[p] < startedAt[r] BY SweptIsOld
<1> QED BY <1>1, <1>2 DEF Restrict

LEMMA FinishInv == ASSUME Inv, NEW r \in Run, Finish(r) PROVE Inv'
<1>1. /\ phase[r] = "combined" /\ phase' = [phase EXCEPT ![r] = "returned"]
      /\ UNCHANGED <<now, startedAt, wrote, seen, deaths>>
      /\ inFlight' = inFlight \ Paths(r)
  BY DEF Finish, Enter, history
<1>2. overBudget' \subseteq Run BY DEF Finish, Inv, LogsTypeOK
<1>3. /\ Disk' \subseteq Disk \ Captures(r)
      /\ size' = [p \in Disk' |-> size[p]] /\ mtime' = [p \in Disk' |-> mtime[p]]
      /\ \A p \in (Disk \ Captures(r)) \ Disk' : p \notin inFlight
  BY FinishKeeps
<1>4. LogsTypeOK' BY <1>1, <1>2, <1>3 DEF Inv, LogsTypeOK, Phase
<1>5. \A q \in Run : /\ phase'[q] \in Active => phase[q] \in Active /\ q # r
                     /\ q # r => phase'[q] = phase[q]
  BY <1>1 DEF Inv, LogsTypeOK, Active
<1>6. Registered'
  <2> SUFFICES ASSUME NEW q \in Run, phase'[q] \in Active PROVE Paths(q) \subseteq inFlight'
    BY DEF Registered
  <2>1. Paths(q) \subseteq inFlight /\ q # r BY <1>5 DEF Inv, Registered
  <2>2. Paths(q) \cap Paths(r) = {} BY <2>1 DEF Paths, Captures, Log, Streams
  <2> QED BY <2>1, <2>2, <1>1
<1>7. \A q \in Run : \A p \in Paths(q) : q # r /\ phase[q] \in Active /\ p \in Disk =>
        p \in Disk' /\ size'[p] = size[p]
  <2> SUFFICES ASSUME NEW q \in Run, NEW p \in Paths(q), q # r, phase[q] \in Active, p \in Disk
               PROVE  p \in Disk' /\ size'[p] = size[p]
    OBVIOUS
  <2>1. p \in inFlight BY DEF Inv, Registered
  <2>2. p \notin Captures(r) BY DEF Paths, Captures, Log, Streams
  <2> QED BY <2>1, <2>2, <1>3
<1>8. Captured'
  <2> SUFFICES ASSUME NEW q \in Run, NEW s \in Streams, phase'[q] \in Active
               PROVE  <<q, s>> \in Disk' /\ size'[<<q, s>>] = wrote[q][s]
    BY <1>1 DEF Captured
  <2> QED BY <1>5, <1>7, PathsApart DEF Inv, Captured
<1>9. Combined'
  <2> SUFFICES ASSUME NEW q \in Run, phase'[q] \in {"half", "combined"}
               PROVE  /\ Log(q) \in Disk' /\ size'[Log(q)] = size[Log(q)] /\ phase'[q] = phase[q]
                      /\ Log(q) \in Disk
    BY <1>1 DEF Inv, Combined
  <2>1. phase[q] \in Active /\ q # r /\ phase'[q] = phase[q] BY <1>5 DEF Active
  <2>2. Log(q) \in Disk BY <2>1 DEF Inv, Combined
  <2> QED BY <2>1, <2>2, <1>7, PathsApart
<1>10. Begun' BY <1>1, <1>3, <1>5 DEF Inv, Begun, LogsTypeOK
<1>11. Later' BY <1>1, <1>3, <1>5 DEF Inv, Later
<1>12. Unwritten' BY <1>1 DEF Inv, Unwritten, LogsTypeOK
<1> QED BY <1>4, <1>6, <1>8, <1>9, <1>10, <1>11, <1>12 DEF Inv

LEMMA NextInv == Inv /\ [LogsNext]_logsVars => Inv'
<1> SUFFICES ASSUME Inv, [LogsNext]_logsVars PROVE Inv'
  OBVIOUS
<1>1. CASE UNCHANGED logsVars
  BY <1>1, QuietInv DEF logsVars, files, history, Inv, LogsTypeOK
<1>2. ASSUME NEW r \in Run, Refuse(r) \/ ProcessEnds(r) \/ readCappedTail(r) \/ CombineFails(r)
      PROVE Inv'
  <2>1. /\ UNCHANGED <<now, startedAt, size, mtime, wrote, seen, overBudget, deaths>>
        /\ \E p \in {"refused", "exited", "read", "failed"} :
             /\ phase' = [phase EXCEPT ![r] = p]
             /\ p = "refused" => phase[r] = "idle"
             /\ p = "exited" => phase[r] = "running"
             /\ p = "read" => phase[r] = "exited"
             /\ p = "failed" => phase[r] \in {"exited", "half"}
             /\ inFlight' = IF p = "failed" THEN inFlight \ Paths(r) ELSE inFlight
    BY <1>2 DEF Refuse, ProcessEnds, readCappedTail, CombineFails, Fail, Enter, files, history
  <2>2. PICK p \in {"refused", "exited", "read", "failed"} :
             /\ phase' = [phase EXCEPT ![r] = p]
             /\ p = "refused" => phase[r] = "idle"
             /\ p = "exited" => phase[r] = "running"
             /\ p = "read" => phase[r] = "exited"
             /\ p = "failed" => phase[r] \in {"exited", "half"}
             /\ inFlight' = IF p = "failed" THEN inFlight \ Paths(r) ELSE inFlight
    BY <2>1
  <2>3. phase' \in [Run -> Phase] BY <2>2 DEF Inv, LogsTypeOK, Phase, Active
  <2>4. \A q \in Run : q # r => Paths(q) \cap Paths(r) = {} BY DEF Paths, Captures, Log, Streams
  <2>5. \A q \in Run :
           /\ phase'[q] \in Active => /\ phase[q] \in Active /\ Paths(q) \cap inFlight \subseteq inFlight'
                                      /\ phase'[q] \in {"half", "combined"} => phase'[q] = phase[q]
           /\ phase[q] \in {"half", "combined"} => phase'[q] \in {phase[q], "failed"}
           /\ phase[q] \in {"failed", "returned"} => phase'[q] = phase[q]
           /\ phase'[q] = "idle" => phase[q] = "idle"
    <3> SUFFICES ASSUME NEW q \in Run
                 PROVE
           /\ phase'[q] \in Active => /\ phase[q] \in Active /\ Paths(q) \cap inFlight \subseteq inFlight'
                                      /\ phase'[q] \in {"half", "combined"} => phase'[q] = phase[q]
           /\ phase[q] \in {"half", "combined"} => phase'[q] \in {phase[q], "failed"}
           /\ phase[q] \in {"failed", "returned"} => phase'[q] = phase[q]
           /\ phase'[q] = "idle" => phase[q] = "idle"
      OBVIOUS
    <3>1. CASE q = r BY <3>1, <2>2 DEF Inv, LogsTypeOK, Active
    <3>2. CASE q # r
      <4>1. phase'[q] = phase[q] BY <3>2, <2>2 DEF Inv, LogsTypeOK
      <4>2. Paths(q) \cap inFlight \subseteq inFlight' BY <3>2, <2>2, <2>4
      <4> QED BY <4>1, <4>2
    <3> QED BY <3>1, <3>2
  <2>6. now \in Nat /\ deaths \in Nat /\ inFlight' \subseteq inFlight BY <2>2 DEF Inv, LogsTypeOK
  <2> QED BY <2>1, <2>3, <2>5, <2>6, QuietInv
<1>3. ASSUME NEW r \in Run, Start(r) PROVE Inv' BY <1>3, StartInv
<1>4. ASSUME NEW r \in Run, NEW s \in Streams, Write(r, s) PROVE Inv' BY <1>4, WriteInv
<1>5. ASSUME NEW r \in Run, CombineOut(r) \/ CombineErr(r) \/ Finish(r) PROVE Inv'
  BY <1>5, CombineOutInv, CombineErrInv, FinishInv
<1>6. CASE Tick BY <1>6, QuietInv DEF Tick, files, history, Inv, LogsTypeOK
<1>7. CASE Die
  <2>1. /\ UNCHANGED <<now, startedAt, size, mtime, wrote, seen, overBudget>>
        /\ deaths' \in Nat /\ inFlight' = {} /\ now \in Nat
        /\ phase' = [r \in Run |-> IF phase[r] = "running" THEN "orphan"
                                   ELSE IF phase[r] \in Active THEN "failed" ELSE phase[r]]
    BY <1>7 DEF Die, files, history, Inv, LogsTypeOK
  <2>2. phase' \in [Run -> Phase] BY <2>1 DEF Inv, LogsTypeOK, Phase
  <2>3. \A r \in Run :
           /\ phase'[r] \notin Active
           /\ phase[r] \in {"half", "combined"} => phase'[r] \in {phase[r], "failed"}
           /\ phase[r] \in {"failed", "returned"} => phase'[r] = phase[r]
           /\ phase'[r] = "idle" => phase[r] = "idle"
    BY <2>1 DEF Inv, LogsTypeOK, Phase, Active
  <2> QED BY <2>1, <2>2, <2>3, QuietInv DEF Inv, LogsTypeOK
<1> QED BY <1>1, <1>2, <1>3, <1>4, <1>5, <1>6, <1>7 DEF LogsNext

\* The states of Spec are well typed, and satisfy what the theorems below rest on.
THEOREM LogsTyping == LogsSpec => []LogsTypeOK
<1>1. Inv => LogsTypeOK BY DEF Inv
<1> QED BY <1>1, InitInv, NextInv, PTL DEF LogsSpec

\* The inductive invariant holds in every state of the logs and the runs that write them.
THEOREM Invariance == LogsSpec => []Inv
BY InitInv, NextInv, PTL DEF LogsSpec

-------------------------------------------------------------------------------
(* What is proved *)

\* Only the end of a run takes it from `combined` to `returned`.
LEMMA ReturnsIsFinish ==
  ASSUME Inv, [LogsNext]_logsVars, NEW r \in Run, Returns(r)
  PROVE  Finish(r)
<1>1. phase[r] = "combined" /\ phase'[r] = "returned" BY DEF Returns
<1>2. ~UNCHANGED logsVars BY <1>1 DEF logsVars
<1>3. ASSUME NEW q \in Run,
             Refuse(q) \/ Start(q) \/ ProcessEnds(q) \/ readCappedTail(q) \/ CombineFails(q)
                            \/ CombineOut(q) \/ CombineErr(q)
      PROVE  FALSE
  BY <1>1, <1>3
  DEF Refuse, Start, ProcessEnds, readCappedTail, CombineFails, Fail, CombineOut, CombineErr,
     Enter, Inv, LogsTypeOK
<1>4. ASSUME NEW q \in Run, NEW s \in Streams, Write(q, s) PROVE FALSE BY <1>1, <1>4 DEF Write
<1>5. ASSUME NEW q \in Run, Finish(q) PROVE Finish(r)
  <2>1. phase' = [phase EXCEPT ![q] = "returned"] BY <1>5 DEF Finish, Enter
  <2>2. q = r BY <2>1, <1>1 DEF Inv, LogsTypeOK
  <2> QED BY <2>2, <1>5
<1>6. ~Tick BY <1>1 DEF Tick
<1>7. ~Die BY <1>1 DEF Die, Active
<1> QED BY <1>2, <1>3, <1>4, <1>5, <1>6, <1>7 DEF LogsNext

\* The log a run returns is there and holds everything its process wrote, whatever other
\* runs swept meanwhile and whatever the budget (test-run.ts:56).
THEOREM PointersAreLive == LogsSpec => PointerIsLive
<1>1. Inv /\ [LogsNext]_logsVars => [\A r \in Run : Returns(r) =>
               Log(r) \in Disk' /\ size'[Log(r)] = wrote[r]["out"] + wrote[r]["err"]]_logsVars
  <2> SUFFICES ASSUME Inv, [LogsNext]_logsVars, NEW r \in Run, Returns(r)
               PROVE  Log(r) \in Disk' /\ size'[Log(r)] = wrote[r]["out"] + wrote[r]["err"]
    OBVIOUS
  <2>1. Finish(r) BY ReturnsIsFinish
  <2>2. phase[r] = "combined" BY DEF Returns
  <2>3. Log(r) \in Disk /\ size[Log(r)] = wrote[r]["out"] + wrote[r]["err"]
    BY <2>2 DEF Inv, Combined
  <2>4. Log(r) \in inFlight /\ Log(r) \notin Captures(r)
    BY <2>2, PathsApart DEF Inv, Registered, Active
  <2> QED BY <2>1, <2>3, <2>4, FinishKeeps
<1> QED BY <1>1, Invariance, PTL DEF LogsSpec, PointerIsLive

\* A sweep takes a finished run's log only if that log had been begun when the sweeping
\* run started: the set of paths covers the runs in flight, the time stamps the others.
THEOREM OlderSweepsSpareThem == LogsSpec => OlderSweepsSpareIt
<1>1. Inv /\ [LogsNext]_logsVars => [\A r, s \in Run :
             Returns(s) /\ Log(r) \in Disk \ Disk' /\ phase[r] = "returned" =>
               seen[s][r] \in {"half", "combined", "returned"}]_logsVars
  <2> SUFFICES ASSUME Inv, [LogsNext]_logsVars, NEW r \in Run, NEW s \in Run, Returns(s), Log(r) \in Disk \ Disk',
                      phase[r] = "returned"
               PROVE  seen[s][r] \in {"half", "combined", "returned"}
    OBVIOUS
  <2>1. Finish(s) BY ReturnsIsFinish
  <2>2. phase[s] \in Active BY DEF Returns, Active
  <2>3. mtime[Log(r)] < startedAt[s] BY <2>1, FinishKeeps, PathsApart
  <2>4. mtime[Log(r)] \in Nat /\ startedAt[s] \in Nat BY DEF Inv, LogsTypeOK
  <2>5. ~(mtime[Log(r)] >= startedAt[s]) BY <2>3, <2>4
  <2> QED BY <2>2, <2>5 DEF Inv, Later
<1> QED BY <1>1, Invariance, PTL DEF LogsSpec, OlderSweepsSpareIt

-------------------------------------------------------------------------------
(* One call, judged *)

\* Places of a list, counted: the smallest and the largest of those that have something.
LEMMA SmallestPlace ==
  ASSUME NEW S \in SUBSET Nat, S # {}
  PROVE \E i \in S : \A j \in S : i <= j
<1> DEFINE R == OpToRel(<, Nat)
<1>1. IsWellFoundedOn(R, Nat) BY NatLessThanWellFounded
<1>2. \A x, y \in Nat : y < x => <<y, x>> \in R BY DEF OpToRel
<1> HIDE DEF R
<1>3. PICK x \in S : \A y \in S : ~(<<y, x>> \in R) BY <1>1, WFMin
<1>4. \A y \in S : x <= y
  <2> TAKE y \in S
  <2>1. x \in Nat /\ y \in Nat /\ ~(y < x) BY <1>2, <1>3
  <2> QED BY <2>1
<1> QED BY <1>4

\* Induction up to a bound, over the set of places of which something holds.
LEMMA UpTo ==
  ASSUME NEW n \in Nat, NEW S, 0 \in S, \A k \in 1..n : k - 1 \in S => k \in S
  PROVE 0..n \subseteq S
<1> DEFINE bad == (0..n) \ S
<1>1. SUFFICES ASSUME bad # {} PROVE FALSE OBVIOUS
<1>2. bad \in SUBSET Nat OBVIOUS
<1>3. PICK k \in bad : \A j \in bad : k <= j BY <1>1, <1>2, SmallestPlace
<1>4. k \in 1..n /\ k - 1 \in 0..n /\ k - 1 \notin bad BY <1>3
<1> QED BY <1>3, <1>4

LEMMA LargestPlace ==
  ASSUME NEW n \in Nat, NEW S \in SUBSET (1..n), S # {}
  PROVE Max(S) \in S /\ \A j \in S : j <= Max(S)
<1> DEFINE T == {n - i : i \in S}
<1>0. \A i \in S : i \in 1..n /\ n - i \in Nat OBVIOUS
<1>1. T \in SUBSET Nat /\ T # {} BY <1>0
<1>2. PICK t \in T : \A u \in T : t <= u BY <1>1, SmallestPlace
<1>3. PICK i \in S : t = n - i BY <1>2
<1>4. \A j \in S : j <= i
  <2> TAKE j \in S
  <2>1. n - j \in T OBVIOUS
  <2> QED BY <1>2, <1>3, <2>1
<1>5. \E x \in S : \A y \in S : x >= y BY <1>4
<1>6. Max(S) \in S /\ \A y \in S : Max(S) >= y BY <1>5 DEF Max
<1> QED BY <1>6

LEMMA LastPlace ==
  ASSUME NEW k \in Nat, NEW s \in SUBSET (1..(k + 1)), s # {}
  PROVE /\ s \subseteq 1..k => Max(s) \in 1..k
        /\ ~(s \subseteq 1..k) => Max(s) = k + 1
        /\ s \ {Max(s)} \in SUBSET (1..k)
<1>1. k + 1 \in Nat OBVIOUS
<1>2. PICK m : m = Max(s) OBVIOUS
<1>3. m \in s /\ \A j \in s : j <= m BY <1>1, <1>2, LargestPlace
<1>4. \A j \in s \ {m} : j \in 1..k BY <1>3
<1>5. ~(s \subseteq 1..k) => m = k + 1 BY <1>3
<1> QED BY <1>2, <1>3, <1>4, <1>5

\* The lists of rules a behaviour may start with; fewer of them are such a list again.
Accepted == {Restrict(Rules, places) : places \in SUBSET DOMAIN Rules}

LEMMA AcceptedRules ==
  ASSUME NEW rules \in Accepted
  PROVE /\ DOMAIN rules \subseteq Nat
        /\ \A i \in DOMAIN rules :
             /\ rules[i].id # None
             /\ rules[i].pattern \in {"no_push_protected", "no_push", "path_deny", "command_deny"}
        /\ \A places \in SUBSET DOMAIN rules :
             /\ Restrict(rules, places) \in Accepted /\ DOMAIN Restrict(rules, places) = places
             /\ \A i \in places : Restrict(rules, places)[i] = rules[i]
<1>1. PICK there \in SUBSET DOMAIN Rules : rules = Restrict(Rules, there) BY DEF Accepted
<1>2. DOMAIN rules = there /\ \A i \in there : rules[i] = Rules[i] BY <1>1 DEF Restrict
<1>3. ASSUME NEW places \in SUBSET DOMAIN rules
      PROVE /\ Restrict(rules, places) \in Accepted /\ DOMAIN Restrict(rules, places) = places
            /\ \A i \in places : Restrict(rules, places)[i] = rules[i]
  <2>1. Restrict(rules, places) = Restrict(Rules, places) BY <1>2 DEF Restrict
  <2> QED BY <1>2, <2>1 DEF Accepted, Restrict
<1> QED BY <1>2, <1>3, VerdictsAssumption

\* A pass denies exactly when one of its rules does.
LEMMA PassDenies ==
  ASSUME NEW rules \in Accepted, NEW what, NEW world
  PROVE RulePass(rules, what, world).violated = None <=> \A i \in DOMAIN rules : ~Denies(rules[i], what, world)
<1> DEFINE denying == {i \in DOMAIN rules : Denies(rules[i], what, world)}
           first == CHOOSE i \in denying : \A j \in denying : i <= j
<1>0. DOMAIN rules \subseteq Nat /\ \A i \in DOMAIN rules : rules[i].id # None BY AcceptedRules
<1>1. CASE denying = {} BY <1>1 DEF RulePass
<1>2. CASE denying # {}
  <2>1. first \in denying
    <3>1. \E i \in denying : \A j \in denying : i <= j BY <1>0, <1>2, SmallestPlace
    <3> QED BY <3>1
  <2>2. RulePass(rules, what, world).violated = rules[first].id BY <1>2 DEF RulePass
  <2> HIDE DEF first
  <2> QED BY <1>0, <2>1, <2>2
<1> QED BY <1>1, <1>2

LEMMA EveryAtomIsJudged ==
  ASSUME NEW as, NEW tokens PROVE AtomVerdict(as, tokens) \in Verdict
<1>1. ASSUME NEW paths PROVE VerifyPaths(paths) \in Verdict BY DEF VerifyPaths, Verdict
<1>2. BenignVerdict(tokens) \in Verdict BY <1>1 DEF BenignVerdict, Verdict
<1>3. EngineerAtom(tokens) \in Verdict BY <1>1, <1>2 DEF EngineerAtom, Verdict
<1>4. ReviewerAtom(tokens) \in Verdict BY DEF ReviewerAtom, Verdict
<1> QED BY <1>3, <1>4 DEF AtomVerdict

LEMMA EveryCallIsJudged ==
  ASSUME NEW as, NEW what PROVE VerdictOn(as, what) \in Verdict
<1>1. ASSUME NEW command PROVE CommandVerdict(as, command) \in Verdict
  BY EveryAtomIsJudged DEF CommandVerdict, Verdict
<1>2. RoleVerdict(as, what) \in Verdict BY <1>1 DEF RoleVerdict, EditVerdict, Verdict
<1> QED BY <1>2 DEF VerdictOn, Verdict

\* What is allowed: the policy allows it, no rule denies it, and the agent offers it.
LEMMA AllowedExactly ==
  ASSUME NEW verdict \in Verdict, NEW pass, NEW request
  PROVE Answer(verdict, pass, request).kind = "allow" <=>
          verdict = "allow" /\ pass.violated = None /\ "allow_once" \in request.options
  BY DEF Answer, Offer, Decision, Verdict, NoRules

LEMMA DecidedExactly ==
  ASSUME NEW as, NEW request, NEW rules \in Accepted, NEW world
  PROVE DecidePermission(as, request, rules, world).kind = "allow" <=>
          /\ VerdictOn(as, Classify(request)) = "allow" /\ "allow_once" \in request.options
          /\ PassOf(rules, Classify(request), world).violated = None
  BY EveryCallIsJudged, AllowedExactly DEF DecidePermission

\* The invariant: the record of the last call is what the tier decided of it.
JudgedAs(tier, whats, Decided(_, _)) ==
  \E what \in whats, world \in World :
    call = [at |-> tier, what |-> what, world |-> world, result |-> Decided(what, world)]
RecordIsDecision ==
  /\ role \in {"engineer", "reviewer"} /\ accepted \in Accepted
  /\ call # NoCall =>
       \/ JudgedAs("acp", Request, LAMBDA what, world : DecidePermission(role, what, accepted, world))
       \/ JudgedAs("hook", Payload, LAMBDA what, world : GateVerdict(role, what, accepted, world))

\* What is recorded of a call is what decidePermission, or the gate of the hook, answers to
\* it under the role and the rules of the behaviour: the invariant the next three rest on.
THEOREM RecordsAreDecisions == VerdictsSpec => []RecordIsDecision
<1>1. VerdictsInit => RecordIsDecision BY DEF VerdictsInit, RecordIsDecision, Accepted
<1>2. RecordIsDecision /\ [VerdictsNext]_verdictsVars => RecordIsDecision'
  <2> SUFFICES ASSUME RecordIsDecision, [VerdictsNext]_verdictsVars PROVE RecordIsDecision' OBVIOUS
  <2>1. ASSUME NEW request \in Request, NEW world \in World, AtRequest(request, world) PROVE RecordIsDecision'
    BY <2>1 DEF RecordIsDecision, AtRequest, Judged, JudgedAs
  <2>2. ASSUME NEW payload \in Payload, NEW world \in World, AtHook(payload, world) PROVE RecordIsDecision'
    BY <2>2 DEF RecordIsDecision, AtHook, Judged, JudgedAs
  <2>3. CASE UNCHANGED verdictsVars BY <2>3 DEF RecordIsDecision, JudgedAs, verdictsVars
  <2> QED BY <2>1, <2>2, <2>3 DEF VerdictsNext
<1> QED BY <1>1, <1>2, PTL DEF VerdictsSpec

LEMMA AskedIsDecided ==
  ASSUME RecordIsDecision, Asked
  PROVE /\ call.what \in Request /\ call.world \in World /\ accepted \in Accepted
        /\ call.result = DecidePermission(role, call.what, accepted, call.world)
  BY DEF RecordIsDecision, Asked, JudgedAs

LEMMA HookedIsDecided ==
  ASSUME RecordIsDecision, Hooked
  PROVE /\ call.what \in Payload /\ call.world \in World /\ accepted \in Accepted
        /\ call.result = GateVerdict(role, call.what, accepted, call.world)
  BY DEF RecordIsDecision, Hooked, JudgedAs

LEMMA FewerRulesDenyLess ==
  ASSUME NEW as, NEW request, NEW world, NEW rules \in Accepted, NEW places \in SUBSET DOMAIN rules,
         DecidePermission(as, request, rules, world).kind = "allow"
  PROVE DecidePermission(as, request, Restrict(rules, places), world).kind = "allow"
<1>1. Restrict(rules, places) \in Accepted /\ DOMAIN Restrict(rules, places) = places
      /\ \A i \in places : Restrict(rules, places)[i] = rules[i] BY AcceptedRules
<1>2. VerdictOn(as, Classify(request)) = "allow" /\ "allow_once" \in request.options
      /\ PassOf(rules, Classify(request), world).violated = None BY DecidedExactly
<1>3. PassOf(Restrict(rules, places), Classify(request), world).violated = None
  BY <1>1, <1>2, PassDenies DEF PassOf
<1> QED BY <1>1, <1>2, <1>3, DecidedExactly

\* runPatternRules: for any accepted rules and any call that they let through, the call is let
\* through without any one of them.
THEOREM RulesOnlyEverRestrict == VerdictsSpec => []RulesOnlyRestrict
<1>1. RecordIsDecision => RulesOnlyRestrict
  BY AskedIsDecided, FewerRulesDenyLess DEF RulesOnlyRestrict
<1> QED BY <1>1, RecordsAreDecisions, PTL

\* With no rules in scope the answer is the verdict of the policy.
LEMMA NoRulesNoDenial ==
  ASSUME NEW as, NEW request, NEW world, {"allow_once", "reject_once"} \subseteq request.options
  PROVE DecidePermission(as, request, <<>>, world).kind = VerdictOn(as, Classify(request))
<1>1. PassOf(<<>>, Classify(request), world) = [evaluated |-> {}, violated |-> None]
  BY DEF PassOf, RulePass
<1>2. VerdictOn(as, Classify(request)) \in Verdict BY EveryCallIsJudged
<1>3. ASSUME NEW verdict \in Verdict PROVE Answer(verdict, NoRules, request).kind = verdict
  <2>1. CASE verdict = "hil" BY <2>1 DEF Answer, Decision
  <2>2. CASE verdict = "deny" BY <2>2 DEF Answer, Offer, Decision
  <2>3. CASE verdict = "allow" BY <2>3 DEF Answer, Decision, NoRules
  <2> QED BY <2>1, <2>2, <2>3 DEF Verdict
<1> QED BY <1>1, <1>2, <1>3 DEF DecidePermission, NoRules

\* Both tiers hand their rules the same record of one of the agent's own tools.
LEMMA TiersReadAlike ==
  ASSUME NEW payload \in Payload, ToolKind(payload) # "none", payload.tool \in PathBearing \cup {"Bash"},
         NEW rules, NEW world
  PROVE /\ ~(payload.tool \in {"Read", "Grep"})
        /\ HookRules(payload, rules, world) = PassOf(rules, Classify(AsRequest(payload)), world)
<1>1. ~payload.edits /\ (payload.tool # "Bash" => payload.command = {}) BY VerdictsAssumption
<1>2. CASE payload.tool \in EditTools
  <2>1. ToolKind(payload) = "edit" /\ payload.tool # "Bash" BY <1>2 DEF ToolKind, EditTools
  <2>2. payload.command = {} BY <1>1, <2>1
  <2>3. Classify(AsRequest(payload)).command = {} /\ Classify(AsRequest(payload)).class = "edit"
        /\ Classify(AsRequest(payload)).paths = payload.path
    BY <2>1 DEF Classify, AsRequest, ToolClass
  <2> QED BY <1>2, <2>1, <2>2, <2>3 DEF HookRules, PassOf, PathBearing, EditTools
<1>3. CASE payload.tool = "Bash"
  <2>1. ToolKind(payload) = "execute" BY <1>1, <1>3 DEF ToolKind, EditTools
  <2>2. payload.tool \notin PathBearing BY <1>3 DEF PathBearing, EditTools
  <2>3. Classify(AsRequest(payload)).command = payload.command
        /\ Classify(AsRequest(payload)).class = "execute" /\ Classify(AsRequest(payload)).paths = {}
    BY <2>1 DEF Classify, AsRequest, ToolClass
  <2> QED BY <1>3, <2>1, <2>2, <2>3 DEF HookRules, PassOf
<1> QED BY <1>1, <1>2, <1>3 DEF ToolKind

\* patternRuleVerdict and roleToolVerdict: the hook judges a call of a built-in tool as the
\* ACP responder does, and counts the same rules, for any rules, payloads and worlds.
THEOREM TiersAlwaysAgree == VerdictsSpec => []TiersAgree
<1>1. ASSUME NEW payload \in Payload, ToolKind(payload) # "none", payload.tool \in PathBearing \cup {"Bash"},
             NEW as, NEW rules, NEW world
      PROVE LET hook == GateVerdict(as, payload, rules, world)
                acp == DecidePermission(as, AsRequest(payload), rules, world) IN
            hook.kind = acp.kind /\ (hook.evaluated = acp.evaluated \/ (hook.kind = "deny" /\ acp.evaluated = {}))
  <2> DEFINE pass == PassOf(rules, Classify(AsRequest(payload)), world)
             verdict == VerdictOn(as, Classify(AsRequest(payload)))
  <2>1. {"allow_once", "reject_once"} = AsRequest(payload).options BY DEF AsRequest
  <2>2. DecidePermission(as, AsRequest(payload), <<>>, world).kind = verdict BY <2>1, NoRulesNoDenial
  <2>3. GateVerdict(as, payload, rules, world) = Gate(FALSE, verdict, pass)
    BY <1>1, <2>2, TiersReadAlike DEF GateVerdict
  <2>4. DecidePermission(as, AsRequest(payload), rules, world) = Answer(verdict, pass, AsRequest(payload))
    BY DEF DecidePermission
  <2>5. verdict \in Verdict BY EveryCallIsJudged
  <2> HIDE DEF pass, verdict
  <2> DEFINE hook == Gate(FALSE, verdict, pass)
             acp == Answer(verdict, pass, AsRequest(payload))
  <2>6. SUFFICES hook.kind = acp.kind
                 /\ (hook.evaluated = acp.evaluated \/ (hook.kind = "deny" /\ acp.evaluated = {}))
    BY <2>3, <2>4
  <2>7. CASE verdict = "hil" BY <2>7 DEF Gate, Answer
  <2>8. CASE verdict = "deny"
    <3>1. acp = Decision("deny", "reject_once", NoRules) BY <2>1, <2>8 DEF Answer, Offer
    <3>2. hook.kind = "deny" BY <2>8 DEF Gate, Decision
    <3> HIDE DEF hook, acp
    <3>3. acp.kind = "deny" /\ acp.evaluated = {} BY <3>1 DEF Decision, NoRules
    <3> QED BY <3>2, <3>3
  <2>9. CASE verdict = "allow" /\ pass.violated = None
    <3>1. acp = Decision("allow", "allow_once", pass) BY <2>1, <2>9 DEF Answer
    <3>2. hook = Decision("allow", None, pass) BY <2>9 DEF Gate
    <3> HIDE DEF hook, acp
    <3>3. hook.kind = acp.kind /\ hook.evaluated = acp.evaluated BY <3>1, <3>2 DEF Decision
    <3> QED BY <3>3
  <2>10. CASE verdict = "allow" /\ pass.violated # None
    <3>1. acp = Decision("deny", "reject_once", pass) BY <2>1, <2>10 DEF Answer, Offer
    <3>2. hook = Decision("deny", None, pass) BY <2>10 DEF Gate
    <3> HIDE DEF hook, acp
    <3>3. hook.kind = acp.kind /\ hook.evaluated = acp.evaluated BY <3>1, <3>2 DEF Decision
    <3> QED BY <3>3
  <2> QED BY <2>5, <2>7, <2>8, <2>9, <2>10 DEF Verdict
<1>2. RecordIsDecision => TiersAgree
  BY <1>1, HookedIsDecided DEF TiersAgree
<1> QED BY <1>2, RecordsAreDecisions, PTL

-------------------------------------------------------------------------------
(* The folds of the policy, one item at a time *)

\* The three folds of the policy, by what they do with one more item.
Step(kind, state, item, world) ==
  CASE kind = "segment" -> AddSegment(state, item)
    [] kind = "line" -> AddAtom(state, item)
    [] kind = "git" -> ReadGit(state, item, world)

IsFold(kind, base, items, world, n, f) ==
  f = [s \in SUBSET (1..n) |->
         IF s = {} THEN base ELSE Step(kind, f[s \ {Max(s)}], items[Max(s)], world)]

IsStepwise(kind, base, items, world, n, upto) ==
  upto[0] = base /\ \A k \in 1..n : upto[k] = Step(kind, upto[k - 1], items[k], world)

LEMMA OneMoreItem ==
  ASSUME NEW kind, NEW base, NEW items, NEW world, NEW k \in Nat, NEW f,
         IsFold(kind, base, items, world, k, f)
  PROVE \E g : IsFold(kind, base, items, world, k + 1, g)
<1> DEFINE g == [s \in SUBSET (1..(k + 1)) |->
                   IF s \subseteq 1..k THEN f[s] ELSE Step(kind, f[s \ {k + 1}], items[k + 1], world)]
<1>1. ASSUME NEW s \in SUBSET (1..(k + 1))
      PROVE g[s] = IF s = {} THEN base ELSE Step(kind, g[s \ {Max(s)}], items[Max(s)], world)
  <2>1. CASE s = {} BY <2>1 DEF IsFold
  <2>2. CASE s # {} /\ s \subseteq 1..k
    <3>1. Max(s) \in 1..k BY <2>2, LastPlace
    <3>2. g[s] = f[s] /\ g[s \ {Max(s)}] = f[s \ {Max(s)}] BY <2>2
    <3> QED BY <2>2, <3>1, <3>2 DEF IsFold
  <2>3. CASE s # {} /\ ~(s \subseteq 1..k)
    <3>1. Max(s) = k + 1 /\ s \ {k + 1} \in SUBSET (1..k) BY <2>3, LastPlace
    <3>2. s \ {k + 1} \in SUBSET (1..(k + 1)) OBVIOUS
    <3>3. g[s \ {k + 1}] = f[s \ {k + 1}] BY <3>1, <3>2
    <3> QED BY <2>3, <3>1, <3>3
  <2> QED BY <2>1, <2>2, <2>3
<1>2. IsFold(kind, base, items, world, k + 1, g) BY <1>1 DEF IsFold
<1> QED BY <1>2

LEMMA FoldExists ==
  ASSUME NEW kind, NEW base, NEW items, NEW world, NEW n \in Nat
  PROVE \E f : IsFold(kind, base, items, world, n, f)
<1> DEFINE good == {k \in 0..n : \E f : IsFold(kind, base, items, world, k, f)}
<1>1. 0 \in good
  <2>1. IsFold(kind, base, items, world, 0, [s \in SUBSET (1..0) |-> base]) BY DEF IsFold
  <2> QED BY <2>1
<1>2. \A k \in 1..n : k - 1 \in good => k \in good
  <2> SUFFICES ASSUME NEW k \in 1..n, k - 1 \in good PROVE k \in good OBVIOUS
  <2>1. k - 1 \in Nat /\ (k - 1) + 1 = k OBVIOUS
  <2>2. PICK f : IsFold(kind, base, items, world, k - 1, f) OBVIOUS
  <2> QED BY <2>1, <2>2, OneMoreItem
<1> HIDE DEF good
<1>3. 0..n \subseteq good BY <1>1, <1>2, UpTo
<1>4. n \in good BY <1>3
<1> QED BY <1>4 DEF good

LEMMA FoldIsStepwise ==
  ASSUME NEW kind, NEW base, NEW items, NEW world, NEW n \in Nat, NEW f,
         IsFold(kind, base, items, world, n, f)
  PROVE \E upto : IsStepwise(kind, base, items, world, n, upto) /\ upto[n] = f[1..n]
<1> DEFINE upto == [k \in 0..n |-> f[1..k]]
<1>1. upto[0] = base BY DEF IsFold
<1>2. ASSUME NEW k \in 1..n PROVE upto[k] = Step(kind, upto[k - 1], items[k], world)
  <2>0. k \in Nat /\ 1..k \in SUBSET (1..k) /\ k \in 1..k OBVIOUS
  <2>1. Max(1..k) \in 1..k /\ \A j \in 1..k : j <= Max(1..k) BY <2>0, LargestPlace
  <2>2. Max(1..k) = k BY <2>0, <2>1
  <2>3. (1..k) \ {k} = 1..(k - 1) /\ k - 1 \in 0..n /\ 1..k # {} /\ 1..k \in SUBSET (1..n)
    <3>1. (1..k) \ {k} = 1..(k - 1) OBVIOUS
    <3>2. k - 1 \in 0..n /\ 1..k # {} OBVIOUS
    <3>3. 1..k \in SUBSET (1..n) OBVIOUS
    <3> QED BY <3>1, <3>2, <3>3
  <2>4. f[1..k] = Step(kind, f[(1..k) \ {k}], items[k], world) BY <2>2, <2>3 DEF IsFold
  <2>5. k \in 0..n OBVIOUS
  <2>6. upto[k] = f[1..k] /\ upto[k - 1] = f[1..(k - 1)] BY <2>3, <2>5
  <2> QED BY <2>3, <2>4, <2>6
<1>3. upto[n] = f[1..n] OBVIOUS
<1> HIDE DEF upto
<1>4. IsStepwise(kind, base, items, world, n, upto) BY <1>1, <1>2 DEF IsStepwise
<1> QED BY <1>3, <1>4

LEMMA AtomsStepwise ==
  ASSUME NEW n \in Nat, NEW segments, DOMAIN segments = 1..n
  PROVE \E upto : /\ IsStepwise("segment", <<>>, segments, None, n, upto)
                  /\ FoldLeft(AddSegment, <<>>, segments) = upto[n]
<1> DEFINE iter == CHOOSE f : f = [s \in SUBSET (1..n) |->
                     IF s = {} THEN <<>> ELSE AddSegment(f[s \ {Max(s)}], segments[Max(s)])]
<1>1. FoldLeft(AddSegment, <<>>, segments) = iter[1..n] BY DEF FoldLeft, MapThenFoldSet
<1>2. ASSUME NEW f
      PROVE IsFold("segment", <<>>, segments, None, n, f) <=>
              f = [s \in SUBSET (1..n) |->
                     IF s = {} THEN <<>> ELSE AddSegment(f[s \ {Max(s)}], segments[Max(s)])]
  BY DEF IsFold, Step
<1>3. \E f : IsFold("segment", <<>>, segments, None, n, f) BY FoldExists
<1>4. IsFold("segment", <<>>, segments, None, n, iter) BY <1>2, <1>3
<1> HIDE DEF iter
<1> QED BY <1>1, <1>4, FoldIsStepwise

LEMMA ScriptStepwise ==
  ASSUME NEW n \in Nat, NEW script, DOMAIN script = 1..n
  PROVE \E upto : /\ IsStepwise("line", <<>>, script, None, n, upto)
                  /\ AtomsOfScript(script) = upto[n]
<1> DEFINE iter == CHOOSE f : f = [s \in SUBSET (1..n) |->
                     IF s = {} THEN <<>> ELSE AddAtom(f[s \ {Max(s)}], script[Max(s)])]
<1>1. AtomsOfScript(script) = iter[1..n] BY DEF AtomsOfScript, FoldLeft, MapThenFoldSet
<1>2. ASSUME NEW f
      PROVE IsFold("line", <<>>, script, None, n, f) <=>
              f = [s \in SUBSET (1..n) |->
                     IF s = {} THEN <<>> ELSE AddAtom(f[s \ {Max(s)}], script[Max(s)])]
  BY DEF IsFold, Step
<1>3. \E f : IsFold("line", <<>>, script, None, n, f) BY FoldExists
<1>4. IsFold("line", <<>>, script, None, n, iter) BY <1>2, <1>3
<1> HIDE DEF iter
<1> QED BY <1>1, <1>4, FoldIsStepwise

Unread(world) == [onto |-> world.head, denied |-> FALSE]

LEMMA GitStepwise ==
  ASSUME NEW n \in Nat, NEW command, NEW world, DOMAIN Atoms(command) = 1..n
  PROVE \E upto : /\ IsStepwise("git", Unread(world), Atoms(command), world, n, upto)
                  /\ WritesProtectedBranch(command, world) <=> command.unsafe \/ upto[n].denied
<1> DEFINE atoms == Atoms(command)
           base == Unread(world)
           iter == CHOOSE f : f = [s \in SUBSET (1..n) |->
                     IF s = {} THEN base ELSE ReadGit(f[s \ {Max(s)}], atoms[Max(s)], world)]
<1> HIDE DEF base, atoms
<1>1. FoldLeft(LAMBDA state, atom : ReadGit(state, atom, world), base, atoms) = iter[1..n]
  BY DEF FoldLeft, MapThenFoldSet, atoms
<1>2. ASSUME NEW f
      PROVE IsFold("git", base, atoms, world, n, f) <=>
              f = [s \in SUBSET (1..n) |->
                     IF s = {} THEN base ELSE ReadGit(f[s \ {Max(s)}], atoms[Max(s)], world)]
  BY DEF IsFold, Step
<1>3. \E f : IsFold("git", base, atoms, world, n, f) BY FoldExists
<1>4. IsFold("git", base, atoms, world, n, iter) BY <1>2, <1>3
<1>5. WritesProtectedBranch(command, world) <=> command.unsafe \/ iter[1..n].denied
  <2>1. WritesProtectedBranch(command, world) <=>
          command.unsafe \/ FoldLeft(LAMBDA state, atom : ReadGit(state, atom, world), base, atoms).denied
    BY DEF WritesProtectedBranch, base, atoms, Unread
  <2> HIDE DEF iter
  <2> QED BY <1>1, <2>1
<1> HIDE DEF iter
<1>6. PICK upto : IsStepwise("git", base, atoms, world, n, upto) /\ upto[n] = iter[1..n] BY <1>4, FoldIsStepwise
<1>7. WritesProtectedBranch(command, world) <=> command.unsafe \/ upto[n].denied BY <1>5, <1>6
<1> QED BY <1>6, <1>7 DEF base, atoms

-------------------------------------------------------------------------------
(* What a command's atoms are *)

IsList(s) == s \in Seq(Range(s))

LEMMA Lists ==
  /\ IsList(<<>>) /\ Range(<<>>) = {}
  /\ \A S : \A s \in Seq(S) : IsList(s)
<1>1. <<>> \in Seq({}) /\ Range(<<>>) = {} BY DEF Range
<1>2. ASSUME NEW S, NEW s \in Seq(S) PROVE s \in Seq(Range(s))
  <2>1. s \in [1..Len(s) -> S] /\ Len(s) \in Nat OBVIOUS
  <2>2. s \in [1..Len(s) -> Range(s)] BY <2>1 DEF Range
  <2> QED BY <2>1, <2>2
<1> QED BY <1>1, <1>2 DEF IsList

LEMMA ListPlaces ==
  ASSUME NEW s, IsList(s)
  PROVE Len(s) \in Nat /\ DOMAIN s = 1..Len(s) /\ Range(s) = {s[i] : i \in 1..Len(s)}
  BY DEF IsList, Range

LEMMA OneMore ==
  ASSUME NEW s, IsList(s), NEW x
  PROVE IsList(Append(s, x)) /\ Range(Append(s, x)) = Range(s) \cup {x} /\ Len(Append(s, x)) = Len(s) + 1
<1> DEFINE S == Range(s) \cup {x}
<1>1. Range(s) \subseteq S OBVIOUS
<1>2. s \in Seq(S) BY <1>1 DEF IsList
<1>3. Append(s, x) \in Seq(S) /\ Len(Append(s, x)) = Len(s) + 1 BY <1>2
<1>4. IsList(Append(s, x)) BY <1>3, Lists
<1>5. \A i \in 1..Len(s) : Append(s, x)[i] = s[i] BY <1>2
<1>6. Append(s, x)[Len(s) + 1] = x BY <1>2
<1>7. Len(s) \in Nat /\ Range(s) = {s[i] : i \in 1..Len(s)} BY ListPlaces
<1>8. Range(Append(s, x)) = {Append(s, x)[i] : i \in 1..(Len(s) + 1)} BY <1>3, <1>4, ListPlaces
<1> HIDE DEF S
<1>9. 1..(Len(s) + 1) = 1..Len(s) \cup {Len(s) + 1} BY <1>7
<1>10. Range(Append(s, x)) = {Append(s, x)[i] : i \in 1..Len(s)} \cup {Append(s, x)[Len(s) + 1]}
  BY <1>8, <1>9
<1>11. {Append(s, x)[i] : i \in 1..Len(s)} = {s[i] : i \in 1..Len(s)} BY <1>5
<1> QED BY <1>3, <1>4, <1>6, <1>7, <1>10, <1>11

LEMMA Joined ==
  ASSUME NEW s, IsList(s), NEW t, IsList(t)
  PROVE IsList(s \o t) /\ Range(s \o t) = Range(s) \cup Range(t)
<1> DEFINE S == Range(s) \cup Range(t)
<1>1. Range(s) \subseteq S /\ Range(t) \subseteq S OBVIOUS
<1>2. s \in Seq(S) /\ t \in Seq(S) BY <1>1 DEF IsList
<1>3. s \o t \in Seq(S) /\ Len(s \o t) = Len(s) + Len(t) BY <1>2
<1>4. IsList(s \o t) BY <1>3, Lists
<1>5. /\ \A i \in 1..Len(s) : (s \o t)[i] = s[i]
      /\ \A i \in 1..Len(t) : (s \o t)[Len(s) + i] = t[i]
  BY <1>2
<1>6. /\ Len(s) \in Nat /\ Range(s) = {s[i] : i \in 1..Len(s)}
      /\ Len(t) \in Nat /\ Range(t) = {t[i] : i \in 1..Len(t)}
  BY ListPlaces
<1>7. Range(s \o t) = {(s \o t)[i] : i \in 1..(Len(s) + Len(t))} BY <1>3, <1>4, ListPlaces
<1>8. Range(s \o t) \subseteq Range(s) \cup Range(t) BY <1>3 DEF Range
<1>9. Range(s) \subseteq Range(s \o t)
  <2>1. \A i \in 1..Len(s) : i \in 1..(Len(s) + Len(t)) BY <1>6
  <2> QED BY <1>5, <1>6, <1>7, <2>1
<1>10. Range(t) \subseteq Range(s \o t)
  <2>1. \A i \in 1..Len(t) : Len(s) + i \in 1..(Len(s) + Len(t)) BY <1>6
  <2> QED BY <1>5, <1>6, <1>7, <2>1
<1> QED BY <1>4, <1>8, <1>9, <1>10

LEMMA WithoutFirst ==
  ASSUME NEW s, IsList(s), s # <<>>
  PROVE IsList(Tail(s)) /\ Range(s) = {s[1]} \cup Range(Tail(s)) /\ 1 \in DOMAIN s
<1> DEFINE S == Range(s)
<1>1. s \in Seq(S) /\ s # <<>> BY DEF IsList
<1> HIDE DEF S
<1>2. Tail(s) \in Seq(S) /\ Len(s) \in Nat /\ Len(s) >= 1 /\ Len(Tail(s)) = Len(s) - 1 BY <1>1
<1>3. \A i \in 1..(Len(s) - 1) : Tail(s)[i] = s[i + 1] BY <1>1
<1>4. IsList(Tail(s)) BY <1>2, Lists
<1>5. Range(s) = {s[i] : i \in 1..Len(s)} /\ DOMAIN s = 1..Len(s) BY ListPlaces
<1>6. Range(Tail(s)) = {Tail(s)[i] : i \in 1..(Len(s) - 1)} BY <1>2, <1>4, ListPlaces
<1>7. Range(Tail(s)) \subseteq Range(s)
  <2>1. \A i \in 1..(Len(s) - 1) : i + 1 \in 1..Len(s) BY <1>2
  <2> QED BY <1>3, <1>5, <1>6, <2>1
<1>8. \A i \in 1..Len(s) : i # 1 => s[i] \in Range(Tail(s))
  <2> SUFFICES ASSUME NEW i \in 1..Len(s), i # 1 PROVE s[i] \in Range(Tail(s)) OBVIOUS
  <2>1. i - 1 \in 1..(Len(s) - 1) /\ (i - 1) + 1 = i BY <1>2
  <2> QED BY <1>3, <1>6, <2>1
<1>9. 1 \in 1..Len(s) BY <1>2
<1> QED BY <1>4, <1>5, <1>7, <1>8, <1>9

\* The lines of a script: one atom each.
LEMMA ScriptAtoms ==
  ASSUME NEW script \in Seq(ScriptLine)
  PROVE /\ IsList(AtomsOfScript(script)) /\ Len(AtomsOfScript(script)) = Len(script)
        /\ \A i \in DOMAIN script :
             \E atom \in Range(AtomsOfScript(script)) : atom.tokens = StripPrefixes(script[i].words)
<1> DEFINE n == Len(script)
<1>1. n \in Nat /\ DOMAIN script = 1..n OBVIOUS
<1> HIDE DEF n
<1>2. PICK upto : IsStepwise("line", <<>>, script, None, n, upto) /\ AtomsOfScript(script) = upto[n]
  BY <1>1, ScriptStepwise
<1>3. upto[0] = <<>> /\ \A k \in 1..n : upto[k] = AddAtom(upto[k - 1], script[k])
  BY <1>2 DEF IsStepwise, Step
<1> DEFINE Holds(k) == /\ IsList(upto[k]) /\ Len(upto[k]) = k
                       /\ \A i \in 1..k : \E atom \in Range(upto[k]) : atom.tokens = StripPrefixes(script[i].words)
           good == {k \in 0..n : Holds(k)}
<1>4. 0 \in good
  <2>1. Holds(0) BY <1>3, Lists
  <2> QED BY <1>1, <2>1
<1>5. ASSUME NEW k \in 1..n, k - 1 \in good PROVE k \in good
  <2> DEFINE new == Atom(StripPrefixes(script[k].words), script[k].pipe, upto[k - 1])
  <2>1. upto[k] = Append(upto[k - 1], new) BY <1>3 DEF AddAtom
  <2>2. new.tokens = StripPrefixes(script[k].words) BY DEF Atom
  <2>3. Holds(k - 1) BY <1>5
  <2> HIDE DEF new
  <2>4. IsList(upto[k]) /\ Range(upto[k]) = Range(upto[k - 1]) \cup {new} /\ Len(upto[k]) = Len(upto[k - 1]) + 1
    BY <2>1, <2>3, OneMore
  <2>5. Len(upto[k]) = k BY <2>3, <2>4
  <2>6. ASSUME NEW i \in 1..k PROVE \E atom \in Range(upto[k]) : atom.tokens = StripPrefixes(script[i].words)
    <3>1. CASE i = k BY <2>2, <2>4, <3>1
    <3>2. CASE i # k
      <4>1. i \in 1..(k - 1) BY <3>2
      <4> QED BY <2>3, <2>4, <4>1
    <3> QED BY <3>1, <3>2
  <2>7. Holds(k) BY <2>4, <2>5, <2>6
  <2>8. k \in 0..n BY <1>1
  <2> QED BY <2>7, <2>8
<1> HIDE DEF good
<1>6. 0..n \subseteq good BY <1>1, <1>4, <1>5, UpTo
<1>7. n \in good BY <1>1, <1>6
<1>8. Holds(n) BY <1>7 DEF good
<1> QED BY <1>1, <1>2, <1>8 DEF n

\* What one segment adds, after the atoms before it.
Added(segment, before) ==
  IF IsShellDashC(segment)
  THEN {Atom(AtomsOfScript(segment.script)[1].tokens, segment.pipe, before)}
         \cup Range(Tail(AtomsOfScript(segment.script)))
  ELSE {Atom(StripPrefixes(segment.words), segment.pipe, before)}

LEMMA SegmentAdds ==
  ASSUME NEW segment, segment.script \in Seq(ScriptLine), NEW before, IsList(before)
  PROVE /\ IsList(AddSegment(before, segment))
        /\ Range(AddSegment(before, segment)) = Range(before) \cup Added(segment, before)
<1>1. CASE IsShellDashC(segment)
  <2> DEFINE nested == AtomsOfScript(segment.script)
             new == Atom(nested[1].tokens, segment.pipe, before)
  <2>1. segment.script # <<>> BY <1>1 DEF IsShellDashC
  <2>2. IsList(nested) /\ Len(nested) = Len(segment.script) BY ScriptAtoms
  <2> HIDE DEF nested
  <2>3. nested # <<>> BY <2>1, <2>2
  <2>4. IsList(Tail(nested)) BY <2>2, <2>3, WithoutFirst
  <2>5. AddSegment(before, segment) = Append(before, new) \o Tail(nested)
    BY <1>1 DEF AddSegment, nested
  <2>6. Added(segment, before) = {new} \cup Range(Tail(nested)) BY <1>1 DEF Added, nested
  <2> HIDE DEF new
  <2>7. IsList(Append(before, new)) /\ Range(Append(before, new)) = Range(before) \cup {new} BY OneMore
  <2>8. /\ IsList(Append(before, new) \o Tail(nested))
        /\ Range(Append(before, new) \o Tail(nested)) = Range(Append(before, new)) \cup Range(Tail(nested))
    BY <2>4, <2>7, Joined
  <2> QED BY <2>5, <2>6, <2>7, <2>8
<1>2. CASE ~IsShellDashC(segment)
  <2> DEFINE new == Atom(StripPrefixes(segment.words), segment.pipe, before)
  <2>1. AddSegment(before, segment) = Append(before, new) BY <1>2 DEF AddSegment, AddAtom
  <2>2. Added(segment, before) = {new} BY <1>2 DEF Added
  <2> HIDE DEF new
  <2> QED BY <2>1, <2>2, OneMore
<1> QED BY <1>1, <1>2

\* A command has the atoms that each of its segments adds.
LEMMA CommandAtoms ==
  ASSUME NEW command, command.segments \in Seq(Segments)
  PROVE /\ IsList(Atoms(command))
        /\ \A segment \in Range(command.segments) :
             \E before : IsList(before) /\ Added(segment, before) \subseteq Range(Atoms(command))
<1> DEFINE segments == command.segments
           n == Len(segments)
<1>1. n \in Nat /\ DOMAIN segments = 1..n /\ \A k \in 1..n : segments[k].script \in Seq(ScriptLine)
  BY DEF Segments
<1> HIDE DEF n, segments
<1>2. PICK upto : /\ IsStepwise("segment", <<>>, segments, None, n, upto)
                  /\ FoldLeft(AddSegment, <<>>, segments) = upto[n]
  BY <1>1, AtomsStepwise
<1>3. upto[0] = <<>> /\ \A k \in 1..n : upto[k] = AddSegment(upto[k - 1], segments[k])
  BY <1>2 DEF IsStepwise, Step
<1> DEFINE Holds(k) == /\ IsList(upto[k])
                       /\ \A i \in 1..k : \E before : /\ IsList(before)
                                                      /\ Added(segments[i], before) \subseteq Range(upto[k])
           good == {k \in 0..n : Holds(k)}
<1>4. 0 \in good
  <2>1. Holds(0) BY <1>3, Lists
  <2> QED BY <1>1, <2>1
<1>5. ASSUME NEW k \in 1..n, k - 1 \in good PROVE k \in good
  <2>1. Holds(k - 1) BY <1>5
  <2>2. /\ IsList(upto[k]) /\ Range(upto[k - 1]) \subseteq Range(upto[k])
        /\ Added(segments[k], upto[k - 1]) \subseteq Range(upto[k])
    BY <1>1, <1>3, <2>1, SegmentAdds
  <2>3. ASSUME NEW i \in 1..k
        PROVE \E before : IsList(before) /\ Added(segments[i], before) \subseteq Range(upto[k])
    <3>1. CASE i = k BY <2>1, <2>2, <3>1
    <3>2. CASE i # k
      <4>1. i \in 1..(k - 1) BY <3>2
      <4> QED BY <2>1, <2>2, <4>1
    <3> QED BY <3>1, <3>2
  <2>4. Holds(k) BY <2>2, <2>3
  <2>5. k \in 0..n BY <1>1
  <2> QED BY <2>4, <2>5
<1> HIDE DEF good
<1>6. 0..n \subseteq good BY <1>1, <1>4, <1>5, UpTo
<1>7. n \in good BY <1>1, <1>6
<1>8. Holds(n) BY <1>7 DEF good
<1>9. Atoms(command) = upto[n] BY <1>2 DEF Atoms, segments
<1> QED BY <1>1, <1>8, <1>9 DEF Range, segments

LEMMA OneSegment ==
  ASSUME NEW command, NEW segment, segment.script \in Seq(ScriptLine), command.segments = <<segment>>
  PROVE IsList(Atoms(command)) /\ Range(Atoms(command)) = Added(segment, <<>>)
<1> DEFINE segments == command.segments
<1>1. DOMAIN segments = 1..1 /\ segments[1] = segment OBVIOUS
<1> HIDE DEF segments
<1>2. PICK upto : /\ IsStepwise("segment", <<>>, segments, None, 1, upto)
                  /\ FoldLeft(AddSegment, <<>>, segments) = upto[1]
  BY <1>1, AtomsStepwise
<1>3. upto[0] = <<>> /\ upto[1] = AddSegment(upto[0], segment)
  <2>1. 1 \in 1..1 /\ 1 - 1 = 0 OBVIOUS
  <2> QED BY <1>1, <1>2, <2>1 DEF IsStepwise, Step
<1>4. Atoms(command) = AddSegment(<<>>, segment) BY <1>2, <1>3 DEF Atoms, segments
<1> QED BY <1>4, Lists, SegmentAdds

LineAlone(line) == [words |-> line.words, pipe |-> FALSE, script |-> <<>>]

\* What a part is: a segment on its own, or one line of a segment's script.
LEMMA PartsAre ==
  ASSUME NEW command \in ShellCommand, NEW part \in Parts(command)
  PROVE /\ part.unsafe = command.unsafe
        /\ \E segment \in Range(command.segments) :
             \/ part.segments = <<[segment EXCEPT !.pipe = FALSE]>>
             \/ \E i \in DOMAIN segment.script :
                  part.segments = <<[LineAlone(segment.script[i]) EXCEPT !.pipe = FALSE]>>
<1> DEFINE Alone(segment) == [command EXCEPT !.segments = <<[segment EXCEPT !.pipe = FALSE]>>]
<1>1. \A segment : Alone(segment).unsafe = command.unsafe
                   /\ Alone(segment).segments = <<[segment EXCEPT !.pipe = FALSE]>>
  BY DEF ShellCommand
<1>2. PICK segment \in Range(command.segments) :
        \/ part = Alone(segment)
        \/ \E i \in DOMAIN segment.script :
             part = Alone(LineAlone(segment.script[i]))
  BY DEF Parts, LineAlone
<1> HIDE DEF Alone
<1>3. CASE part = Alone(segment) BY <1>1, <1>2, <1>3
<1>4. CASE part # Alone(segment)
  <2>1. PICK i \in DOMAIN segment.script :
          part = Alone(LineAlone(segment.script[i]))
    BY <1>2, <1>4
  <2> QED BY <1>1, <2>1
<1> QED BY <1>3, <1>4

Carried(atom, command) ==
  \E whole \in Range(Atoms(command)) : whole.tokens = atom.tokens /\ (atom.piped => whole = atom)

\* Every atom of a part is an atom of the command, but for a pipe in front of it.
LEMMA PartsAtoms ==
  ASSUME NEW command \in ShellCommand, NEW part \in Parts(command)
  PROVE /\ part.unsafe = command.unsafe /\ IsList(Atoms(part)) /\ IsList(Atoms(command))
        /\ \A atom \in Range(Atoms(part)) : Carried(atom, command)
<1>1. command.segments \in Seq(Segments) BY DEF ShellCommand
<1>2. PICK segment \in Range(command.segments) :
        \/ part.segments = <<[segment EXCEPT !.pipe = FALSE]>>
        \/ \E i \in DOMAIN segment.script :
             part.segments = <<[LineAlone(segment.script[i]) EXCEPT !.pipe = FALSE]>>
  BY PartsAre
<1>3. segment \in Segments BY <1>1 DEF Range
<1>4. /\ segment = [words |-> segment.words, pipe |-> segment.pipe, script |-> segment.script]
      /\ segment.script \in Seq(ScriptLine) /\ (segment.script # <<>> => IsShellDashC(segment))
  BY <1>3 DEF Segments
<1>5. PICK before : IsList(before) /\ Added(segment, before) \subseteq Range(Atoms(command))
  BY <1>1, CommandAtoms
<1>6. IsList(Atoms(command)) BY <1>1, CommandAtoms
<1> DEFINE nested == AtomsOfScript(segment.script)
<1>7. CASE part.segments = <<[segment EXCEPT !.pipe = FALSE]>>
  <2> DEFINE alone == [segment EXCEPT !.pipe = FALSE]
  <2>1. alone.words = segment.words /\ alone.pipe = FALSE /\ alone.script = segment.script BY <1>4
  <2>2. part.segments = <<alone>> BY <1>7
  <2> HIDE DEF alone
  <2>3. IsList(Atoms(part)) /\ Range(Atoms(part)) = Added(alone, <<>>) BY <1>4, <2>1, <2>2, OneSegment
  <2>4. IsShellDashC(alone) <=> IsShellDashC(segment) BY <2>1 DEF IsShellDashC
  <2>5. ASSUME NEW atom \in Added(alone, <<>>) PROVE Carried(atom, command)
    <3>1. CASE IsShellDashC(segment)
      <4>1. atom = Atom(nested[1].tokens, FALSE, <<>>) \/ atom \in Range(Tail(nested))
        BY <2>1, <2>4, <2>5, <3>1 DEF Added
      <4>2. /\ Atom(nested[1].tokens, segment.pipe, before) \in Range(Atoms(command))
            /\ Range(Tail(nested)) \subseteq Range(Atoms(command))
        BY <1>5, <3>1 DEF Added
      <4> HIDE DEF nested
      <4>3. CASE atom \in Range(Tail(nested)) BY <4>2, <4>3 DEF Carried
      <4>4. CASE atom = Atom(nested[1].tokens, FALSE, <<>>) BY <4>2, <4>4 DEF Carried, Atom
      <4> QED BY <4>1, <4>3, <4>4
    <3>2. CASE ~IsShellDashC(segment)
      <4>1. atom = Atom(StripPrefixes(segment.words), FALSE, <<>>) BY <2>1, <2>4, <2>5, <3>2 DEF Added
      <4>2. Atom(StripPrefixes(segment.words), segment.pipe, before) \in Range(Atoms(command))
        BY <1>5, <3>2 DEF Added
      <4> QED BY <4>1, <4>2 DEF Carried, Atom
    <3> QED BY <3>1, <3>2
  <2> QED BY <1>6, <2>3, <2>5, PartsAre
<1>8. CASE \E i \in DOMAIN segment.script :
             part.segments = <<[LineAlone(segment.script[i]) EXCEPT !.pipe = FALSE]>>
  <2>1. PICK i \in DOMAIN segment.script :
          part.segments = <<[LineAlone(segment.script[i]) EXCEPT !.pipe = FALSE]>>
    BY <1>8
  <2> DEFINE alone == [LineAlone(segment.script[i]) EXCEPT !.pipe = FALSE]
  <2>2. alone.words = segment.script[i].words /\ alone.pipe = FALSE /\ alone.script = <<>>
        /\ alone.script \in Seq(ScriptLine)
    BY DEF LineAlone
  <2>3. part.segments = <<alone>> BY <2>1
  <2> HIDE DEF alone
  <2>4. IsList(Atoms(part)) /\ Range(Atoms(part)) = Added(alone, <<>>) BY <2>2, <2>3, OneSegment
  <2>5. ~IsShellDashC(alone) BY <2>2 DEF IsShellDashC
  <2>6. Added(alone, <<>>) = {Atom(StripPrefixes(segment.script[i].words), FALSE, <<>>)}
    BY <2>2, <2>5 DEF Added
  <2>7. segment.script # <<>> BY <2>1
  <2>8. IsList(nested) /\ Len(nested) = Len(segment.script)
        /\ \E atom \in Range(nested) : atom.tokens = StripPrefixes(segment.script[i].words)
    BY <1>4, <2>1, ScriptAtoms
  <2>9. /\ Atom(nested[1].tokens, segment.pipe, before) \in Range(Atoms(command))
        /\ Range(Tail(nested)) \subseteq Range(Atoms(command))
    BY <1>4, <1>5, <2>7 DEF Added
  <2> HIDE DEF nested
  <2>10. nested # <<>> BY <1>4, <2>7, <2>8
  <2>11. Range(nested) = {nested[1]} \cup Range(Tail(nested)) BY <2>8, <2>10, WithoutFirst
  <2>12. PICK inner \in Range(nested) : inner.tokens = StripPrefixes(segment.script[i].words) BY <2>8
  <2>13. \E whole \in Range(Atoms(command)) : whole.tokens = StripPrefixes(segment.script[i].words)
    <3>1. CASE inner = nested[1] BY <2>9, <2>12, <3>1 DEF Atom
    <3>2. CASE inner # nested[1] BY <2>9, <2>11, <2>12, <3>2
    <3> QED BY <3>1, <3>2
  <2>14. \A atom \in Range(Atoms(part)) : Carried(atom, command)
    BY <2>4, <2>6, <2>13 DEF Carried, Atom
  <2> QED BY <1>6, <2>4, <2>14, PartsAre
<1> QED BY <1>2, <1>7, <1>8

-------------------------------------------------------------------------------
(* What a chain that is read as harmless says of its parts *)

\* What makes the reading of a chain end in a denial without a merge.
Denying(tokens, world) ==
  \/ Unreadable(tokens)
  \/ Word(GitArgs(tokens), 1) = "push" /\ PushesProtected(GitArgs(tokens), world)

LEMMA OneAtomRead ==
  ASSUME NEW state, state = [onto |-> state.onto, denied |-> state.denied], state.denied \in BOOLEAN,
         NEW atom, NEW world
  PROVE LET after == ReadGit(state, atom, world) IN
        /\ after = [onto |-> after.onto, denied |-> after.denied] /\ after.denied \in BOOLEAN
        /\ state.denied \/ Denying(atom.tokens, world) => after.denied
        /\ Word(GitArgs(atom.tokens), 1) # "merge" /\ after.denied => state.denied \/ Denying(atom.tokens, world)
<1> DEFINE args == GitArgs(atom.tokens)
           sub == Word(args, 1)
           after == ReadGit(state, atom, world)
           lost == Unreadable(atom.tokens)
           bad == PushesProtected(args, world)
           onto == IF Checkout(args) = NoWord THEN state.onto ELSE Checkout(args)
           merged == state.onto \in world.protected \cup {NoWord}
<1>1. bad \in BOOLEAN /\ lost \in BOOLEAN /\ merged \in BOOLEAN BY DEF PushesProtected, Unreadable
<1>2. after = IF state.denied \/ lost THEN [state EXCEPT !.denied = TRUE]
              ELSE CASE sub = "push" -> [state EXCEPT !.denied = bad]
                     [] sub \in {"checkout", "switch"} -> [state EXCEPT !.onto = onto]
                     [] sub = "merge" -> [state EXCEPT !.denied = merged]
                     [] OTHER -> state
  BY DEF ReadGit
<1>3. Denying(atom.tokens, world) <=> lost \/ (sub = "push" /\ bad) BY DEF Denying
<1> HIDE DEF after, args, sub, lost, bad, onto, merged
<1>4. \A d \in BOOLEAN : [state EXCEPT !.denied = d] = [onto |-> state.onto, denied |-> d] OBVIOUS
<1>5. [state EXCEPT !.onto = onto] = [onto |-> onto, denied |-> state.denied] OBVIOUS
<1>6. /\ after = [onto |-> after.onto, denied |-> after.denied] /\ after.denied \in BOOLEAN
      /\ state.denied \/ lost \/ (sub = "push" /\ bad) => after.denied
      /\ sub # "merge" /\ after.denied => state.denied \/ lost \/ (sub = "push" /\ bad)
  <2>1. CASE state.denied \/ lost
    <3>1. after = [onto |-> state.onto, denied |-> TRUE] BY <1>2, <1>4, <2>1
    <3> QED BY <2>1, <3>1
  <2>2. CASE ~(state.denied \/ lost) /\ sub = "push"
    <3>1. after = [onto |-> state.onto, denied |-> bad] BY <1>1, <1>2, <1>4, <2>2
    <3> QED BY <1>1, <2>2, <3>1
  <2>3. CASE ~(state.denied \/ lost) /\ sub \in {"checkout", "switch"}
    <3>1. after = [onto |-> onto, denied |-> state.denied] BY <1>2, <1>5, <2>3
    <3> QED BY <2>3, <3>1
  <2>4. CASE ~(state.denied \/ lost) /\ sub = "merge"
    <3>1. after = [onto |-> state.onto, denied |-> merged] BY <1>1, <1>2, <1>4, <2>4
    <3> QED BY <1>1, <2>4, <3>1
  <2>5. CASE ~(state.denied \/ lost) /\ sub \notin {"push", "checkout", "switch", "merge"}
    <3>1. after = state BY <1>2, <2>5
    <3> QED BY <2>5, <3>1
  <2> QED BY <2>1, <2>2, <2>3, <2>4, <2>5
<1> QED BY <1>3, <1>6 DEF after, args, sub

LEMMA ChainRead ==
  ASSUME NEW command, IsList(Atoms(command)), command.unsafe = FALSE, NEW world
  PROVE /\ (\E atom \in Range(Atoms(command)) : Denying(atom.tokens, world)) => WritesProtectedBranch(command, world)
        /\ ~Merges(command) /\ WritesProtectedBranch(command, world) =>
             \E atom \in Range(Atoms(command)) : Denying(atom.tokens, world)
<1> DEFINE atoms == Atoms(command)
           n == Len(atoms)
<1>1. n \in Nat /\ DOMAIN atoms = 1..n /\ Range(atoms) = {atoms[i] : i \in 1..n} BY ListPlaces
<1> HIDE DEF n
<1>2. PICK upto : /\ IsStepwise("git", Unread(world), atoms, world, n, upto)
                  /\ WritesProtectedBranch(command, world) <=> command.unsafe \/ upto[n].denied
  BY <1>1, GitStepwise
<1>3. upto[0] = Unread(world) /\ \A k \in 1..n : upto[k] = ReadGit(upto[k - 1], atoms[k], world)
  BY <1>2 DEF IsStepwise, Step
<1> DEFINE Seen(k) == \E i \in 1..k : Denying(atoms[i].tokens, world)
           Holds(k) == /\ upto[k] = [onto |-> upto[k].onto, denied |-> upto[k].denied]
                       /\ upto[k].denied \in BOOLEAN
                       /\ Seen(k) => upto[k].denied
                       /\ ~Merges(command) /\ upto[k].denied => Seen(k)
           good == {k \in 0..n : Holds(k)}
<1>4. 0 \in good
  <2>1. upto[0] = [onto |-> world.head, denied |-> FALSE] BY <1>3 DEF Unread
  <2>2. Holds(0) BY <2>1
  <2> QED BY <1>1, <2>2
<1>5. ASSUME NEW k \in 1..n, k - 1 \in good PROVE k \in good
  <2>1. Holds(k - 1) BY <1>5
  <2>2. /\ upto[k] = [onto |-> upto[k].onto, denied |-> upto[k].denied] /\ upto[k].denied \in BOOLEAN
        /\ upto[k - 1].denied \/ Denying(atoms[k].tokens, world) => upto[k].denied
        /\ Word(GitArgs(atoms[k].tokens), 1) # "merge" /\ upto[k].denied =>
             upto[k - 1].denied \/ Denying(atoms[k].tokens, world)
    BY <1>3, <2>1, OneAtomRead
  <2>3. ~Merges(command) => Word(GitArgs(atoms[k].tokens), 1) # "merge" BY <1>1 DEF Merges
  <2>4. Seen(k) <=> Seen(k - 1) \/ Denying(atoms[k].tokens, world)
    <3>1. 1..k = 1..(k - 1) \cup {k} OBVIOUS
    <3> QED BY <3>1
  <2> HIDE DEF Seen
  <2>5. Holds(k) BY <2>1, <2>2, <2>3, <2>4
  <2>6. k \in 0..n BY <1>1
  <2> QED BY <2>5, <2>6
<1> HIDE DEF good
<1>6. 0..n \subseteq good BY <1>1, <1>4, <1>5, UpTo
<1>7. n \in good BY <1>1, <1>6
<1>8. Holds(n) BY <1>7 DEF good
<1>9. Seen(n) <=> \E atom \in Range(Atoms(command)) : Denying(atom.tokens, world) BY <1>1
<1> HIDE DEF Seen
<1> QED BY <1>2, <1>8, <1>9

\* The request for a part reads as the request for its command, but for the command.
LEMMA PartIsReadAlike ==
  ASSUME NEW request \in Request, NEW command \in Classify(request).command, NEW part
  PROVE LET whole == Classify(request)
            alone == Classify([request EXCEPT !.command = {part}]) IN
        /\ command \in ShellCommand /\ whole.command = {command} /\ alone.command = {part}
        /\ alone.class = whole.class /\ alone.paths = whole.paths
        /\ alone.verb = whole.verb /\ alone.registry = whole.registry
<1> DEFINE other == [request EXCEPT !.command = {part}]
<1>1. /\ request \in RequestShape /\ IsOptional(request.command) /\ IsOptional(request.title.command)
      /\ request.title.command # {} => request.title.says = "run" /\ request.title.path = {}
  BY VerdictsAssumption
<1>2. /\ other.command = {part} /\ other.kind = request.kind /\ other.path = request.path
      /\ other.locations = request.locations /\ other.title = request.title
      /\ other.registry = request.registry
  BY <1>1 DEF RequestShape
<1>3. /\ request.command \subseteq ShellCommand /\ request.title.command \subseteq ShellCommand
  BY <1>1 DEF RequestShape, Title
<1> HIDE DEF other
<1>4. Classify(other).command = {part} /\ Classify(other).paths = request.path
      /\ Classify(other).class = (IF request.kind \in ToolClass THEN request.kind ELSE "other")
      /\ Classify(other).verb = (request.title.says = "verb") /\ Classify(other).registry = request.registry
  BY <1>2 DEF Classify
<1>5. Classify(request).verb = (request.title.says = "verb") /\ Classify(request).registry = request.registry
  BY DEF Classify
<1>6. CASE request.command # {} \/ request.path # {}
  <2>1. Classify(request).command = request.command /\ Classify(request).paths = request.path
        /\ Classify(request).class = (IF request.kind \in ToolClass THEN request.kind ELSE "other")
    BY <1>6 DEF Classify
  <2>2. request.command = {command} BY <1>1, <2>1 DEF IsOptional
  <2> QED BY <1>3, <1>4, <1>5, <2>1, <2>2 DEF other
<1>7. CASE request.command = {} /\ request.path = {}
  <2>1. request.locations = {} BY <1>7 DEF Classify
  <2>2. command \in request.title.command BY <1>7, <2>1 DEF Classify
  <2>3. request.title.says = "run" /\ request.title.path = {} BY <1>1, <2>2
  <2>4. Classify(request).command = request.title.command /\ Classify(request).paths = request.title.path
        /\ Classify(request).class = (IF request.kind \in ToolClass THEN request.kind ELSE "other")
    BY <1>7, <2>1, <2>3 DEF Classify
  <2>5. request.title.command = {command} BY <1>1, <2>2 DEF IsOptional
  <2> QED BY <1>3, <1>4, <1>5, <1>7, <2>3, <2>4, <2>5 DEF other
<1> QED BY <1>6, <1>7

\* What is allowed of a command is allowed of atoms with the same words.
LEMMA AllowedAtoms ==
  ASSUME NEW as, NEW command, IsList(Atoms(command))
  PROVE CommandVerdict(as, command) = "allow" <=>
          \A atom \in Range(Atoms(command)) : AtomVerdict(as, atom.tokens) = "allow"
<1> DEFINE atoms == Atoms(command)
           refused == {i \in DOMAIN atoms : AtomVerdict(as, atoms[i].tokens) # "allow"}
<1>1. DOMAIN atoms \subseteq Nat /\ Range(atoms) = {atoms[i] : i \in DOMAIN atoms} BY ListPlaces
<1>2. CASE refused = {} BY <1>1, <1>2 DEF CommandVerdict
<1>3. CASE refused # {}
  <2>1. \E i \in refused : \A j \in refused : i <= j BY <1>1, <1>3, SmallestPlace
  <2> DEFINE first == CHOOSE i \in refused : \A j \in refused : i <= j
  <2>2. first \in refused BY <2>1
  <2>3. CommandVerdict(as, command) = AtomVerdict(as, atoms[first].tokens) BY <1>3 DEF CommandVerdict
  <2> HIDE DEF first
  <2> QED BY <1>1, <2>2, <2>3
<1> QED BY <1>2, <1>3

\* A pattern that denies the part denies the command, or the part merges.
LEMMA PartDeniedLess ==
  ASSUME NEW command \in ShellCommand, NEW part \in Parts(command), ~Merges(part), NEW world,
         NEW rule, rule.pattern \in {"no_push_protected", "no_push", "path_deny", "command_deny"},
         NEW paths, NEW written,
         Denies(rule, [command |-> {part}, paths |-> paths, writes |-> written], world)
  PROVE Denies(rule, [command |-> {command}, paths |-> paths, writes |-> written], world)
<1> DEFINE alone == [command |-> {part}, paths |-> paths, writes |-> written]
           whole == [command |-> {command}, paths |-> paths, writes |-> written]
<1>1. /\ part.unsafe = command.unsafe /\ IsList(Atoms(part)) /\ IsList(Atoms(command))
      /\ \A atom \in Range(Atoms(part)) : \E other \in Range(Atoms(command)) : other.tokens = atom.tokens
  BY PartsAtoms DEF Carried
<1>2. command.unsafe \in BOOLEAN BY DEF ShellCommand
<1>3. alone.command = {part} /\ alone.paths = paths /\ alone.writes = written OBVIOUS
<1>4. whole.command = {command} /\ whole.paths = paths /\ whole.writes = written OBVIOUS
<1>5. Denies(rule, alone, world) OBVIOUS
<1> HIDE DEF alone, whole
<1>6. CASE rule.pattern = "no_push_protected"
  <2>1. WritesProtectedBranch(part, world) BY <1>3, <1>5, <1>6 DEF Denies
  <2>2. WritesProtectedBranch(command, world)
    <3>1. CASE command.unsafe BY <3>1 DEF WritesProtectedBranch
    <3>2. CASE ~command.unsafe
      <4>1. PICK atom \in Range(Atoms(part)) : Denying(atom.tokens, world)
        BY <1>1, <1>2, <2>1, <3>2, ChainRead
      <4>2. \E other \in Range(Atoms(command)) : Denying(other.tokens, world) BY <1>1, <4>1
      <4> QED BY <1>1, <1>2, <3>2, <4>2, ChainRead
    <3> QED BY <1>2, <3>1, <3>2
  <2>3. Denies(rule, whole, world) BY <1>4, <1>6, <2>2 DEF Denies
  <2> QED BY <2>3 DEF whole
<1>7. CASE rule.pattern = "no_push"
  <2>1. Pushes(part) BY <1>3, <1>5, <1>7 DEF Denies
  <2>2. Pushes(command) BY <1>1, <2>1 DEF Pushes
  <2>3. Denies(rule, whole, world) BY <1>4, <1>7, <2>2 DEF Denies
  <2> QED BY <2>3 DEF whole
<1>8. CASE rule.pattern = "path_deny"
  <2>1. PathDenied(rule, alone) BY <1>5, <1>8 DEF Denies
  <2>2. PathDenied(rule, whole) BY <1>1, <1>3, <1>4, <2>1 DEF PathDenied
  <2>3. Denies(rule, whole, world) BY <1>8, <2>2 DEF Denies
  <2> QED BY <2>3 DEF whole
<1>9. CASE rule.pattern = "command_deny"
  <2>1. CommandDenied(rule, alone) BY <1>5, <1>9 DEF Denies
  <2>2. CommandDenied(rule, whole) BY <1>1, <1>3, <1>4, <2>1 DEF CommandDenied
  <2>3. Denies(rule, whole, world) BY <1>9, <2>2 DEF Denies
  <2> QED BY <2>3 DEF whole
<1> QED BY <1>6, <1>7, <1>8, <1>9

\* Nothing on the never-list, and nothing the role refuses, is in a part alone.
LEMMA PartIsAllowed ==
  ASSUME NEW as, NEW whole, NEW alone, NEW command \in ShellCommand, NEW part \in Parts(command),
         whole.command = {command}, alone.command = {part},
         alone.class = whole.class, alone.paths = whole.paths,
         alone.verb = whole.verb, alone.registry = whole.registry,
         VerdictOn(as, whole) = "allow"
  PROVE VerdictOn(as, alone) = "allow"
<1>1. /\ part.unsafe = command.unsafe /\ IsList(Atoms(part)) /\ IsList(Atoms(command))
      /\ \A atom \in Range(Atoms(part)) : Carried(atom, command)
  BY PartsAtoms
<1>2. \A atom \in Range(Atoms(part)) : NeverAtom(atom) => \E other \in Range(Atoms(command)) : NeverAtom(other)
  <2> SUFFICES ASSUME NEW atom \in Range(Atoms(part)), NeverAtom(atom)
               PROVE \E other \in Range(Atoms(command)) : NeverAtom(other)
    OBVIOUS
  <2>1. PICK other \in Range(Atoms(command)) : other.tokens = atom.tokens /\ (atom.piped => other = atom)
    BY <1>1 DEF Carried
  <2>2. CASE atom.piped BY <2>1, <2>2
  <2>3. CASE ~atom.piped
    <3>1. ~IsPipedIntoBareShell(atom) BY <2>3 DEF IsPipedIntoBareShell
    <3>2. NeverAtom(other) BY <2>1, <3>1 DEF NeverAtom
    <3> QED BY <3>2
  <2> QED BY <2>2, <2>3
<1>3. ~NeverWithoutHuman(whole) BY DEF VerdictOn
<1>4. ~NeverWithoutHuman(alone) BY <1>1, <1>2, <1>3 DEF NeverWithoutHuman
<1>5. CASE whole.verb BY <1>4, <1>5 DEF VerdictOn
<1>6. CASE ~whole.verb
  <2>1. RoleVerdict(as, whole) = "allow" BY <1>3, <1>6 DEF VerdictOn
  <2>2. CASE whole.class = "execute"
    <3>1. (CHOOSE c \in {command} : TRUE) = command /\ (CHOOSE c \in {part} : TRUE) = part OBVIOUS
    <3>2. RoleVerdict(as, whole) = CommandVerdict(as, command) BY <2>2, <3>1 DEF RoleVerdict
    <3>3. RoleVerdict(as, alone) = CommandVerdict(as, part) BY <2>2, <3>1 DEF RoleVerdict
    <3>4. \A atom \in Range(Atoms(part)) : AtomVerdict(as, atom.tokens) = "allow"
      <4>1. \A atom \in Range(Atoms(command)) : AtomVerdict(as, atom.tokens) = "allow"
        BY <1>1, <2>1, <3>2, AllowedAtoms
      <4>2. \A atom \in Range(Atoms(part)) : \E other \in Range(Atoms(command)) : other.tokens = atom.tokens
        BY <1>1 DEF Carried
      <4> QED BY <4>1, <4>2
    <3>5. CommandVerdict(as, part) = "allow" BY <1>1, <3>4, AllowedAtoms
    <3> QED BY <1>4, <1>6, <3>3, <3>5 DEF VerdictOn
  <2>3. CASE whole.class # "execute"
    <3>1. RoleVerdict(as, alone) = RoleVerdict(as, whole) BY <2>3 DEF RoleVerdict
    <3> QED BY <1>4, <1>6, <2>1, <3>1 DEF VerdictOn
  <2> QED BY <2>2, <2>3
<1> QED BY <1>5, <1>6

LEMMA PartsAreAllowed ==
  ASSUME NEW as, NEW request \in Request, NEW rules \in Accepted, NEW world,
         DecidePermission(as, request, rules, world).kind = "allow",
         NEW command \in Classify(request).command, NEW part \in Parts(command), ~Merges(part)
  PROVE DecidePermission(as, [request EXCEPT !.command = {part}], rules, world).kind = "allow"
<1> DEFINE other == [request EXCEPT !.command = {part}]
           whole == Classify(request)
           alone == Classify(other)
<1>1. /\ VerdictOn(as, whole) = "allow" /\ "allow_once" \in request.options
      /\ PassOf(rules, whole, world).violated = None
  BY DecidedExactly
<1>2. other.options = request.options
  <2>1. request \in RequestShape BY VerdictsAssumption
  <2> QED BY <2>1 DEF RequestShape
<1>3. /\ command \in ShellCommand /\ whole.command = {command} /\ alone.command = {part}
      /\ alone.class = whole.class /\ alone.paths = whole.paths
      /\ alone.verb = whole.verb /\ alone.registry = whole.registry
  BY PartIsReadAlike
<1>4. \A i \in DOMAIN rules :
        rules[i].pattern \in {"no_push_protected", "no_push", "path_deny", "command_deny"}
  BY AcceptedRules
<1> HIDE DEF other, whole, alone
<1>5. VerdictOn(as, alone) = "allow" BY <1>1, <1>3, PartIsAllowed
<1>6. PassOf(rules, alone, world).violated = None
  <2> DEFINE before == [command |-> whole.command, paths |-> whole.paths, writes |-> whole.class = "edit"]
             after == [command |-> alone.command, paths |-> alone.paths, writes |-> alone.class = "edit"]
  <2>1. \A i \in DOMAIN rules : ~Denies(rules[i], before, world) BY <1>1, PassDenies DEF PassOf
  <2>2. \A i \in DOMAIN rules : ~Denies(rules[i], after, world)
    <3> SUFFICES ASSUME NEW i \in DOMAIN rules, Denies(rules[i], after, world) PROVE FALSE OBVIOUS
    <3>1. Denies(rules[i], before, world) BY <1>3, <1>4, PartDeniedLess
    <3> QED BY <2>1, <3>1
  <2> QED BY <2>2, PassDenies DEF PassOf
<1> QED BY <1>1, <1>2, <1>5, <1>6, DecidedExactly DEF other, alone

\* parseCommandIntoAtoms and decidePermission: no command of an allowed chain, however long,
\* and none of a script in it, would be refused alone; for any rules, requests and worlds.
THEOREM ChainsAreNoLooser == VerdictsSpec => []ChainIsNoLooser
<1>1. RecordIsDecision => ChainIsNoLooser
  BY AskedIsDecided, PartsAreAllowed DEF ChainIsNoLooser
<1> QED BY <1>1, RecordsAreDecisions, PTL
===============================================================================
