----------------------------- MODULE CatalogProofs -----------------------------
(***************************************************************************)
(* What Catalog promises, for any number of pages, sources, scripts,       *)
(* changes and failures.                                                   *)
(***************************************************************************)
EXTENDS Catalog, TLAPS

-----------------------------------------------------------------------------
\* Types

(* A request that scans has a source, which is still on its list; a rescan *)
(* does not ask how old the rows are.                                      *)
Scanning == {"reply", "upsert", "mark"}
Placed ==
  \A q \in Request :
    /\ ask[q].at \in Scanning => ask[q].source \in Source /\ ask[q].source \in ask[q].todo
    /\ q[2] = "rescan" => ask[q].at \notin {"age", "list"}
TypeInv == TypeOK /\ Placed

LEMMA RestTyped == Rest \in Ask /\ Nothing \in List /\ Empty \in Directory
<1>1. Nothing \in List BY DEF Nothing, List
<1>2. Empty \in Directory BY DEF Empty, Directory
<1> QED BY <1>1, <1>2 DEF Rest, Ask, At

Same(a, b) ==  \* requests that differ in their doubts at most
  /\ a.at = b.at /\ a.opened = b.opened /\ a.todo = b.todo /\ a.source = b.source
  /\ a.found = b.found /\ a.now = b.now /\ a.rows = b.rows /\ a.alone = b.alone

LEMMA DoubtTyped ==
  ASSUME NEW asks \in [Request -> Ask], NEW s \in Source, NEW b
  PROVE  /\ Doubting(asks, s, b) \in [Request -> Ask]
         /\ \A q \in Request :
              /\ Same(Doubting(asks, s, b)[q], asks[q])
              /\ Doubting(asks, s, b)[q].doubt = IF q # b /\ Listed(q, s)
                                                 THEN asks[q].doubt \cup {s}
                                                 ELSE asks[q].doubt
<1>1. \A q \in Request : [asks[q] EXCEPT !.doubt = @ \cup {s}] \in Ask
  BY DEF Ask
<1>2. Doubting(asks, s, b) \in [Request -> Ask] BY <1>1 DEF Doubting
<1> QED BY <1>2 DEF Doubting, Ask, Same

LEMMA PassedTyped ==
  ASSUME TypeOK, NEW q \in Request, NEW s \in Source
  PROVE  /\ Passed(q, s) \in Ask /\ Passed(q, s).at = "scan"
         /\ Passed(q, s).todo = ask[q].todo \ {s} /\ Passed(q, s).doubt = ask[q].doubt
         /\ Passed(q, s).opened = ask[q].opened /\ Passed(q, s).rows = Nothing
<1>1. ask[q] \in Ask BY DEF TypeOK
<1>2. ask[q].opened \in Nat /\ ask[q].todo \ {s} \in SUBSET Source
      /\ ask[q].doubt \in SUBSET Source
  BY <1>1 DEF Ask
<1>3. Rest \in Ask /\ Rest.rows = Nothing BY RestTyped DEF Rest
<1> QED BY <1>2, <1>3 DEF Passed, Ask, At

LEMMA TypeInit == Init => TypeInv
<1> SUFFICES ASSUME Init PROVE TypeInv OBVIOUS
<1>1. disk \in [Source -> Directory]
  BY MapAssumption DEF Init, Directory, Criticality
<1>2. ask \in [Request -> Ask] /\ \A q \in Request : ask[q].at = "idle"
  BY RestTyped DEF Init, Rest
<1>3. row \in List /\ screen \in [Console -> List] /\ last \in [Source -> Directory]
  BY RestTyped DEF Init
<1>4. mapping \in [Source -> {"new", "mapped", "removed"}] BY DEF Init
<1>5. start \in [Console -> Start \cup {NoStart}] BY DEF Init
<1>6. clock \in Nat /\ runs = {} /\ mixed = {} /\ events \in 0..MaxEvents
  BY BoundAssumption DEF Init
<1> QED BY <1>1, <1>2, <1>3, <1>4, <1>5, <1>6 DEF TypeInv, TypeOK, Placed, Scanning

LEMMA EventTyped ==
  ASSUME TypeOK, Event
  PROVE  events' \in 0..MaxEvents
BY BoundAssumption DEF TypeOK, Event

(* The steps that only move one request on, without a source in hand.      *)
LEMMA TypeAsk ==
  ASSUME TypeInv, NEW q \in Request, NEW r \in Ask,
         ask' = [ask EXCEPT ![q] = r],
         r.at \in Scanning => r.source \in Source /\ r.source \in r.todo,
         q[2] = "rescan" => r.at \notin {"age", "list"}
  PROVE  ask' \in [Request -> Ask] /\ Placed'
BY DEF TypeInv, TypeOK, Placed

LEMMA TypeServe ==
  ASSUME TypeInv, NEW q \in Request, Open(q) \/ Serve(q)
  PROVE  TypeInv'
<1> USE DEF TypeInv
<1>0. ask[q] \in Ask /\ ask[q].todo \in SUBSET Source BY DEF TypeOK, Ask
<1>1. CASE Open(q)
  <2> DEFINE r == [Rest EXCEPT !.at = IF q[2] = "load" THEN "age" ELSE "sources",
                               !.opened = IF q[2] = "load" THEN clock ELSE 0]
  <2>1. clock \in Nat BY DEF TypeOK
  <2>2. r \in Ask /\ r.at = (IF q[2] = "load" THEN "age" ELSE "sources")
    BY <2>1, RestTyped DEF Ask, At
  <2>3. ask' = [ask EXCEPT ![q] = r] BY <1>1 DEF Open
  <2> HIDE DEF r
  <2>4. ask' \in [Request -> Ask] /\ Placed' BY <2>2, <2>3, TypeAsk DEF Scanning
  <2> QED BY <1>1, <2>4, EventTyped DEF Open, TypeOK, history
<1>2. CASE CheckAge(q)
  <2>1. ask' = [ask EXCEPT ![q] = [ask[q] EXCEPT !.at = IF Stale THEN "sources" ELSE "list"]]
    BY <1>2 DEF CheckAge, Go
  <2>2. [ask[q] EXCEPT !.at = IF Stale THEN "sources" ELSE "list"] \in Ask
    BY <1>0 DEF Ask, At
  <2>3. q[2] # "rescan" BY <1>2 DEF CheckAge, AskIs, Placed
  <2>4. ask' \in [Request -> Ask] /\ Placed'
    BY <1>0, <2>1, <2>2, <2>3, TypeAsk DEF Scanning, Ask
  <2> QED BY <1>2, <2>4 DEF CheckAge, TypeOK, history
<1>3. CASE ReadSources(q)
  <2>1. ask' = [ask EXCEPT ![q] = [ask[q] EXCEPT !.at = "scan", !.todo = InArea]]
    BY <1>3, <1>0 DEF ReadSources, TypeOK
  <2>2. [ask[q] EXCEPT !.at = "scan", !.todo = InArea] \in Ask
    BY <1>0 DEF Ask, At, InArea
  <2>4. ask' \in [Request -> Ask] /\ Placed'
    BY <1>0, <2>1, <2>2, TypeAsk DEF Scanning, Ask
  <2> QED BY <1>3, <2>4 DEF ReadSources, TypeOK, history
<1>4. CASE Receive(q)
  <2>0. PICK now \in Nat : now = clock + 1 BY DEF TypeOK
  <2>1. ask' = [ask EXCEPT ![q] = [ask[q] EXCEPT !.at = "upsert", !.now = now]]
    BY <1>4, <1>0, <2>0 DEF Receive, TypeOK
  <2>2. [ask[q] EXCEPT !.at = "upsert", !.now = now] \in Ask
    BY <1>0 DEF Ask, At
  <2>3. ask[q].source \in Source /\ ask[q].source \in ask[q].todo
    BY <1>4 DEF Receive, AskIs, Placed, Scanning
  <2>4. ask' \in [Request -> Ask] /\ Placed'
    BY <1>0, <2>1, <2>2, <2>3, TypeAsk DEF Scanning, Ask
  <2> QED BY <1>4, <2>0, <2>4 DEF Receive, TypeOK, history
<1>5. CASE Upsert(q)
  <2> DEFINE asks == [ask EXCEPT ![q].at = "mark"]  s == ask[q].source
  <2>1. s \in Source /\ s \in ask[q].todo
    BY <1>5 DEF Upsert, AskIs, Placed, Scanning
  <2>2. [ask[q] EXCEPT !.at = "mark"] \in Ask BY <1>0 DEF Ask, At
  <2>3. asks \in [Request -> Ask] BY <2>2 DEF TypeOK
  <2>a. \A p \in Request : /\ asks[p].at = IF p = q THEN "mark" ELSE ask[p].at
                           /\ asks[p].todo = ask[p].todo /\ asks[p].source = ask[p].source
    BY DEF TypeOK, Ask
  <2>4. ask' = Doubting(asks, s, q) BY <1>5 DEF Upsert
  <2> HIDE DEF asks
  <2>5. ask' \in [Request -> Ask] BY <2>1, <2>3, <2>4, DoubtTyped
  <2>6. \A p \in Request : Same(ask'[p], asks[p]) BY <2>1, <2>3, <2>4, DoubtTyped, Zenon
  <2>7. Placed' BY <2>1, <2>6, <2>a DEF Placed, Scanning, Same
  <2>8. row' \in List
    <3>1. ask[q].found \in Directory /\ ask[q].now \in Nat BY <1>0 DEF Ask
    <3>2. \A f \in Held(ask[q].found) : ask[q].found[f] \in Criticality
      BY <3>1 DEF Held, Directory
    <3>3. \A x \in Script : x[2] \in Held(ask[q].found) =>
            [presentAt |-> ask[q].now, scannedAt |-> ask[q].now,
             criticality |-> ask[q].found[x[2]]] \in Row
      BY <3>1, <3>2 DEF Row
    <3>4. \A x \in Script : row[x] \in Row \cup {None} BY DEF TypeOK, List
    <3> QED BY <1>5, <3>3, <3>4 DEF Upsert, List
  <2> QED BY <1>5, <2>5, <2>7, <2>8 DEF Upsert, TypeOK, history
<1>6. CASE UpsertFails(q)
  <2>1. ask' = [ask EXCEPT ![q] = Rest] BY <1>6 DEF UpsertFails
  <2>2. ask' \in [Request -> Ask] /\ Placed'
    BY <2>1, RestTyped, TypeAsk DEF Scanning, Rest
  <2> QED BY <1>6, <2>2 DEF UpsertFails, TypeOK, history
<1>7. CASE MarkUnseen(q)
  <2> DEFINE s == ask[q].source  asks == [ask EXCEPT ![q] = Passed(q, s)]
  <2>1. s \in Source /\ s \in ask[q].todo
    BY <1>7 DEF MarkUnseen, AskIs, Placed, Scanning
  <2>2. Passed(q, s) \in Ask /\ Passed(q, s).at = "scan" BY <2>1, PassedTyped
  <2>3. asks \in [Request -> Ask] BY <2>2 DEF TypeOK
  <2>a. \A p \in Request : asks[p] = IF p = q THEN Passed(q, s) ELSE ask[p]
    BY DEF TypeOK
  <2>4. ask' = Doubting(asks, s, q) BY <1>7 DEF MarkUnseen
  <2> HIDE DEF asks
  <2>5. ask' \in [Request -> Ask] BY <2>1, <2>3, <2>4, DoubtTyped
  <2>6. \A p \in Request : Same(ask'[p], asks[p]) BY <2>1, <2>3, <2>4, DoubtTyped, Zenon
  <2>7. Placed' BY <2>2, <2>6, <2>a DEF Placed, Scanning, Same
  <2>8. row' \in List
    <3>1. ask[q].now \in Nat BY <1>0 DEF Ask
    <3>2. \A x \in Script : row[x] \in Row \cup {None} BY DEF TypeOK, List
    <3>3. \A x \in Script : row[x] # None => [row[x] EXCEPT !.scannedAt = ask[q].now] \in Row
      BY <3>1, <3>2 DEF Row
    <3> QED BY <1>7, <3>2, <3>3 DEF MarkUnseen, List
  <2>9. last' \in [Source -> Directory] /\ mixed' \subseteq Source
    <3>1. ask[q].found \in Directory BY <1>0 DEF Ask
    <3> QED BY <1>7, <2>1, <3>1 DEF MarkUnseen, TypeOK
  <2> QED BY <1>7, <2>5, <2>7, <2>8, <2>9 DEF MarkUnseen, TypeOK
<1>8. CASE ListScripts(q)
  <2>1. row \in List BY DEF TypeOK
  <2>2. ask' = [ask EXCEPT ![q] = [ask[q] EXCEPT !.at = "answered", !.rows = row]]
    BY <1>8, <1>0 DEF ListScripts, TypeOK
  <2>3. [ask[q] EXCEPT !.at = "answered", !.rows = row] \in Ask BY <1>0, <2>1 DEF Ask, At
  <2>4. ask' \in [Request -> Ask] /\ Placed'
    BY <1>0, <2>2, <2>3, TypeAsk DEF Scanning, Ask
  <2> QED BY <1>8, <2>4 DEF ListScripts, TypeOK, history
<1>9. CASE Show(q)
  <2>1. ask' = [ask EXCEPT ![q] = Rest] BY <1>9 DEF Show
  <2>2. ask' \in [Request -> Ask] /\ Placed'
    BY <2>1, RestTyped, TypeAsk DEF Scanning, Rest
  <2>3. q[1] \in Console /\ ask[q].rows \in List BY <1>0 DEF Request, Ask
  <2> QED BY <1>9, <2>2, <2>3 DEF Show, TypeOK, history
<1>10. ASSUME NEW s \in Source, ScanFails(q, s) PROVE TypeInv'
  <2> DEFINE r == [Passed(q, s) EXCEPT !.doubt = @ \cup {s}]
  <2>1. ask' = [ask EXCEPT ![q] = r] BY <1>10 DEF ScanFails
  <2>2. r \in Ask /\ r.at = "scan" BY PassedTyped DEF Ask
  <2> HIDE DEF r
  <2>3. ask' \in [Request -> Ask] /\ Placed' BY <2>1, <2>2, TypeAsk DEF Scanning
  <2> QED BY <1>10, <2>3, EventTyped DEF ScanFails, TypeOK, history
<1>11. ASSUME NEW s \in Source, NEW unread \in SUBSET File, RunnerScans(q, s, unread)
       PROVE  TypeInv'
  <2> DEFINE found == [f \in File |-> IF f \in unread THEN Undeclared ELSE disk[s][f]]
             mine == [ask[q] EXCEPT !.at = "reply", !.source = s, !.found = found,
                                    !.alone = Scans(s, q) = {},
                                    !.doubt = @ \cup IF unread = {} THEN {} ELSE {s}]
  <2>1. ask' = [p \in Request |-> IF p = q THEN mine
                  ELSE [ask[p] EXCEPT !.alone = @ /\ p \notin Scans(s, q)]]
    BY <1>11 DEF RunnerScans
  <2>2. found \in Directory BY DEF TypeOK, Directory, Criticality
  <2>3. mine \in Ask /\ mine.at = "reply" /\ mine.source = s /\ mine.todo = ask[q].todo
    <3> HIDE DEF found
    <3> QED BY <1>0, <2>2 DEF Ask, At
  <2> HIDE DEF mine
  <2>4. \A p \in Request :
          LET r == [ask[p] EXCEPT !.alone = @ /\ p \notin Scans(s, q)] IN
          r \in Ask /\ r.at = ask[p].at /\ r.source = ask[p].source /\ r.todo = ask[p].todo
    BY DEF TypeOK, Ask
  <2>5. ask' \in [Request -> Ask] BY <2>1, <2>3, <2>4
  <2>6. Placed' BY <1>11, <2>1, <2>3, <2>4 DEF Placed, RunnerScans, Scanning
  <2>7. events' \in 0..MaxEvents BY <1>11, EventTyped DEF RunnerScans, TypeOK
  <2> QED BY <1>11, <2>5, <2>6, <2>7 DEF RunnerScans, TypeOK, history
<1> QED BY <1>1, <1>2, <1>3, <1>4, <1>5, <1>6, <1>7, <1>8, <1>9, <1>10, <1>11 DEF Serve

(* What the two statements of a replacement make of a row.                 *)
LEMMA UpsertRows ==
  ASSUME TypeInv, NEW q \in Request, Upsert(q), NEW x \in Script
  PROVE  /\ ask[q].now \in Nat
         /\ row[x] \in Row \cup {None}
         /\ IF x[1] = ask[q].source /\ ask[q].found[x[2]] # None
            THEN /\ row'[x] \in Row /\ row'[x].presentAt = ask[q].now
                 /\ row'[x].scannedAt = ask[q].now
                 /\ row'[x].criticality = ask[q].found[x[2]]
            ELSE row'[x] = row[x]
<1>1. ask[q].found \in Directory /\ ask[q].now \in Nat BY DEF TypeInv, TypeOK, Ask
<1>2. x[2] \in File BY DEF Script
<1>3. row[x] \in Row \cup {None} BY DEF TypeInv, TypeOK, List
<1>4. x[2] \in Held(ask[q].found) <=> ask[q].found[x[2]] # None BY <1>2 DEF Held
<1>5. row'[x] = IF x[1] = ask[q].source /\ ask[q].found[x[2]] # None
                THEN [presentAt |-> ask[q].now, scannedAt |-> ask[q].now,
                      criticality |-> ask[q].found[x[2]]]
                ELSE row[x]
  BY <1>4 DEF Upsert
<1>6. ask[q].found[x[2]] # None => ask[q].found[x[2]] \in Criticality
  BY <1>1, <1>2 DEF Directory
<1> QED BY <1>1, <1>3, <1>5, <1>6 DEF Row

LEMMA MarkRows ==
  ASSUME TypeInv, NEW q \in Request, MarkUnseen(q), NEW x \in Script
  PROVE  /\ ask[q].now \in Nat
         /\ row[x] \in Row \cup {None}
         /\ IF x[1] = ask[q].source /\ row[x] # None /\ ask[q].found[x[2]] = None
            THEN /\ row'[x] \in Row /\ row'[x].presentAt = row[x].presentAt
                 /\ row'[x].scannedAt = ask[q].now
                 /\ row'[x].criticality = row[x].criticality
            ELSE row'[x] = row[x]
<1>1. ask[q].now \in Nat BY DEF TypeInv, TypeOK, Ask
<1>2. row[x] \in Row \cup {None} BY DEF TypeInv, TypeOK, List
<1>3. row'[x] = IF x[1] = ask[q].source /\ row[x] # None /\ ask[q].found[x[2]] = None
                THEN [row[x] EXCEPT !.scannedAt = ask[q].now] ELSE row[x]
  BY DEF MarkUnseen
<1> QED BY <1>1, <1>2, <1>3 DEF Row

LEMMA TypeStart ==
  ASSUME TypeInv, NEW c \in Console,
         FindScript(c) \/ CreateRun(c) \/ \E x \in Script : PressStart(c, x)
  PROVE  TypeInv' /\ UNCHANGED <<disk, mapping, row, clock, ask, screen, history>>
<1> USE DEF TypeInv
<1>1. ASSUME NEW x \in Script, PressStart(c, x) PROVE start' \in [Console -> Start \cup {NoStart}]
  <2>1. screen[c][x] \in Row BY <1>1 DEF PressStart, Present, TypeOK, List
  <2>2. [script |-> x, shown |-> screen[c][x], read |-> None] \in Start BY <2>1 DEF Start
  <2> QED BY <1>1, <2>2 DEF PressStart, TypeOK
<1>2. ASSUME FindScript(c) PROVE start' \in [Console -> Start \cup {NoStart}]
  <2>1. start[c] \in Start BY <1>2 DEF FindScript, TypeOK
  <2>2. start[c].script \in Script BY <2>1 DEF Start
  <2>3. row[start[c].script] \in Row \cup {None} BY <2>2 DEF TypeOK, List
  <2>4. [start[c] EXCEPT !.read = row[start[c].script]] \in Start BY <2>1, <2>3 DEF Start
  <2>5. start' = [start EXCEPT ![c] = IF Present(row[start[c].script])
                    THEN [start[c] EXCEPT !.read = row[start[c].script]] ELSE NoStart]
    BY <1>2 DEF FindScript, TypeOK
  <2> QED BY <2>4, <2>5 DEF TypeOK
<1>3. ASSUME CreateRun(c) PROVE /\ start' \in [Console -> Start \cup {NoStart}]
                                /\ runs' \subseteq [script : Script, shown : Row, read : Row,
                                                    criticality : Criticality]
  <2>1. start[c] \in Start /\ start[c].read # None BY <1>3 DEF CreateRun, TypeOK
  <2>2. /\ start[c].script \in Script /\ start[c].shown \in Row /\ start[c].read \in Row
        /\ start[c].read.criticality \in Criticality
    BY <2>1 DEF Start, Row
  <2> QED BY <1>3, <2>2 DEF CreateRun, TypeOK
<1>4. events' \in 0..MaxEvents
  BY EventTyped DEF FindScript, CreateRun, PressStart, TypeOK
<1>5. UNCHANGED <<disk, mapping, row, clock, ask, screen, history>>
  BY DEF FindScript, CreateRun, PressStart
<1>6. runs' \subseteq [script : Script, shown : Row, read : Row, criticality : Criticality]
      /\ start' \in [Console -> Start \cup {NoStart}]
  BY <1>1, <1>2, <1>3 DEF FindScript, PressStart, TypeOK
<1>7. TypeOK' BY <1>4, <1>5, <1>6 DEF TypeOK, history
<1>8. Placed' BY <1>5 DEF Placed
<1> QED BY <1>5, <1>7, <1>8

(* What happens to a source: others doubt it, or its rows go with it.      *)
Disturb(s) == AddSource(s) \/ \E f \in File, held \in Criticality \cup {None} : ChangeDisk(s, f, held)

LEMMA TypeDisturb ==
  ASSUME TypeInv, NEW s \in Source, Disturb(s)
  PROVE  /\ TypeInv'
         /\ \A q \in Request : /\ Same(ask'[q], ask[q])
                                /\ ask'[q].doubt = IF Listed(q, s) THEN ask[q].doubt \cup {s}
                                                   ELSE ask[q].doubt
<1> USE DEF TypeInv
<1>1. ask' = Doubting(ask, s, None) BY DEF Disturb, AddSource, ChangeDisk
<1>2. ask \in [Request -> Ask] BY DEF TypeOK
<1>3. ask' \in [Request -> Ask]
  BY <1>1, <1>2, DoubtTyped
<1>4. \A q \in Request :
        /\ Same(Doubting(ask, s, None)[q], ask[q])
        /\ Doubting(ask, s, None)[q].doubt = IF q # None /\ Listed(q, s)
             THEN ask[q].doubt \cup {s} ELSE ask[q].doubt
  BY <1>2, DoubtTyped, Zenon
<1>5. \A q \in Request : /\ Same(ask'[q], ask[q])
                         /\ ask'[q].doubt = IF Listed(q, s) THEN ask[q].doubt \cup {s}
                                            ELSE ask[q].doubt
  BY <1>1, <1>4, NoneAssumption
<1>6. Placed' BY <1>5 DEF Placed, Same, Scanning
<1>7. /\ disk' \in [Source -> Directory]
      /\ mapping' \in [Source -> {"new", "mapped", "removed"}]
  <2>1. CASE AddSource(s) BY <2>1 DEF AddSource, TypeOK
  <2>2. ASSUME NEW f \in File, NEW held \in Criticality \cup {None}, ChangeDisk(s, f, held)
        PROVE  <1>7!1 /\ <1>7!2
    <3>1. [disk[s] EXCEPT ![f] = held] \in Directory BY DEF TypeOK, Directory
    <3>2. disk' = [disk EXCEPT ![s] = [disk[s] EXCEPT ![f] = held]]
      BY <2>2 DEF ChangeDisk, TypeOK
    <3> QED BY <2>2, <3>1, <3>2 DEF ChangeDisk, TypeOK
  <2> QED BY <2>1, <2>2 DEF Disturb
<1>8. events' \in 0..MaxEvents BY EventTyped DEF Disturb, AddSource, ChangeDisk
<1>9. UNCHANGED <<row, clock, screen, start, runs, history>>
  BY DEF Disturb, AddSource, ChangeDisk
<1>10. TypeOK' BY <1>3, <1>7, <1>8, <1>9 DEF TypeOK, history
<1> QED BY <1>5, <1>6, <1>10

LEMMA TypeElse ==
  ASSUME TypeInv, Tick \/ \E s \in Source : RemoveSource(s)
  PROVE  TypeInv' /\ UNCHANGED <<disk, ask, screen, start, runs, history>>
<1> USE DEF TypeInv
<1>1. events' \in 0..MaxEvents BY EventTyped DEF Tick, RemoveSource
<1>2. UNCHANGED <<disk, ask, screen, start, runs, history>> BY DEF Tick, RemoveSource
<1>3. clock' \in Nat BY DEF Tick, RemoveSource, TypeOK
<1>4. row' \in List /\ mapping' \in [Source -> {"new", "mapped", "removed"}]
  BY DEF Tick, RemoveSource, TypeOK, List
<1>5. Placed' BY <1>2 DEF Placed
<1>6. TypeOK' BY <1>1, <1>2, <1>3, <1>4 DEF TypeOK, history
<1> QED BY <1>2, <1>5, <1>6

LEMMA Steps ==   \* the kinds of steps there are
  ASSUME [Next]_vars
  PROVE  \/ \E q \in Request : Open(q) \/ Serve(q)
         \/ \E c \in Console : FindScript(c) \/ CreateRun(c) \/ \E x \in Script : PressStart(c, x)
         \/ \E s \in Source : Disturb(s)
         \/ Tick \/ \E s \in Source : RemoveSource(s)
         \/ UNCHANGED vars
BY DEF Next, Disturb

LEMMA TypeStep == TypeInv /\ [Next]_vars => TypeInv'
<1>1. ASSUME TypeInv, UNCHANGED vars PROVE TypeInv'
  BY <1>1 DEF TypeInv, TypeOK, Placed, vars, history
<1> QED BY <1>1, Steps, TypeServe, TypeStart, TypeDisturb, TypeElse

(* Every variable keeps its type, and a row that is written has the header *)
(* of a script that was seen.                                              *)
THEOREM TypeCorrect == Spec => []TypeOK
<1>1. TypeInv => TypeOK BY DEF TypeInv
<1> QED BY <1>1, TypeInit, TypeStep, PTL DEF Spec

-----------------------------------------------------------------------------
\* Runs and their rows

MapInv ==
  /\ TypeInv
  /\ \A x \in Script : row[x] # None => mapping[x[1]] = "mapped"
  /\ RunKeepsItsScript

LEMMA MapStep == MapInv /\ [Next]_vars => MapInv'
<1> SUFFICES ASSUME MapInv, [Next]_vars PROVE MapInv' OBVIOUS
<1> USE DEF MapInv
<1>0. TypeInv' BY TypeStep
<1>1. ASSUME NEW q \in Request, Open(q) \/ Serve(q) PROVE MapInv'
  <2>1. mapping' = mapping /\ runs' = runs
    BY <1>1 DEF Serve, Open, CheckAge, ReadSources, Receive, Upsert, UpsertFails, MarkUnseen,
                ListScripts, Show, ScanFails, RunnerScans
  <2>2. \A x \in Script : /\ row[x] # None => row'[x] # None
                          /\ row'[x] # None => mapping[x[1]] = "mapped"
    <3>1. CASE Upsert(q)
      <4>1. ask[q].found \in Directory BY DEF TypeInv, TypeOK, Ask
      <4>2. \A x \in Script : x[2] \in File BY DEF Script
      <4>3. (\E f \in File : ask[q].found[f] # None) => mapping[ask[q].source] = "mapped"
        BY <3>1 DEF Upsert, Held
      <4>4. \A x \in Script :
              \/ x[1] = ask[q].source /\ ask[q].found[x[2]] # None /\ row'[x] \in Row
              \/ row'[x] = row[x]
        BY <3>1, UpsertRows
      <4> QED BY <4>2, <4>3, <4>4, NoneAssumption
    <3>2. CASE MarkUnseen(q)
      <4>1. \A x \in Script : row'[x] = row[x] \/ (row[x] # None /\ row'[x] \in Row)
        BY <3>2, MarkRows
      <4> QED BY <4>1, NoneAssumption
    <3>3. CASE row' = row BY <3>3
    <3> QED BY <1>1, <3>1, <3>2, <3>3
          DEF Serve, Open, CheckAge, ReadSources, Receive, UpsertFails, ListScripts, Show,
              ScanFails, RunnerScans
  <2>3. \A r \in runs : r.script \in Script BY DEF TypeInv, TypeOK
  <2> QED BY <1>0, <2>1, <2>2, <2>3 DEF RunKeepsItsScript
<1>2. ASSUME NEW c \in Console,
             FindScript(c) \/ CreateRun(c) \/ \E x \in Script : PressStart(c, x)
      PROVE  MapInv'
  <2>1. row' = row /\ mapping' = mapping BY <1>2, TypeStart
  <2>2. CASE CreateRun(c)
    <3>1. start[c] \in Start BY <2>2 DEF CreateRun, TypeInv, TypeOK
    <3>2. start[c].script \in Script BY <3>1 DEF Start
    <3>3. \A r \in runs' :
            r \in runs \/ (r.script = start[c].script /\ row[r.script] # None)
      BY <2>2 DEF CreateRun
    <3> QED BY <1>0, <2>1, <3>2, <3>3 DEF RunKeepsItsScript
  <2>3. CASE runs' = runs BY <1>0, <2>1, <2>3 DEF RunKeepsItsScript
  <2> QED BY <1>2, <2>2, <2>3 DEF FindScript, PressStart
<1>3. ASSUME NEW s \in Source, Disturb(s) PROVE MapInv'
  <2>1. row' = row /\ runs' = runs BY <1>3 DEF Disturb, AddSource, ChangeDisk
  <2>2. \A t \in Source : mapping[t] = "mapped" => mapping'[t] = "mapped"
    BY <1>3 DEF Disturb, AddSource, ChangeDisk, TypeInv, TypeOK
  <2>3. \A x \in Script : x[1] \in Source BY DEF Script
  <2>4. \A r \in runs : r.script \in Script BY DEF TypeInv, TypeOK
  <2> QED BY <1>0, <2>1, <2>2, <2>3, <2>4 DEF RunKeepsItsScript
<1>4. ASSUME NEW s \in Source, RemoveSource(s) PROVE MapInv'
  <2>1. runs' = runs BY <1>4 DEF RemoveSource
  <2>2. \A x \in Script : x[1] \in Source BY DEF Script
  <2>3. \A r \in runs : r.script \in Script /\ r.script[1] # s
    BY <1>4 DEF RemoveSource, TypeInv, TypeOK
  <2>4. \A x \in Script : x[1] # s => row'[x] = row[x] /\ mapping'[x[1]] = mapping[x[1]]
    BY <1>4, <2>2 DEF RemoveSource, TypeInv, TypeOK
  <2>5. \A x \in Script : x[1] = s => row'[x] = None BY <1>4 DEF RemoveSource
  <2> QED BY <1>0, <2>1, <2>3, <2>4, <2>5 DEF RunKeepsItsScript
<1>5. CASE UNCHANGED <<row, mapping, runs>> BY <1>0, <1>5 DEF RunKeepsItsScript
<1> QED BY <1>1, <1>2, <1>3, <1>4, <1>5, Steps DEF Tick, vars

LEMMA MapInit == Init => MapInv
<1> SUFFICES ASSUME Init PROVE MapInv OBVIOUS
<1>1. \A x \in Script : row[x] = None BY DEF Init, Nothing
<1>2. runs = {} BY DEF Init
<1> QED BY <1>1, <1>2, TypeInit DEF MapInv, RunKeepsItsScript

(* However sources are mapped, unmapped and scanned, the row of a script   *)
(* that was started stays, and so does the source it is in.                *)
THEOREM HistoryStays == Spec => []RunKeepsItsScript
<1>1. MapInv => RunKeepsItsScript BY DEF MapInv
<1> QED BY <1>1, MapInit, MapStep, PTL DEF Spec

-----------------------------------------------------------------------------
\* Stamps: no two scans have the same, and none is ahead of the clock

Writing(q) == ask[q].at \in {"upsert", "mark"}

StampInv ==
  /\ \A x \in Script : row[x] # None => row[x].presentAt <= clock /\ row[x].scannedAt <= clock
  /\ \A q \in Request : ask[q].opened <= clock /\ (Writing(q) => ask[q].now <= clock)
  /\ \A p, q \in Request : p # q /\ Writing(p) /\ Writing(q) => ask[p].now # ask[q].now

(* What becomes of the requests that a step does not move.                 *)
LEMMA Others ==
  ASSUME TypeInv, NEW q \in Request, Open(q) \/ Serve(q)
  PROVE  \A p \in Request : p # q =>
           /\ ask'[p].at = ask[p].at /\ ask'[p].opened = ask[p].opened /\ ask'[p].todo = ask[p].todo
           /\ ask'[p].source = ask[p].source /\ ask'[p].found = ask[p].found
           /\ ask'[p].now = ask[p].now /\ ask'[p].rows = ask[p].rows
           /\ ask[p].doubt \subseteq ask'[p].doubt
<1> USE DEF TypeInv
<1>1. CASE Upsert(q)
  <2> DEFINE s == ask[q].source  asks == [ask EXCEPT ![q].at = "mark"]
  <2>1. s \in Source BY <1>1 DEF Upsert, AskIs, Placed, Scanning
  <2>2. [ask[q] EXCEPT !.at = "mark"] \in Ask BY DEF TypeOK, Ask, At
  <2>3. asks \in [Request -> Ask] /\ \A p \in Request : p # q => asks[p] = ask[p]
    BY <2>2 DEF TypeOK
  <2>4. ask' = Doubting(asks, s, q) BY <1>1 DEF Upsert
  <2> HIDE DEF asks, s
  <2>5. \A p \in Request : /\ Same(ask'[p], asks[p])
                           /\ ask'[p].doubt = IF p # q /\ Listed(p, s) THEN asks[p].doubt \cup {s}
                                              ELSE asks[p].doubt
    BY <2>1, <2>3, <2>4, DoubtTyped, Zenon
  <2>6. \A p \in Request : p # q => Same(ask'[p], ask[p]) BY <2>3, <2>5
  <2>7. ASSUME NEW p \in Request, p # q PROVE ask[p].doubt \subseteq ask'[p].doubt
    <3>1. asks[p].doubt \subseteq ask'[p].doubt BY <2>5
    <3> QED BY <2>3, <2>7, <3>1
  <2> QED BY <2>6, <2>7 DEF Same
<1>2. CASE MarkUnseen(q)
  <2> DEFINE s == ask[q].source  asks == [ask EXCEPT ![q] = Passed(q, s)]
  <2>1. s \in Source BY <1>2 DEF MarkUnseen, AskIs, Placed, Scanning
  <2>2. Passed(q, s) \in Ask BY <2>1, PassedTyped
  <2>3. asks \in [Request -> Ask] /\ \A p \in Request : p # q => asks[p] = ask[p]
    BY <2>2 DEF TypeOK
  <2>4. ask' = Doubting(asks, s, q) BY <1>2 DEF MarkUnseen
  <2> HIDE DEF asks, s
  <2>5. \A p \in Request : /\ Same(ask'[p], asks[p])
                           /\ ask'[p].doubt = IF p # q /\ Listed(p, s) THEN asks[p].doubt \cup {s}
                                              ELSE asks[p].doubt
    BY <2>1, <2>3, <2>4, DoubtTyped, Zenon
  <2>6. \A p \in Request : p # q => Same(ask'[p], ask[p]) BY <2>3, <2>5
  <2>7. ASSUME NEW p \in Request, p # q PROVE ask[p].doubt \subseteq ask'[p].doubt
    <3>1. asks[p].doubt \subseteq ask'[p].doubt BY <2>5
    <3> QED BY <2>3, <2>7, <3>1
  <2> QED BY <2>6, <2>7 DEF Same
<1>3. ASSUME NEW s \in Source, NEW unread \in SUBSET File, RunnerScans(q, s, unread)
      PROVE  \A p \in Request : p # q =>
               ask'[p] = [ask[p] EXCEPT !.alone = @ /\ p \notin Scans(s, q)]
  BY <1>3 DEF RunnerScans
<1>4. CASE \A p \in Request : p # q => ask'[p] = ask[p]
  BY <1>4
<1>5. ASSUME Open(q) \/ CheckAge(q) \/ ReadSources(q) \/ Receive(q) \/ UpsertFails(q)
             \/ ListScripts(q) \/ Show(q) \/ \E s \in Source : ScanFails(q, s)
      PROVE  \A p \in Request : p # q => ask'[p] = ask[p]
  BY <1>5 DEF Open, CheckAge, Go, ReadSources, Receive, UpsertFails, ListScripts, Show, ScanFails,
              TypeOK
<1>6. \A p \in Request : ask[p] \in Ask BY DEF TypeOK
<1>7. ASSUME NEW p \in Request, NEW s, p # q,
             ask'[p] = [ask[p] EXCEPT !.alone = @ /\ p \notin Scans(s, q)]
      PROVE  /\ ask'[p].at = ask[p].at /\ ask'[p].opened = ask[p].opened
             /\ ask'[p].todo = ask[p].todo
             /\ ask'[p].source = ask[p].source /\ ask'[p].found = ask[p].found
             /\ ask'[p].now = ask[p].now /\ ask'[p].rows = ask[p].rows
             /\ ask[p].doubt \subseteq ask'[p].doubt
  BY <1>6, <1>7 DEF Ask
<1> QED BY <1>1, <1>2, <1>3, <1>4, <1>5, <1>7 DEF Serve

(* What becomes of the one it does move, action by action.                 *)
LEMMA AfterOpen ==
  ASSUME TypeInv, NEW q \in Request, Open(q)
  PROVE  /\ ask'[q].at = (IF q[2] = "load" THEN "age" ELSE "sources")
         /\ ask'[q].opened = (IF q[2] = "load" THEN clock ELSE 0)
         /\ ask'[q].todo = {} /\ ask'[q].rows = Nothing /\ ask'[q].doubt = {}
<1>1. ask \in [Request -> Ask] BY DEF TypeInv, TypeOK
<1> QED BY <1>1 DEF Open, Rest

LEMMA AfterAge ==
  ASSUME TypeInv, NEW q \in Request, CheckAge(q)
  PROVE  /\ ask[q].at = "age" /\ ask'[q].at = (IF Stale THEN "sources" ELSE "list")
         /\ ask'[q].opened = ask[q].opened /\ ask'[q].todo = ask[q].todo
         /\ ask'[q].rows = ask[q].rows /\ ask'[q].doubt = ask[q].doubt
<1>1. ask \in [Request -> Ask] /\ ask[q] \in Ask BY DEF TypeInv, TypeOK
<1>2. ask'[q] = [ask[q] EXCEPT !.at = IF Stale THEN "sources" ELSE "list"]
  BY <1>1 DEF CheckAge, Go
<1>3. ask[q].at = "age" BY DEF CheckAge, AskIs
<1> QED BY <1>1, <1>2, <1>3 DEF Ask

LEMMA AfterSources ==
  ASSUME TypeInv, NEW q \in Request, ReadSources(q)
  PROVE  /\ ask'[q].at = "scan" /\ ask'[q].todo = InArea
         /\ ask'[q].opened = ask[q].opened
         /\ ask'[q].rows = ask[q].rows /\ ask'[q].doubt = ask[q].doubt
<1>1. ask \in [Request -> Ask] /\ ask[q] \in Ask BY DEF TypeInv, TypeOK
<1>2. ask'[q] = [ask[q] EXCEPT !.at = "scan", !.todo = InArea] BY <1>1 DEF ReadSources
<1> QED BY <1>1, <1>2 DEF Ask

LEMMA AfterScan ==
  ASSUME TypeInv, NEW q \in Request, NEW s \in Source, NEW unread \in SUBSET File,
         RunnerScans(q, s, unread)
  PROVE  /\ ask[q].at = "scan" /\ s \in ask[q].todo
         /\ ask'[q].at = "reply" /\ ask'[q].source = s
         /\ unread = {} => ask'[q].found = disk[s] /\ ask'[q].doubt = ask[q].doubt
         /\ unread # {} => s \in ask'[q].doubt
         /\ ask[q].doubt \subseteq ask'[q].doubt
         /\ ask'[q].alone = (Scans(s, q) = {})
         /\ ask'[q].opened = ask[q].opened /\ ask'[q].todo = ask[q].todo
         /\ ask'[q].rows = ask[q].rows
         /\ \A p \in Scans(s, q) : ~ask'[p].alone
<1>1. ask[q] \in Ask BY DEF TypeInv, TypeOK
<1>2. PICK found : found = [f \in File |-> IF f \in unread THEN Undeclared ELSE disk[s][f]] OBVIOUS
<1>3. PICK alone : alone = (Scans(s, q) = {}) OBVIOUS
<1>4. PICK doubt : doubt = ask[q].doubt \cup IF unread = {} THEN {} ELSE {s} OBVIOUS
<1>5. ask'[q] = [ask[q] EXCEPT !.at = "reply", !.source = s, !.found = found,
                               !.alone = alone, !.doubt = doubt]
  BY <1>2, <1>3, <1>4 DEF RunnerScans
<1>6. ask[q].at = "scan" /\ s \in ask[q].todo BY DEF RunnerScans, AskIs
<1>7. ASSUME NEW p \in Scans(s, q) PROVE ~ask'[p].alone
  <2>1. p \in Request /\ p # q BY DEF Scans
  <2>2. ask'[p] = [ask[p] EXCEPT !.alone = @ /\ p \notin Scans(s, q)] BY <2>1 DEF RunnerScans
  <2>3. ask[p] \in Ask BY <2>1 DEF TypeInv, TypeOK
  <2> QED BY <2>2, <2>3 DEF Ask
<1>8. /\ ask'[q].at = "reply" /\ ask'[q].source = s /\ ask'[q].found = found
      /\ ask'[q].alone = alone /\ ask'[q].doubt = doubt
      /\ ask'[q].opened = ask[q].opened /\ ask'[q].todo = ask[q].todo
      /\ ask'[q].rows = ask[q].rows
  BY <1>1, <1>5 DEF Ask
<1>9. unread = {} => found = disk[s]
  <2>1. disk[s] \in Directory BY DEF TypeInv, TypeOK
  <2> QED BY <1>2, <2>1 DEF Directory
<1> QED BY <1>3, <1>4, <1>6, <1>7, <1>8, <1>9

LEMMA AfterFailure ==
  ASSUME TypeInv, NEW q \in Request, NEW s \in Source, ScanFails(q, s)
  PROVE  /\ ask[q].at = "scan" /\ ask'[q].at = "scan"
         /\ ask'[q].todo = ask[q].todo \ {s} /\ ask'[q].doubt = ask[q].doubt \cup {s}
         /\ ask'[q].opened = ask[q].opened /\ ask'[q].rows = Nothing
<1>1. ask \in [Request -> Ask] BY DEF TypeInv, TypeOK
<1>2. ask'[q] = [Passed(q, s) EXCEPT !.doubt = @ \cup {s}] BY <1>1 DEF ScanFails
<1>3. ask[q].at = "scan" BY DEF ScanFails, AskIs
<1> QED BY <1>2, <1>3, PassedTyped DEF TypeInv, Ask

LEMMA AfterReply ==
  ASSUME TypeInv, NEW q \in Request, Receive(q)
  PROVE  /\ ask[q].at = "reply" /\ ask'[q].at = "upsert"
         /\ ask'[q].now = clock + 1 /\ clock' = clock + 1
         /\ ask'[q].source = ask[q].source /\ ask'[q].found = ask[q].found
         /\ ask'[q].alone = ask[q].alone /\ ask'[q].doubt = ask[q].doubt
         /\ ask'[q].opened = ask[q].opened /\ ask'[q].todo = ask[q].todo
         /\ ask'[q].rows = ask[q].rows
<1>1. ask \in [Request -> Ask] /\ ask[q] \in Ask BY DEF TypeInv, TypeOK
<1>2. PICK now : now = clock + 1 OBVIOUS
<1>3. ask'[q] = [ask[q] EXCEPT !.at = "upsert", !.now = now] BY <1>1, <1>2 DEF Receive
<1>4. ask[q].at = "reply" /\ clock' = clock + 1 BY DEF Receive, AskIs
<1> QED BY <1>1, <1>2, <1>3, <1>4 DEF Ask

LEMMA AfterUpsert ==
  ASSUME TypeInv, NEW q \in Request, Upsert(q)
  PROVE  /\ ask[q].at = "upsert" /\ ask'[q].at = "mark" /\ ask[q].source \in Source
         /\ ask'[q].now = ask[q].now
         /\ ask'[q].source = ask[q].source /\ ask'[q].found = ask[q].found
         /\ ask'[q].alone = ask[q].alone /\ ask'[q].doubt = ask[q].doubt
         /\ ask'[q].opened = ask[q].opened /\ ask'[q].todo = ask[q].todo
         /\ ask'[q].rows = ask[q].rows
<1>1. ask \in [Request -> Ask] /\ ask[q] \in Ask BY DEF TypeInv, TypeOK
<1>2. ask'[q] = [ask[q] EXCEPT !.at = "mark"] BY <1>1 DEF Upsert, Doubting
<1>3. ask[q].at = "upsert" BY DEF Upsert, AskIs
<1>4. ask[q].source \in Source BY <1>3 DEF TypeInv, Placed, Scanning
<1> QED BY <1>1, <1>2, <1>3, <1>4 DEF Ask

LEMMA AfterMark ==
  ASSUME TypeInv, NEW q \in Request, MarkUnseen(q)
  PROVE  /\ ask[q].at = "mark" /\ ask'[q].at = "scan" /\ ask[q].source \in Source
         /\ ask[q].source \in ask[q].todo
         /\ ask'[q].todo = ask[q].todo \ {ask[q].source} /\ ask'[q].doubt = ask[q].doubt
         /\ ask'[q].opened = ask[q].opened /\ ask'[q].rows = Nothing
<1>1. ask \in [Request -> Ask] BY DEF TypeInv, TypeOK
<1>2. ask[q].at = "mark" BY DEF MarkUnseen, AskIs
<1>3. ask[q].source \in Source /\ ask[q].source \in ask[q].todo
  BY <1>2 DEF TypeInv, Placed, Scanning
<1>4. ask'[q] = Passed(q, ask[q].source) BY <1>1 DEF MarkUnseen, Doubting
<1> QED BY <1>2, <1>3, <1>4, PassedTyped DEF TypeInv

LEMMA AfterList ==
  ASSUME TypeInv, NEW q \in Request, ListScripts(q)
  PROVE  /\ ask[q].at \in {"list", "scan"} /\ (ask[q].at = "scan" => ask[q].todo = {})
         /\ ask'[q].at = "answered" /\ ask'[q].rows = row
         /\ ask'[q].opened = ask[q].opened /\ ask'[q].todo = ask[q].todo
         /\ ask'[q].doubt = ask[q].doubt
<1>1. ask \in [Request -> Ask] /\ ask[q] \in Ask BY DEF TypeInv, TypeOK
<1>2. ask'[q] = [ask[q] EXCEPT !.at = "answered", !.rows = row] BY <1>1 DEF ListScripts
<1>3. ask[q].at \in {"list", "scan"} /\ (ask[q].at = "scan" => ask[q].todo = {})
  BY DEF ListScripts, AskIs
<1> QED BY <1>1, <1>2, <1>3 DEF Ask

LEMMA AfterEnd ==
  ASSUME TypeInv, NEW q \in Request, UpsertFails(q) \/ Show(q)
  PROVE  /\ ask'[q].at = "idle" /\ ask'[q].opened = 0 /\ ask'[q].todo = {}
         /\ ask'[q].rows = Nothing /\ ask'[q].doubt = {}
<1>1. ask \in [Request -> Ask] BY DEF TypeInv, TypeOK
<1>2. ask'[q] = Rest BY <1>1 DEF UpsertFails, Show
<1> QED BY <1>2 DEF Rest

LEMMA Mapping ==   \* what requests never do
  ASSUME NEW q \in Request, Open(q) \/ Serve(q)
  PROVE  UNCHANGED <<disk, mapping, start, runs>>
BY DEF Serve, Open, CheckAge, ReadSources, Receive, Upsert, UpsertFails, MarkUnseen, ListScripts,
       Show, ScanFails, RunnerScans

LEMMA Quiet ==     \* and the only three that write
  ASSUME NEW q \in Request, Open(q) \/ Serve(q)
  PROVE  /\ ~Upsert(q) /\ ~MarkUnseen(q) => row' = row
         /\ ~MarkUnseen(q) => last' = last /\ mixed' = mixed
         /\ ~Receive(q) => clock' = clock
         /\ ~Show(q) => screen' = screen
BY DEF Serve, Open, CheckAge, ReadSources, Receive, Upsert, UpsertFails, MarkUnseen, ListScripts,
       Show, ScanFails, RunnerScans, history

LEMMA OwnStamp ==
  ASSUME TypeInv, NEW q \in Request, Open(q) \/ Serve(q)
  PROVE  /\ ask'[q].opened \in {ask[q].opened, clock, 0}
         /\ ask'[q].at \in {"upsert", "mark"} =>
              \/ Receive(q) /\ ask'[q].now = clock + 1
              \/ Upsert(q) /\ ask'[q].now = ask[q].now
<1>1. CASE Open(q) BY <1>1, AfterOpen
<1>2. CASE CheckAge(q) BY <1>2, AfterAge
<1>3. CASE ReadSources(q) BY <1>3, AfterSources
<1>4. CASE Receive(q) BY <1>4, AfterReply
<1>5. CASE Upsert(q) BY <1>5, AfterUpsert
<1>6. CASE UpsertFails(q) \/ Show(q) BY <1>6, AfterEnd
<1>7. CASE MarkUnseen(q) BY <1>7, AfterMark
<1>8. CASE ListScripts(q) BY <1>8, AfterList
<1>9. CASE \E s \in Source : ScanFails(q, s) BY <1>9, AfterFailure
<1>10. CASE \E s \in Source, unread \in SUBSET File : RunnerScans(q, s, unread)
  BY <1>10, AfterScan
<1> QED BY <1>1, <1>2, <1>3, <1>4, <1>5, <1>6, <1>7, <1>8, <1>9, <1>10 DEF Serve

LEMMA StampServe ==
  ASSUME TypeInv, StampInv, NEW q \in Request, Open(q) \/ Serve(q)
  PROVE  StampInv'
<1> DEFINE o == ask[q]
<1>0. o \in Ask /\ clock \in Nat /\ ask \in [Request -> Ask] BY DEF TypeInv, TypeOK
<1>1. clock' \in Nat /\ clock <= clock'
  <2>1. CASE Receive(q) BY <1>0, <2>1 DEF Receive
  <2>2. CASE ~Receive(q) BY <1>0, <2>2, Quiet
  <2> QED BY <2>1, <2>2
<1>2. \A x \in Script : row[x] # None => row[x].presentAt \in Nat /\ row[x].scannedAt \in Nat
  BY DEF TypeInv, TypeOK, List, Row
<1>3. o.now \in Nat /\ o.opened \in Nat /\ \A p \in Request : ask[p].now \in Nat /\ ask[p].opened \in Nat
  BY <1>0 DEF Ask
<1>4. \A x \in Script : row'[x] # None => row'[x].presentAt <= clock' /\ row'[x].scannedAt <= clock'
  <2>1. CASE Upsert(q)
    <3>1. o.now <= clock BY <2>1 DEF Upsert, AskIs, StampInv, Writing
    <3>2. \A x \in Script : \/ row'[x] = row[x]
                            \/ row'[x].presentAt = o.now /\ row'[x].scannedAt = o.now
      BY <2>1, UpsertRows
    <3> QED BY <1>0, <1>1, <1>2, <1>3, <3>1, <3>2 DEF StampInv
  <2>2. CASE MarkUnseen(q)
    <3>1. o.now <= clock BY <2>2 DEF MarkUnseen, AskIs, StampInv, Writing
    <3>2. \A x \in Script : \/ row'[x] = row[x]
                            \/ row[x] # None /\ row'[x].presentAt = row[x].presentAt
                               /\ row'[x].scannedAt = o.now
      BY <2>2, MarkRows
    <3> QED BY <1>0, <1>1, <1>2, <1>3, <3>1, <3>2 DEF StampInv
  <2>3. CASE row' = row
    <3>1. \A x \in Script : row[x] # None => row[x].presentAt <= clock /\ row[x].scannedAt <= clock
      BY DEF StampInv
    <3> QED BY <1>0, <1>1, <1>2, <2>3, <3>1
  <2> QED BY <2>1, <2>2, <2>3, Quiet
<1>5. \A p \in Request : p # q => /\ ask'[p].at = ask[p].at /\ ask'[p].opened = ask[p].opened
                                  /\ ask'[p].now = ask[p].now
  BY Others
<1>6. /\ ask'[q].opened \in {o.opened, clock, 0}
      /\ Writing(q)' =>
           \/ Receive(q) /\ ask'[q].now = clock + 1 /\ clock' = clock + 1
           \/ ~Receive(q) /\ ask'[q].now = o.now /\ Writing(q)
  <2>1. Upsert(q) => ~Receive(q) /\ Writing(q) BY DEF Upsert, Receive, AskIs, Writing
  <2>2. Receive(q) => clock' = clock + 1 BY DEF Receive
  <2> QED BY <2>1, <2>2, OwnStamp DEF Writing
<1>7. \A p \in Request : ask'[p].opened <= clock' /\ (Writing(p)' => ask'[p].now <= clock')
  <2>1. \A p \in Request : ask[p].opened <= clock /\ (Writing(p) => ask[p].now <= clock)
    BY DEF StampInv
  <2>2. \A p \in Request : p # q => ask'[p].opened <= clock' /\ (Writing(p)' => ask'[p].now <= clock')
    BY <1>0, <1>1, <1>3, <1>5, <2>1 DEF Writing
  <2>3. ask'[q].opened <= clock' BY <1>0, <1>1, <1>3, <1>6, <2>1
  <2>4. Writing(q)' => ask'[q].now <= clock' BY <1>0, <1>1, <1>3, <1>6, <2>1 DEF Writing
  <2> QED BY <2>2, <2>3, <2>4
<1>8. ASSUME NEW p \in Request, NEW r \in Request, p # r, Writing(p)', Writing(r)'
      PROVE  ask'[p].now # ask'[r].now
  <2>1. \A a, b \in Request : a # b /\ Writing(a) /\ Writing(b) => ask[a].now # ask[b].now
    BY DEF StampInv
  <2>2. \A a \in Request : Writing(a) => ask[a].now <= clock BY DEF StampInv
  <2>3. \A a \in Request : a # q /\ Writing(a)' => Writing(a) /\ ask'[a].now = ask[a].now
    BY <1>5 DEF Writing
  <2>4. CASE p # q /\ r # q BY <1>8, <2>1, <2>3, <2>4
  <2>5. CASE Receive(q)
    <3>1. Writing(q)' => ask'[q].now = clock + 1 BY <1>6, <2>5 DEF Writing
    <3> QED BY <1>0, <1>3, <1>8, <2>2, <2>3, <2>4, <3>1
  <2>6. CASE ~Receive(q)
    <3>1. Writing(q)' => Writing(q) /\ ask'[q].now = o.now BY <1>6, <2>6 DEF Writing
    <3> QED BY <1>8, <2>1, <2>3, <3>1
  <2> QED BY <2>5, <2>6
<1> QED BY <1>4, <1>7, <1>8 DEF StampInv

LEMMA StampStep == TypeInv /\ StampInv /\ [Next]_vars => StampInv'
<1> SUFFICES ASSUME TypeInv, StampInv, [Next]_vars PROVE StampInv' OBVIOUS
<1>0. clock \in Nat /\ TypeInv' BY TypeStep DEF TypeInv, TypeOK
<1>1. ASSUME \A q \in Request : /\ ask'[q].at = ask[q].at /\ ask'[q].opened = ask[q].opened
                                /\ ask'[q].now = ask[q].now,
             \A x \in Script : row'[x] \in {None, row[x]},
             clock' \in {clock, clock + 1}
      PROVE  StampInv'
  <2>1. \A x \in Script : row[x] # None => row[x].presentAt \in Nat /\ row[x].scannedAt \in Nat
    BY DEF TypeInv, TypeOK, List, Row
  <2>2. \A q \in Request : ask[q].now \in Nat /\ ask[q].opened \in Nat
    BY DEF TypeInv, TypeOK, Ask
  <2>3. \A x \in Script : row'[x] # None => row'[x].presentAt <= clock' /\ row'[x].scannedAt <= clock'
    BY <1>0, <1>1, <2>1 DEF StampInv
  <2>4. \A q \in Request : ask'[q].opened <= clock' /\ (Writing(q)' => ask'[q].now <= clock')
    BY <1>0, <1>1, <2>2 DEF StampInv, Writing
  <2>5. \A p, q \in Request : p # q /\ Writing(p)' /\ Writing(q)' => ask'[p].now # ask'[q].now
    BY <1>1 DEF StampInv, Writing
  <2> QED BY <2>3, <2>4, <2>5 DEF StampInv
<1>2. ASSUME NEW c \in Console,
             FindScript(c) \/ CreateRun(c) \/ \E x \in Script : PressStart(c, x)
      PROVE  StampInv'
  BY <1>1, <1>2, TypeStart
<1>3. ASSUME NEW s \in Source, Disturb(s) PROVE StampInv'
  <2>1. row' = row /\ clock' = clock BY <1>3 DEF Disturb, AddSource, ChangeDisk
  <2>2. \A q \in Request : Same(ask'[q], ask[q]) BY <1>3, TypeDisturb
  <2> QED BY <1>1, <2>1, <2>2 DEF Same
<1>4. ASSUME Tick \/ \E s \in Source : RemoveSource(s) PROVE StampInv'
  <2>1. ask' = ask BY <1>4, TypeElse
  <2>2. clock' \in {clock, clock + 1} /\ \A x \in Script : row'[x] \in {None, row[x]}
    BY <1>4 DEF Tick, RemoveSource
  <2> QED BY <1>1, <2>1, <2>2
<1>5. CASE UNCHANGED vars BY <1>1, <1>5 DEF vars
<1> QED BY <1>2, <1>3, <1>4, <1>5, Steps, StampServe

LEMMA StampInit == Init => StampInv
<1> SUFFICES ASSUME Init PROVE StampInv OBVIOUS
<1>1. \A x \in Script : row[x] = None BY DEF Init, Nothing
<1>2. \A q \in Request : ask[q].opened = 0 /\ ask[q].at = "idle" BY DEF Init, Rest
<1> QED BY <1>1, <1>2 DEF Init, StampInv, Writing

-----------------------------------------------------------------------------
\* Entries: whatever shows the same scan of a script shows the same header

IsSeen(x, r) ==   \* somewhere in the system there is this entry for the script
  /\ r \in Row
  /\ \/ r = row[x]
     \/ \E q \in Request : r = ask[q].rows[x]
     \/ \E c \in Console : r = screen[c][x]
     \/ \E c \in Console : /\ start[c] # NoStart /\ start[c].script = x
                           /\ r \in {start[c].shown, start[c].read}

ToWrite(q, x) ==  \* the request has a stamp for the script that it has not written
  /\ ask[q].source = x[1]
  /\ \/ ask[q].at = "upsert"
     \/ ask[q].at = "mark" /\ ask[q].found[x[2]] = None

SeenInv ==
  /\ \A x \in Script, r \in Row : IsSeen(x, r) => r.scannedAt <= clock
  /\ \A x \in Script, r, w \in Row :
       IsSeen(x, r) /\ IsSeen(x, w) /\ r.scannedAt = w.scannedAt => r.criticality = w.criticality
  /\ \A q \in Request, x \in Script, r \in Row :
       ToWrite(q, x) /\ IsSeen(x, r) => r.scannedAt # ask[q].now
  /\ \A c \in Console : start[c] # NoStart /\ start[c].read # None => Present(start[c].read)
  /\ StartedAsShown

LEMMA OwnRows ==
  ASSUME TypeInv, NEW q \in Request, Open(q) \/ Serve(q)
  PROVE  ask'[q].rows \in {Nothing, ask[q].rows, row}
<1>1. CASE Open(q) BY <1>1, AfterOpen
<1>2. CASE CheckAge(q) BY <1>2, AfterAge
<1>3. CASE ReadSources(q) BY <1>3, AfterSources
<1>4. CASE Receive(q) BY <1>4, AfterReply
<1>5. CASE Upsert(q) BY <1>5, AfterUpsert
<1>6. CASE UpsertFails(q) \/ Show(q) BY <1>6, AfterEnd
<1>7. CASE MarkUnseen(q) BY <1>7, AfterMark
<1>8. CASE ListScripts(q) BY <1>8, AfterList
<1>9. CASE \E s \in Source : ScanFails(q, s) BY <1>9, AfterFailure
<1>10. CASE \E s \in Source, unread \in SUBSET File : RunnerScans(q, s, unread)
  BY <1>10, AfterScan
<1> QED BY <1>1, <1>2, <1>3, <1>4, <1>5, <1>6, <1>7, <1>8, <1>9, <1>10 DEF Serve

LEMMA SeenGrows ==  \* an entry that turns up was in the system, or is written now
  ASSUME TypeInv, [Next]_vars, NEW x \in Script, NEW r \in Row, IsSeen(x, r)'
  PROVE  IsSeen(x, r) \/ r = row'[x]
<1>0. r # None /\ Nothing[x] = None BY NoneAssumption DEF Nothing
<1>1. ASSUME NEW q \in Request, Open(q) \/ Serve(q) PROVE IsSeen(x, r) \/ r = row'[x]
  <2>1. start' = start BY <1>1, Mapping
  <2>2. \A p \in Request : r = ask'[p].rows[x] => r = row[x] \/ \E a \in Request : r = ask[a].rows[x]
    <3>1. ask'[q].rows[x] = r => r = row[x] \/ r = ask[q].rows[x] BY <1>0, <1>1, OwnRows
    <3>2. \A p \in Request : p # q => ask'[p].rows = ask[p].rows BY <1>1, Others
    <3> QED BY <3>1, <3>2
  <2>3. \A c \in Console : r = screen'[c][x] =>
           r = screen[c][x] \/ \E a \in Request : r = ask[a].rows[x]
    <3>1. CASE Show(q) BY <3>1 DEF Show, TypeInv, TypeOK
    <3>2. CASE ~Show(q) BY <1>1, <3>2, Quiet
    <3> QED BY <3>1, <3>2
  <2> QED BY <2>1, <2>2, <2>3 DEF IsSeen
<1>2. ASSUME NEW c \in Console,
             FindScript(c) \/ CreateRun(c) \/ \E y \in Script : PressStart(c, y)
      PROVE  IsSeen(x, r) \/ r = row'[x]
  <2>1. ask' = ask /\ row' = row /\ screen' = screen
    BY <1>2 DEF FindScript, CreateRun, PressStart
  <2>2. \A d \in Console : d # c => start'[d] = start[d]
    BY <1>2 DEF FindScript, CreateRun, PressStart, TypeInv, TypeOK
  <2>3. start'[c] # NoStart /\ start'[c].script = x /\ r \in {start'[c].shown, start'[c].read}
        => \/ r = row[x] \/ r = screen[c][x]
           \/ start[c] # NoStart /\ start[c].script = x /\ r \in {start[c].shown, start[c].read}
    <3>1. CASE FindScript(c)
      <4>1. start[c] \in Start BY <3>1 DEF FindScript, TypeInv, TypeOK
      <4>2. start'[c] = NoStart \/ start'[c] = [start[c] EXCEPT !.read = row[start[c].script]]
        BY <3>1 DEF FindScript, TypeInv, TypeOK
      <4>3. start[c] # NoStart BY <3>1 DEF FindScript
      <4> QED BY <4>1, <4>2, <4>3 DEF Start
    <3>2. CASE CreateRun(c)
      <4>1. start'[c] = NoStart BY <3>2 DEF CreateRun, TypeInv, TypeOK
      <4> QED BY <4>1
    <3>3. ASSUME NEW y \in Script, PressStart(c, y) PROVE <2>3
      <4>1. start'[c] = [script |-> y, shown |-> screen[c][y], read |-> None]
        BY <3>3 DEF PressStart, TypeInv, TypeOK
      <4> QED BY <1>0, <4>1
    <3> QED BY <1>2, <3>1, <3>2, <3>3
  <2> QED BY <2>1, <2>2, <2>3 DEF IsSeen
<1>3. ASSUME NEW s \in Source, Disturb(s) PROVE IsSeen(x, r)
  <2>1. row' = row /\ screen' = screen /\ start' = start BY <1>3 DEF Disturb, AddSource, ChangeDisk
  <2>2. \A q \in Request : ask'[q].rows = ask[q].rows BY <1>3, TypeDisturb DEF Same
  <2> QED BY <2>1, <2>2 DEF IsSeen
<1>4. CASE Tick \/ \E s \in Source : RemoveSource(s)
  <2>1. ask' = ask /\ screen' = screen /\ start' = start BY <1>4, TypeElse
  <2> QED BY <2>1 DEF IsSeen
<1>5. CASE UNCHANGED vars BY <1>5 DEF IsSeen, vars
<1> QED BY <1>1, <1>2, <1>3, <1>4, <1>5, Steps

LEMMA Wrote ==   \* a row changes only by what a request still had to write
  ASSUME TypeInv, NEW q \in Request, Open(q) \/ Serve(q), NEW x \in Script, row'[x] # row[x]
  PROVE  /\ ToWrite(q, x) /\ ~ToWrite(q, x)' /\ Writing(q)
         /\ row'[x].scannedAt = ask[q].now
<1>1. CASE Upsert(q)
  <2>1. x[1] = ask[q].source /\ ask[q].found[x[2]] # None /\ row'[x].scannedAt = ask[q].now
    BY <1>1, UpsertRows
  <2> QED BY <1>1, <2>1, AfterUpsert DEF ToWrite, Writing
<1>2. CASE MarkUnseen(q)
  <2>1. x[1] = ask[q].source /\ ask[q].found[x[2]] = None /\ row'[x].scannedAt = ask[q].now
    BY <1>2, MarkRows
  <2> QED BY <1>2, <2>1, AfterMark DEF ToWrite, Writing
<1>3. CASE ~Upsert(q) /\ ~MarkUnseen(q) BY <1>3, Quiet
<1> QED BY <1>1, <1>2, <1>3

LEMMA StillToWrite ==
  ASSUME TypeInv, NEW q \in Request, Open(q) \/ Serve(q),
         NEW p \in Request, NEW x \in Script, ToWrite(p, x)'
  PROVE  \/ ToWrite(p, x) /\ ask'[p].now = ask[p].now
         \/ p = q /\ Receive(q) /\ ask'[p].now = clock + 1
<1>1. CASE p # q BY <1>1, Others DEF ToWrite
<1>2. CASE p = q
  <2>1. CASE Receive(q) BY <1>2, <2>1, AfterReply
  <2>2. CASE Upsert(q) BY <1>2, <2>2, AfterUpsert DEF ToWrite
  <2>3. CASE ~Receive(q) /\ ~Upsert(q)
    <3>1. ~Writing(q)' BY <2>3, OwnStamp DEF Writing
    <3> QED BY <1>2, <3>1 DEF ToWrite, Writing
  <2> QED BY <2>1, <2>2, <2>3
<1> QED BY <1>1, <1>2

LEMMA SeenServe ==
  ASSUME TypeInv, StampInv, SeenInv, NEW q \in Request, Open(q) \/ Serve(q)
  PROVE  SeenInv'
<1>0. [Next]_vars BY DEF Next
<1>1. clock \in Nat /\ clock' \in {clock, clock + 1}
  <2>1. clock \in Nat BY DEF TypeInv, TypeOK
  <2>2. CASE Receive(q) BY <2>1, <2>2 DEF Receive
  <2>3. CASE ~Receive(q) BY <2>1, <2>3, Quiet
  <2> QED BY <2>1, <2>2, <2>3
<1>2. \A x \in Script, r \in Row : IsSeen(x, r)' =>
        \/ IsSeen(x, r)
        \/ r = row'[x] /\ ToWrite(q, x) /\ ~ToWrite(q, x)' /\ Writing(q) /\ r.scannedAt = ask[q].now
  <2> SUFFICES ASSUME NEW x \in Script, NEW r \in Row, IsSeen(x, r)', ~IsSeen(x, r)
               PROVE  /\ r = row'[x] /\ ToWrite(q, x) /\ ~ToWrite(q, x)' /\ Writing(q)
                      /\ r.scannedAt = ask[q].now
    OBVIOUS
  <2>1. r = row'[x] BY <1>0, SeenGrows
  <2>2. r # row[x] BY DEF IsSeen
  <2> QED BY <2>1, <2>2, Wrote
<1>3. \A r \in Row : r.scannedAt \in Nat BY DEF Row
<1>4. ask[q].now \in Nat /\ (Writing(q) => ask[q].now <= clock)
  BY DEF TypeInv, TypeOK, Ask, StampInv
<1>5. \A x \in Script, r \in Row : IsSeen(x, r)' => r.scannedAt <= clock'
  BY <1>1, <1>2, <1>3, <1>4 DEF SeenInv
<1>6. ASSUME NEW x \in Script, NEW r \in Row, NEW w \in Row,
             IsSeen(x, r)', IsSeen(x, w)', r.scannedAt = w.scannedAt
      PROVE  r.criticality = w.criticality
  <2>1. \A a \in Row : ToWrite(q, x) /\ IsSeen(x, a) => a.scannedAt # ask[q].now BY DEF SeenInv
  <2>2. IsSeen(x, r) /\ IsSeen(x, w) => r.criticality = w.criticality BY <1>6 DEF SeenInv
  <2>3. \/ IsSeen(x, r)
        \/ r = row'[x] /\ ToWrite(q, x) /\ r.scannedAt = ask[q].now
    BY <1>2, <1>6
  <2>4. \/ IsSeen(x, w)
        \/ w = row'[x] /\ ToWrite(q, x) /\ w.scannedAt = ask[q].now
    BY <1>2, <1>6
  <2> QED BY <1>6, <2>1, <2>2, <2>3, <2>4
<1>7. ASSUME NEW p \in Request, NEW x \in Script, NEW r \in Row, ToWrite(p, x)', IsSeen(x, r)'
      PROVE  r.scannedAt # ask'[p].now
  <2>1. CASE Receive(q) /\ p = q /\ ask'[p].now = clock + 1
    <3>1. row' = row BY <2>1, Quiet DEF Receive, Upsert, MarkUnseen, AskIs
    <3>2. IsSeen(x, r) BY <1>0, <1>7, <3>1, SeenGrows DEF IsSeen
    <3>3. r.scannedAt <= clock BY <3>2 DEF SeenInv
    <3> QED BY <1>1, <1>3, <2>1, <3>3
  <2>2. CASE ToWrite(p, x) /\ ask'[p].now = ask[p].now
    <3>1. CASE IsSeen(x, r) BY <2>2, <3>1 DEF SeenInv
    <3>2. CASE ~IsSeen(x, r)
      <4>1. ~ToWrite(q, x)' /\ Writing(q) /\ r.scannedAt = ask[q].now BY <1>2, <1>7, <3>2
      <4>2. p # q BY <1>7, <4>1
      <4>3. Writing(p) BY <2>2 DEF ToWrite, Writing
      <4>4. ask[p].now # ask[q].now BY <4>1, <4>2, <4>3 DEF StampInv
      <4> QED BY <2>2, <4>1, <4>4
    <3> QED BY <3>1, <3>2
  <2> QED BY <1>7, <2>1, <2>2, StillToWrite
<1>8. start' = start /\ runs' = runs BY Mapping
<1>9. StartedAsShown' BY <1>8 DEF SeenInv, StartedAsShown
<1>10. \A c \in Console : start'[c] # NoStart /\ start'[c].read # None => Present(start'[c].read)
  BY <1>8 DEF SeenInv
<1> QED BY <1>5, <1>6, <1>7, <1>9, <1>10 DEF SeenInv

LEMMA SeenStep == TypeInv /\ StampInv /\ SeenInv /\ [Next]_vars => SeenInv'
<1> SUFFICES ASSUME TypeInv, StampInv, SeenInv, [Next]_vars PROVE SeenInv' OBVIOUS
<1>1. ASSUME \A q \in Request : Same(ask'[q], ask[q]),
             \A x \in Script : row'[x] \in {None, row[x]},
             clock' \in {clock, clock + 1},
             \A c \in Console : start'[c] # NoStart /\ start'[c].read # None
                                  => Present(start'[c].read),
             StartedAsShown'
      PROVE  SeenInv'
  <2>1. \A x \in Script, r \in Row : IsSeen(x, r)' => IsSeen(x, r)
    <3> SUFFICES ASSUME NEW x \in Script, NEW r \in Row, IsSeen(x, r)' PROVE IsSeen(x, r) OBVIOUS
    <3>1. r # None BY NoneAssumption
    <3>2. r = row'[x] => r = row[x] BY <1>1, <3>1
    <3> QED BY <3>2, SeenGrows DEF IsSeen
  <2>2. \A q \in Request, x \in Script : /\ ToWrite(q, x)' => ToWrite(q, x)
                                         /\ ask'[q].now = ask[q].now
    BY <1>1 DEF ToWrite, Same
  <2>3. \A x \in Script, r \in Row : IsSeen(x, r)' => r.scannedAt <= clock'
    <3>1. clock \in Nat /\ \A r \in Row : r.scannedAt \in Nat BY DEF TypeInv, TypeOK, Row
    <3> QED BY <1>1, <2>1, <3>1 DEF SeenInv
  <2>4. \A x \in Script, r, w \in Row :
          IsSeen(x, r)' /\ IsSeen(x, w)' /\ r.scannedAt = w.scannedAt => r.criticality = w.criticality
    BY <2>1 DEF SeenInv
  <2>5. \A q \in Request, x \in Script, r \in Row :
          ToWrite(q, x)' /\ IsSeen(x, r)' => r.scannedAt # ask'[q].now
    BY <2>1, <2>2 DEF SeenInv
  <2> QED BY <1>1, <2>3, <2>4, <2>5 DEF SeenInv
<1>2. ASSUME NEW c \in Console,
             FindScript(c) \/ CreateRun(c) \/ \E x \in Script : PressStart(c, x)
      PROVE  SeenInv'
  <2>1. ask' = ask /\ row' = row /\ clock' = clock
    BY <1>2 DEF FindScript, CreateRun, PressStart
  <2>2. \A d \in Console : d # c => start'[d] = start[d]
    BY <1>2 DEF FindScript, CreateRun, PressStart, TypeInv, TypeOK
  <2>3. start'[c] # NoStart /\ start'[c].read # None => Present(start'[c].read)
    <3>1. CASE FindScript(c)
      <4>1. start[c] \in Start BY <3>1 DEF FindScript, TypeInv, TypeOK
      <4>2. \/ start'[c] = NoStart
            \/ Present(row[start[c].script])
               /\ start'[c] = [start[c] EXCEPT !.read = row[start[c].script]]
        BY <3>1 DEF FindScript, TypeInv, TypeOK
      <4> QED BY <4>1, <4>2 DEF Start
    <3>2. CASE CreateRun(c)
      <4>1. start'[c] = NoStart BY <3>2 DEF CreateRun, TypeInv, TypeOK
      <4> QED BY <4>1
    <3>3. ASSUME NEW y \in Script, PressStart(c, y) PROVE <2>3
      <4>1. start'[c] = [script |-> y, shown |-> screen[c][y], read |-> None]
        BY <3>3 DEF PressStart, TypeInv, TypeOK
      <4> QED BY <4>1
    <3> QED BY <1>2, <3>1, <3>2, <3>3
  <2>4. StartedAsShown'
    <3>1. CASE CreateRun(c)
      <4> DEFINE b == start[c]
      <4>1. b # NoStart /\ b.read # None /\ b \in Start BY <3>1 DEF CreateRun, TypeInv, TypeOK
      <4>2. b.script \in Script /\ b.shown \in Row /\ b.read \in Row BY <4>1 DEF Start
      <4>3. IsSeen(b.script, b.shown) /\ IsSeen(b.script, b.read) BY <4>1, <4>2 DEF IsSeen
      <4>4. b.read.scannedAt = b.shown.scannedAt => b.read.criticality = b.shown.criticality
        BY <4>2, <4>3 DEF SeenInv
      <4>5. Present(b.read) BY <4>1 DEF SeenInv
      <4>6. \A r \in runs' : r \in runs \/ r = [script |-> b.script, shown |-> b.shown,
                                                read |-> b.read, criticality |-> b.read.criticality]
        BY <3>1 DEF CreateRun
      <4> HIDE DEF b
      <4> QED BY <4>4, <4>5, <4>6 DEF SeenInv, StartedAsShown
    <3>2. CASE runs' = runs BY <3>2 DEF SeenInv, StartedAsShown
    <3> QED BY <1>2, <3>1, <3>2 DEF FindScript, PressStart
  <2>5. \A d \in Console : start'[d] # NoStart /\ start'[d].read # None => Present(start'[d].read)
    BY <2>2, <2>3 DEF SeenInv
  <2> QED BY <1>1, <2>1, <2>4, <2>5 DEF Same
<1>3. ASSUME UNCHANGED <<start, runs>> 
      PROVE  /\ StartedAsShown'
             /\ \A c \in Console : start'[c] # NoStart /\ start'[c].read # None
                                     => Present(start'[c].read)
  BY <1>3 DEF SeenInv, StartedAsShown
<1>4. ASSUME NEW s \in Source, Disturb(s) PROVE SeenInv'
  <2>1. row' = row /\ clock' = clock /\ start' = start /\ runs' = runs
    BY <1>4 DEF Disturb, AddSource, ChangeDisk
  <2>2. \A q \in Request : Same(ask'[q], ask[q]) BY <1>4, TypeDisturb
  <2> QED BY <1>1, <1>3, <2>1, <2>2
<1>5. ASSUME Tick \/ \E s \in Source : RemoveSource(s) PROVE SeenInv'
  <2>1. UNCHANGED <<ask, start, runs>> BY <1>5, TypeElse
  <2>2. clock' \in {clock, clock + 1} /\ \A x \in Script : row'[x] \in {None, row[x]}
    BY <1>5 DEF Tick, RemoveSource
  <2> QED BY <1>1, <1>3, <2>1, <2>2 DEF Same
<1>6. CASE UNCHANGED vars BY <1>1, <1>3, <1>6 DEF vars, Same
<1> QED BY <1>2, <1>4, <1>5, <1>6, Steps, SeenServe

LEMMA SeenInit == Init => SeenInv
<1> SUFFICES ASSUME Init PROVE SeenInv OBVIOUS
<1>1. \A c \in Console : start[c] = NoStart BY DEF Init
<1>2. \A q \in Request : ask[q].rows = Nothing /\ ask[q].at = "idle" BY DEF Init, Rest
<1>3. \A x \in Script : Nothing[x] = None BY DEF Nothing
<1>4. \A x \in Script, r \in Row : ~IsSeen(x, r)
  BY <1>1, <1>2, <1>3, NoneAssumption DEF Init, IsSeen
<1>5. StartedAsShown BY DEF Init, StartedAsShown
<1> QED BY <1>1, <1>2, <1>4, <1>5 DEF SeenInv, ToWrite

(* A run is of a script that was there when it was looked up, and as       *)
(* critical as the page said, unless the entry was scanned again.          *)
THEOREM WarnedAsStarted == Spec => []StartedAsShown
<1> DEFINE Inv == TypeInv /\ StampInv /\ SeenInv
<1>1. Init => Inv BY TypeInit, StampInit, SeenInit
<1>2. Inv /\ [Next]_vars => Inv' BY TypeStep, StampStep, SeenStep
<1>3. Inv => StartedAsShown BY DEF SeenInv
<1> QED BY <1>1, <1>2, <1>3, PTL DEF Spec

-----------------------------------------------------------------------------
\* Whose directories are scanned, and by whom at the same time

TodoInv ==
  /\ \A q \in Request, s \in Source : s \in ask[q].todo => mapping[s] # "new"
  /\ \A q \in Request : ask[q].at \in {"age", "list", "answered"} => ask[q].todo = {}
  /\ \A s \in Source : mapping[s] = "new" => last[s] = Empty
  /\ \A p, q \in Request :
       p # q /\ ask[p].at \in Scanning /\ ask[q].at \in Scanning /\ ask[p].source = ask[q].source
         => ~ask[p].alone
  /\ \A q \in Request : Writing(q) => ask[q].opened <= ask[q].now

LEMMA Overlap ==
  ASSUME TypeInv, NEW q \in Request, Open(q) \/ Serve(q), NEW p \in Request, p # q, ask'[p].alone
  PROVE  ask[p].alone
<1>1. ask \in [Request -> Ask] /\ ask[p] \in Ask BY DEF TypeInv, TypeOK
<1>2. CASE Upsert(q)
  <2> DEFINE asks == [ask EXCEPT ![q].at = "mark"]
  <2>1. asks \in [Request -> Ask] /\ asks[p] = ask[p]
    <3>1. [ask[q] EXCEPT !.at = "mark"] \in Ask BY <1>1 DEF Ask, At
    <3> QED BY <1>1, <3>1
  <2>2. ask' = Doubting(asks, ask[q].source, q) BY <1>2 DEF Upsert
  <2>3. ask[q].source \in Source BY <1>2, AfterUpsert
  <2> HIDE DEF asks
  <2>4. Same(ask'[p], asks[p]) BY <2>1, <2>2, <2>3, DoubtTyped
  <2> QED BY <2>1, <2>4 DEF Same
<1>3. CASE MarkUnseen(q)
  <2> DEFINE asks == [ask EXCEPT ![q] = Passed(q, ask[q].source)]
  <2>1. ask[q].source \in Source BY <1>3, AfterMark
  <2>2. asks \in [Request -> Ask] /\ asks[p] = ask[p]
    <3>1. Passed(q, ask[q].source) \in Ask BY <2>1, PassedTyped DEF TypeInv
    <3> QED BY <1>1, <3>1
  <2>3. ask' = Doubting(asks, ask[q].source, q) BY <1>3 DEF MarkUnseen
  <2> HIDE DEF asks
  <2>4. Same(ask'[p], asks[p]) BY <2>1, <2>2, <2>3, DoubtTyped
  <2> QED BY <2>2, <2>4 DEF Same
<1>4. ASSUME NEW s \in Source, NEW unread \in SUBSET File, RunnerScans(q, s, unread)
      PROVE  ask[p].alone
  <2>1. ask'[p] = [ask[p] EXCEPT !.alone = @ /\ p \notin Scans(s, q)] BY <1>4 DEF RunnerScans
  <2> QED BY <1>1, <2>1 DEF Ask
<1>5. ASSUME Open(q) \/ CheckAge(q) \/ ReadSources(q) \/ Receive(q) \/ UpsertFails(q)
             \/ ListScripts(q) \/ Show(q) \/ \E s \in Source : ScanFails(q, s)
      PROVE  ask'[p] = ask[p]
  BY <1>1, <1>5
     DEF Open, CheckAge, Go, ReadSources, Receive, UpsertFails, ListScripts, Show, ScanFails
<1> QED BY <1>2, <1>3, <1>4, <1>5 DEF Serve

LEMMA Untouched ==  \* a row that is written makes every other listing of its source doubtful
  ASSUME TypeInv, NEW q \in Request, Open(q) \/ Serve(q), NEW x \in Script, row'[x] # row[x]
  PROVE  /\ Writing(q) /\ x[1] = ask[q].source /\ x[1] \in Source
         /\ \A p \in Request : p # q /\ Listed(p, x[1]) => x[1] \in ask'[p].doubt
<1>1. Writing(q) /\ x[1] = ask[q].source BY Wrote DEF ToWrite
<1>2. x[1] \in Source BY DEF Script
<1>3. ask \in [Request -> Ask] BY DEF TypeInv, TypeOK
<1>4. CASE Upsert(q)
  <2> DEFINE asks == [ask EXCEPT ![q].at = "mark"]
  <2>1. asks \in [Request -> Ask]
    <3>1. [ask[q] EXCEPT !.at = "mark"] \in Ask BY <1>3 DEF Ask, At
    <3> QED BY <1>3, <3>1
  <2>2. ask' = Doubting(asks, x[1], q) BY <1>1, <1>4 DEF Upsert
  <2> HIDE DEF asks
  <2>3. \A p \in Request : ask'[p].doubt = IF p # q /\ Listed(p, x[1]) THEN asks[p].doubt \cup {x[1]}
                                           ELSE asks[p].doubt
    BY <1>2, <2>1, <2>2, DoubtTyped, Zenon
  <2> QED BY <1>1, <1>2, <2>3
<1>5. CASE MarkUnseen(q)
  <2> DEFINE asks == [ask EXCEPT ![q] = Passed(q, ask[q].source)]
  <2>1. asks \in [Request -> Ask]
    <3>1. Passed(q, ask[q].source) \in Ask BY <1>1, <1>2, PassedTyped DEF TypeInv
    <3> QED BY <1>3, <3>1
  <2>2. ask' = Doubting(asks, x[1], q) BY <1>1, <1>5 DEF MarkUnseen
  <2> HIDE DEF asks
  <2>3. \A p \in Request : ask'[p].doubt = IF p # q /\ Listed(p, x[1]) THEN asks[p].doubt \cup {x[1]}
                                           ELSE asks[p].doubt
    BY <1>2, <2>1, <2>2, DoubtTyped, Zenon
  <2> QED BY <1>1, <1>2, <2>3
<1>6. CASE ~Upsert(q) /\ ~MarkUnseen(q) BY <1>6, Quiet
<1> QED BY <1>4, <1>5, <1>6

LEMMA OwnTodo ==
  ASSUME TypeInv, NEW q \in Request, Open(q) \/ Serve(q)
  PROVE  /\ ask'[q].todo \subseteq ask[q].todo \cup InArea
         /\ ask'[q].at = "age" => ask'[q].todo = {}
         /\ ask'[q].at = "list" => ask[q].at = "age" /\ ask'[q].todo = ask[q].todo
         /\ ask'[q].at = "answered" => /\ ask[q].at \in {"list", "scan"}
                                       /\ ask[q].at = "scan" => ask[q].todo = {}
                                       /\ ask'[q].todo = ask[q].todo
<1>1. CASE Open(q) BY <1>1, AfterOpen
<1>2. CASE CheckAge(q) BY <1>2, AfterAge
<1>3. CASE ReadSources(q) BY <1>3, AfterSources
<1>4. CASE Receive(q) BY <1>4, AfterReply
<1>5. CASE Upsert(q) BY <1>5, AfterUpsert
<1>6. CASE UpsertFails(q) \/ Show(q) BY <1>6, AfterEnd
<1>7. CASE MarkUnseen(q) BY <1>7, AfterMark
<1>8. CASE ListScripts(q) BY <1>8, AfterList
<1>9. CASE \E s \in Source : ScanFails(q, s) BY <1>9, AfterFailure
<1>10. CASE \E s \in Source, unread \in SUBSET File : RunnerScans(q, s, unread)
  BY <1>10, AfterScan
<1> QED BY <1>1, <1>2, <1>3, <1>4, <1>5, <1>6, <1>7, <1>8, <1>9, <1>10 DEF Serve

LEMMA OwnScanning ==
  ASSUME TypeInv, NEW q \in Request, Open(q) \/ Serve(q), ask'[q].at \in Scanning
  PROVE  \/ /\ Receive(q) \/ Upsert(q)
            /\ ask[q].at \in Scanning /\ ask'[q].source = ask[q].source
            /\ ask'[q].found = ask[q].found
            /\ ask'[q].alone = ask[q].alone /\ ask'[q].doubt = ask[q].doubt
            /\ ask'[q].opened = ask[q].opened /\ ask'[q].todo = ask[q].todo
         \/ /\ \E s \in Source, unread \in SUBSET File : RunnerScans(q, s, unread)
            /\ ask'[q].at = "reply"
<1> USE DEF Scanning
<1>1. CASE Open(q) BY <1>1, AfterOpen
<1>2. CASE CheckAge(q) BY <1>2, AfterAge
<1>3. CASE ReadSources(q) BY <1>3, AfterSources
<1>4. CASE Receive(q) BY <1>4, AfterReply
<1>5. CASE Upsert(q) BY <1>5, AfterUpsert
<1>6. CASE UpsertFails(q) \/ Show(q) BY <1>6, AfterEnd
<1>7. CASE MarkUnseen(q) BY <1>7, AfterMark
<1>8. CASE ListScripts(q) BY <1>8, AfterList
<1>9. CASE \E s \in Source : ScanFails(q, s) BY <1>9, AfterFailure
<1>10. CASE \E s \in Source, unread \in SUBSET File : RunnerScans(q, s, unread)
  BY <1>10, AfterScan
<1> QED BY <1>1, <1>2, <1>3, <1>4, <1>5, <1>6, <1>7, <1>8, <1>9, <1>10 DEF Serve

LEMMA TodoServe ==
  ASSUME TypeInv, StampInv, TodoInv, NEW q \in Request, Open(q) \/ Serve(q)
  PROVE  TodoInv'
<1>1. mapping' = mapping BY Mapping
<1>2. \A p \in Request, s \in Source : s \in ask'[p].todo => mapping'[s] # "new"
  <2>1. \A s \in InArea : mapping[s] # "new" BY DEF InArea
  <2> QED BY <1>1, <2>1, Others, OwnTodo DEF TodoInv
<1>3. \A p \in Request : ask'[p].at \in {"age", "list", "answered"} => ask'[p].todo = {}
  BY Others, OwnTodo DEF TodoInv
<1>4. \A s \in Source : mapping'[s] = "new" => last'[s] = Empty
  <2>1. CASE MarkUnseen(q)
    <3>1. ask[q].source \in Source /\ mapping[ask[q].source] # "new"
      BY <2>1, AfterMark DEF TodoInv
    <3>2. \A s \in Source : s # ask[q].source => last'[s] = last[s]
      BY <2>1 DEF MarkUnseen, TypeInv, TypeOK
    <3> QED BY <1>1, <3>1, <3>2 DEF TodoInv
  <2>2. CASE ~MarkUnseen(q)
    <3>1. last' = last BY <2>2, Quiet
    <3> QED BY <1>1, <3>1 DEF TodoInv
  <2> QED BY <2>1, <2>2
<1>5. ASSUME NEW p \in Request, NEW r \in Request, p # r,
             ask'[p].at \in Scanning, ask'[r].at \in Scanning, ask'[p].source = ask'[r].source
      PROVE  ~ask'[p].alone
  <2>1. \A a \in Request : a # q => ask'[a].at = ask[a].at /\ ask'[a].source = ask[a].source
    BY Others
  <2>2. \A a \in Request : a # q /\ ask'[a].alone => ask[a].alone BY Overlap
  <2>3. ASSUME NEW s \in Source, NEW unread \in SUBSET File, RunnerScans(q, s, unread)
        PROVE  ~ask'[p].alone
    <3>1. CASE p = q
      <4>1. r \in Scans(s, q) BY <1>5, <2>1, <2>3, <3>1, AfterScan DEF Scans, Scanning
      <4> QED BY <2>3, <3>1, <4>1, AfterScan
    <3>2. CASE r = q
      <4>1. p \in Scans(s, q) BY <1>5, <2>1, <2>3, <3>2, AfterScan DEF Scans, Scanning
      <4> QED BY <2>3, <4>1, AfterScan
    <3>3. CASE p # q /\ r # q BY <1>5, <2>1, <2>2, <3>3 DEF TodoInv
    <3> QED BY <3>1, <3>2, <3>3
  <2>4. CASE ~\E s \in Source, unread \in SUBSET File : RunnerScans(q, s, unread)
    <3>1. ask'[q].at \in Scanning => /\ ask[q].at \in Scanning /\ ask'[q].source = ask[q].source
                                     /\ ask'[q].alone = ask[q].alone
      BY <2>4, OwnScanning
    <3> QED BY <1>5, <2>1, <2>2, <3>1 DEF TodoInv
  <2> QED BY <2>3, <2>4
<1>6. ASSUME NEW p \in Request, Writing(p)' PROVE ask'[p].opened <= ask'[p].now
  <2>1. CASE p # q BY <1>6, <2>1, Others DEF TodoInv, Writing
  <2>2. CASE p = q /\ Receive(q)
    <3>1. ask[q].opened <= clock /\ ask[q].opened \in Nat /\ clock \in Nat
      BY DEF StampInv, TypeInv, TypeOK, Ask
    <3> QED BY <2>2, <3>1, AfterReply
  <2>3. CASE p = q /\ ~Receive(q)
    <3>1. Upsert(q) BY <1>6, <2>3, OwnStamp DEF Writing
    <3> QED BY <2>3, <3>1, AfterUpsert DEF TodoInv, Writing
  <2> QED BY <2>1, <2>2, <2>3
<1> QED BY <1>2, <1>3, <1>4, <1>5, <1>6 DEF TodoInv

LEMMA TodoStep == TypeInv /\ StampInv /\ TodoInv /\ [Next]_vars => TodoInv'
<1> SUFFICES ASSUME TypeInv, StampInv, TodoInv, [Next]_vars PROVE TodoInv' OBVIOUS
<1>1. ASSUME \A q \in Request : Same(ask'[q], ask[q]),
             \A s \in Source : mapping'[s] = "new" => mapping[s] = "new",
             last' = last
      PROVE  TodoInv'
  <2>1. \A p, q \in Request :
          p # q /\ ask'[p].at \in Scanning /\ ask'[q].at \in Scanning
            /\ ask'[p].source = ask'[q].source => ~ask'[p].alone
    BY <1>1 DEF Same, TodoInv
  <2>2. \A q \in Request : Writing(q)' => ask'[q].opened <= ask'[q].now
    BY <1>1 DEF Same, TodoInv, Writing
  <2>3. \A q \in Request : ask'[q].at \in {"age", "list", "answered"} => ask'[q].todo = {}
    BY <1>1 DEF Same, TodoInv
  <2>4. \A q \in Request, s \in Source : s \in ask'[q].todo => mapping'[s] # "new"
    BY <1>1 DEF Same, TodoInv
  <2>5. \A s \in Source : mapping'[s] = "new" => last'[s] = Empty BY <1>1 DEF TodoInv
  <2> QED BY <2>1, <2>2, <2>3, <2>4, <2>5 DEF TodoInv
<1>2. ASSUME NEW c \in Console,
             FindScript(c) \/ CreateRun(c) \/ \E x \in Script : PressStart(c, x)
      PROVE  TodoInv'
  <2>1. UNCHANGED <<mapping, ask, last>> BY <1>2, TypeStart DEF history
  <2> QED BY <1>1, <2>1 DEF Same
<1>3. ASSUME NEW s \in Source, Disturb(s) PROVE TodoInv'
  <2>1. last' = last /\ \A t \in Source : mapping'[t] = "new" => mapping[t] = "new"
    BY <1>3 DEF Disturb, AddSource, ChangeDisk, history, TypeInv, TypeOK
  <2>2. \A q \in Request : Same(ask'[q], ask[q]) BY <1>3, TypeDisturb
  <2> QED BY <1>1, <2>1, <2>2
<1>4. ASSUME Tick \/ \E s \in Source : RemoveSource(s) PROVE TodoInv'
  <2>1. ask' = ask /\ last' = last BY <1>4, TypeElse DEF history
  <2>2. \A t \in Source : mapping'[t] = "new" => mapping[t] = "new"
    BY <1>4 DEF Tick, RemoveSource, TypeInv, TypeOK
  <2> QED BY <1>1, <2>1, <2>2 DEF Same
<1>5. CASE UNCHANGED vars BY <1>1, <1>5 DEF vars, history, Same
<1> QED BY <1>2, <1>3, <1>4, <1>5, Steps, TodoServe

LEMMA TodoInit == Init => TodoInv
<1> SUFFICES ASSUME Init PROVE TodoInv OBVIOUS
<1>1. \A q \in Request : ask[q].at = "idle" /\ ask[q].todo = {} BY DEF Init, Rest
<1>2. \A s \in Source : last[s] = Empty BY DEF Init
<1> QED BY <1>1, <1>2 DEF TodoInv, Writing, Scanning

-----------------------------------------------------------------------------
\* The rows of a source while it is replaced, and after

Clean(q) ==      \* nobody else has written the rows of its source since it listed it
  ask[q].alone \/ ask[q].source \notin ask[q].doubt

Between(q, x) == \* a row of a source that is being replaced
  LET r == row[x] IN
  /\ ask[q].at = "upsert" /\ r # None => r.presentAt < ask[q].now
  /\ ask[q].at = "mark" =>
       IF ask[q].found[x[2]] = None THEN r = None \/ r.presentAt < ask[q].now
       ELSE /\ r # None /\ r.presentAt = ask[q].now /\ r.scannedAt = ask[q].now
            /\ r.criticality = ask[q].found[x[2]]

RowsInv ==
  /\ \A q \in Request, x \in Script :
       Writing(q) /\ Clean(q) /\ x[1] = ask[q].source /\ mapping[x[1]] = "mapped" => Between(q, x)
  /\ CatalogIsTheListing

LEMMA RowTyped ==
  ASSUME TypeInv, NEW x \in Script
  PROVE  /\ x[1] \in Source /\ x[2] \in File
         /\ row[x] # None => /\ row[x] \in Row /\ row[x].presentAt \in Nat /\ row[x].scannedAt \in Nat
                             /\ row[x].criticality \in Criticality
BY DEF TypeInv, TypeOK, List, Row, Script

LEMMA RowsKept ==  \* the rows of the other sources stay
  ASSUME TypeInv, NEW q \in Request, Open(q) \/ Serve(q), NEW s,
         ~(Writing(q) /\ ask[q].source = s)
  PROVE  \A x \in Script : x[1] = s => row'[x] = row[x]
BY Untouched

LEMMA ShowsSame ==
  ASSUME NEW s \in Source, NEW dir, \A x \in Script : x[1] = s => row'[x] = row[x], Shows(row, s, dir)
  PROVE  Shows(row', s, dir)
<1>1. \A f \in File : <<s, f>> \in Script /\ <<s, f>>[1] = s BY DEF Script
<1> QED BY <1>1 DEF Shows

LEMMA Replaced ==
  ASSUME MapInv, StampInv, RowsInv, NEW q \in Request, MarkUnseen(q), Clean(q),
         mapping[ask[q].source] = "mapped"
  PROVE  /\ Shows(row', ask[q].source, ask[q].found)
         /\ \A x \in Script : x[1] = ask[q].source /\ row'[x] # None => row'[x].scannedAt = ask[q].now
<1> USE DEF MapInv
<1>1. ask[q].at = "mark" /\ ask[q].source \in Source /\ ask[q].now \in Nat
  BY AfterMark DEF TypeInv, TypeOK, Ask
<1>2. ASSUME NEW x \in Script, x[1] = ask[q].source
      PROVE  /\ IF ask[q].found[x[2]] = None THEN ~Present(row'[x])
                ELSE Present(row'[x]) /\ row'[x].criticality = ask[q].found[x[2]]
             /\ row'[x] # None => row'[x].scannedAt = ask[q].now
  <2>1. Between(q, x) BY <1>1, <1>2 DEF RowsInv, Writing
  <2>2. row[x] # None => row[x].presentAt \in Nat /\ row[x].scannedAt \in Nat BY RowTyped
  <2>3. CASE ask[q].found[x[2]] = None
    <3>1. row[x] = None \/ row[x].presentAt < ask[q].now BY <1>1, <2>1, <2>3 DEF Between
    <3>2. CASE row[x] = None
      <4>1. row'[x] = None BY <3>2, MarkRows
      <4> QED BY <2>3, <4>1 DEF Present
    <3>3. CASE row[x] # None
      <4>1. row'[x].presentAt = row[x].presentAt /\ row'[x].scannedAt = ask[q].now
        BY <1>2, <2>3, <3>3, MarkRows
      <4> QED BY <1>1, <2>2, <2>3, <3>1, <3>3, <4>1 DEF Present
    <3> QED BY <3>2, <3>3
  <2>4. CASE ask[q].found[x[2]] # None
    <3>1. row'[x] = row[x] BY <2>4, MarkRows
    <3>2. /\ row[x] # None /\ row[x].presentAt = ask[q].now /\ row[x].scannedAt = ask[q].now
          /\ row[x].criticality = ask[q].found[x[2]]
      BY <1>1, <2>1, <2>4 DEF Between
    <3> QED BY <1>1, <2>4, <3>1, <3>2 DEF Present
  <2> QED BY <2>3, <2>4
<1>3. \A f \in File : <<ask[q].source, f>> \in Script /\ <<ask[q].source, f>>[1] = ask[q].source
                      /\ <<ask[q].source, f>>[2] = f
  BY <1>1 DEF Script
<1> QED BY <1>2, <1>3 DEF Shows

LEMMA RowsServe ==
  ASSUME MapInv, StampInv, TodoInv, RowsInv, NEW q \in Request, Open(q) \/ Serve(q)
  PROVE  RowsInv'
<1> USE DEF MapInv
<1>1. mapping' = mapping BY Mapping
<1>2. ASSUME NEW p \in Request, NEW x \in Script, p # q,
             (Writing(p) /\ Clean(p) /\ x[1] = ask[p].source)', mapping[x[1]] = "mapped"
      PROVE  Between(p, x)'
  <2>1. /\ ask'[p].at = ask[p].at /\ ask'[p].source = ask[p].source
        /\ ask'[p].found = ask[p].found /\ ask'[p].now = ask[p].now
        /\ ask[p].doubt \subseteq ask'[p].doubt
    BY <1>2, Others
  <2>2. Writing(p) /\ x[1] = ask[p].source BY <1>2, <2>1 DEF Writing
  <2>3. Clean(p)
    <3>1. ask'[p].alone => ask[p].alone BY <1>2, Overlap
    <3> QED BY <1>2, <2>1, <3>1 DEF Clean
  <2>4. Between(p, x) BY <1>2, <2>2, <2>3 DEF RowsInv
  <2>5. row'[x] = row[x]
    <3> SUFFICES ASSUME row'[x] # row[x] PROVE FALSE OBVIOUS
    <3>1. Writing(q) /\ x[1] = ask[q].source BY Untouched
    <3>2. Listed(p, x[1]) BY <2>2 DEF Listed, Writing
    <3>3. x[1] \in ask'[p].doubt BY <1>2, <3>2, Untouched
    <3>4. ~ask[p].alone BY <1>2, <2>2, <3>1 DEF TodoInv, Writing, Scanning
    <3>5. ~ask'[p].alone BY <1>2, <3>4, Overlap
    <3> QED BY <1>2, <3>3, <3>5 DEF Clean
  <2> QED BY <2>1, <2>4, <2>5 DEF Between
<1>3. ASSUME NEW x \in Script, (Writing(q) /\ Clean(q) /\ x[1] = ask[q].source)',
             mapping[x[1]] = "mapped"
      PROVE  Between(q, x)'
  <2>1. CASE Receive(q)
    <3>1. row' = row /\ ask'[q].at = "upsert" /\ ask'[q].now = clock + 1
      BY <2>1, AfterReply DEF Receive
    <3>2. row[x] # None => row[x].presentAt <= clock /\ row[x].presentAt \in Nat
      BY RowTyped DEF StampInv
    <3>3. clock \in Nat BY DEF TypeInv, TypeOK
    <3> QED BY <3>1, <3>2, <3>3 DEF Between
  <2>2. CASE Upsert(q)
    <3>1. /\ ask[q].at = "upsert" /\ ask'[q].at = "mark" /\ ask'[q].source = ask[q].source
          /\ ask'[q].found = ask[q].found /\ ask'[q].now = ask[q].now
          /\ ask'[q].alone = ask[q].alone /\ ask'[q].doubt = ask[q].doubt
      BY <2>2, AfterUpsert
    <3>2. Writing(q) /\ Clean(q) /\ x[1] = ask[q].source BY <1>3, <3>1 DEF Writing, Clean
    <3>3. Between(q, x) BY <1>3, <3>2 DEF RowsInv
    <3>4. CASE ask[q].found[x[2]] = None
      <4>1. row'[x] = row[x] BY <2>2, <3>4, UpsertRows
      <4> QED BY <3>1, <3>3, <3>4, <4>1 DEF Between
    <3>5. CASE ask[q].found[x[2]] # None
      <4>1. /\ row'[x] \in Row /\ row'[x].presentAt = ask[q].now /\ row'[x].scannedAt = ask[q].now
            /\ row'[x].criticality = ask[q].found[x[2]]
        BY <2>2, <3>2, <3>5, UpsertRows
      <4> QED BY <3>1, <3>5, <4>1, NoneAssumption DEF Between
    <3> QED BY <3>4, <3>5
  <2> QED BY <1>3, <2>1, <2>2, OwnStamp DEF Writing
<1>4. CatalogIsTheListing'
  <2> SUFFICES ASSUME NEW s \in InArea', s \notin mixed',
                      \A p \in Request : ask'[p].at = "mark" => ask'[p].source # s
               PROVE  Shows(row', s, last'[s])
    BY DEF CatalogIsTheListing, AskIs
  <2>1. s \in InArea /\ s \in Source /\ mapping[s] = "mapped" BY <1>1 DEF InArea
  <2>2. \A p \in Request : p # q => (ask[p].at = "mark" => ask[p].source # s)
    BY Others
  <2>3. CASE MarkUnseen(q)
    <3>1. ask[q].at = "mark" BY <2>3, AfterMark
    <3>2. CASE ask[q].source = s
      <4>1. ask[q].alone BY <2>3, <3>2 DEF MarkUnseen
      <4>2. last'[s] = ask[q].found BY <2>1, <2>3, <3>2 DEF MarkUnseen, TypeInv, TypeOK
      <4> QED BY <2>1, <2>3, <3>2, <4>1, <4>2, Replaced DEF Clean
    <3>3. CASE ask[q].source # s
      <4>1. last'[s] = last[s] /\ s \notin mixed BY <2>3, <3>3 DEF MarkUnseen, TypeInv, TypeOK
      <4>2. Shows(row, s, last[s])
        BY <2>1, <2>2, <3>3, <4>1 DEF RowsInv, CatalogIsTheListing, AskIs
      <4>3. \A x \in Script : x[1] = s => row'[x] = row[x] BY <3>3, RowsKept
      <4> QED BY <2>1, <4>1, <4>2, <4>3, ShowsSame
    <3> QED BY <3>2, <3>3
  <2>4. CASE ~MarkUnseen(q)
    <3>1. last' = last /\ mixed' = mixed BY <2>4, Quiet
    <3>2. CASE Upsert(q)
      <4>1. ask[q].source # s /\ ask[q].at = "upsert" BY <3>2, AfterUpsert
      <4>2. Shows(row, s, last[s])
        BY <2>1, <2>2, <3>1, <4>1 DEF RowsInv, CatalogIsTheListing, AskIs
      <4>3. \A x \in Script : x[1] = s => row'[x] = row[x] BY <4>1, RowsKept
      <4> QED BY <2>1, <3>1, <4>2, <4>3, ShowsSame
    <3>3. CASE ~Upsert(q)
      <4>1. row' = row BY <2>4, <3>3, Quiet
      <4>2. ask[q].at # "mark"
        BY <2>4, <3>3 DEF Serve, Open, CheckAge, ReadSources, Receive, UpsertFails, ListScripts, Show,
                          ScanFails, RunnerScans, AskIs
      <4>3. Shows(row, s, last[s])
        BY <2>1, <2>2, <3>1, <4>2 DEF RowsInv, CatalogIsTheListing, AskIs
      <4> QED BY <3>1, <4>1, <4>3
    <3> QED BY <3>2, <3>3
  <2> QED BY <2>3, <2>4
<1> QED BY <1>1, <1>2, <1>3, <1>4 DEF RowsInv

LEMMA RowsStep == MapInv /\ StampInv /\ TodoInv /\ RowsInv /\ [Next]_vars => RowsInv'
<1> SUFFICES ASSUME MapInv, StampInv, TodoInv, RowsInv, [Next]_vars PROVE RowsInv' OBVIOUS
<1> USE DEF MapInv
<1>1. ASSUME \A q \in Request : Same(ask'[q], ask[q]) /\ ask[q].doubt \subseteq ask'[q].doubt,
             \A x \in Script : mapping'[x[1]] = "mapped" =>
               row'[x] = row[x] /\ (mapping[x[1]] = "mapped" \/ mapping[x[1]] = "new"),
             last' = last, mixed' = mixed
      PROVE  RowsInv'
  <2>1. \A s \in Source, f \in File : <<s, f>> \in Script /\ <<s, f>>[1] = s
    BY DEF Script
  <2>2. ASSUME NEW q \in Request, NEW x \in Script,
               (Writing(q) /\ Clean(q) /\ x[1] = ask[q].source /\ mapping[x[1]] = "mapped")'
        PROVE  Between(q, x)'
    <3>1. Writing(q) /\ Clean(q) /\ x[1] = ask[q].source BY <1>1, <2>2 DEF Writing, Clean, Same
    <3>2. x[1] \in ask[q].todo /\ x[1] \in Source
      BY <3>1 DEF TypeInv, Placed, Writing, Scanning
    <3>3. mapping[x[1]] # "new" BY <3>2 DEF TodoInv
    <3>4. mapping[x[1]] = "mapped" /\ row'[x] = row[x] BY <1>1, <2>2, <3>3
    <3>5. Between(q, x) BY <3>1, <3>4 DEF RowsInv
    <3> QED BY <1>1, <3>4, <3>5 DEF Between, Same
  <2>3. ASSUME NEW s \in InArea', s \notin mixed',
               \A p \in Request : ask'[p].at = "mark" => ask'[p].source # s
        PROVE  Shows(row', s, last'[s])
    <3>1. s \in Source /\ mapping'[s] = "mapped" BY DEF InArea
    <3>2. \A p \in Request : ask[p].at = "mark" => ask[p].source # s BY <1>1, <2>3 DEF Same
    <3>3. \A x \in Script : x[1] = s => row'[x] = row[x] BY <1>1, <3>1
    <3>4. CASE mapping[s] = "mapped"
      <4>1. Shows(row, s, last[s])
        BY <1>1, <2>3, <3>1, <3>2, <3>4 DEF RowsInv, CatalogIsTheListing, AskIs, InArea
      <4> QED BY <1>1, <3>1, <3>3, <4>1, ShowsSame
    <3>5. CASE mapping[s] = "new"
      <4>1. \A f \in File : row[<<s, f>>] = None BY <2>1, <3>1, <3>5
      <4>2. \A f \in File : last[s][f] = None BY <3>1, <3>5 DEF TodoInv, Empty
      <4>3. Shows(row, s, last[s]) BY <4>1, <4>2 DEF Shows, Present
      <4> QED BY <1>1, <3>1, <3>3, <4>3, ShowsSame
    <3>6. \A f \in File : mapping[s] = "mapped" \/ mapping[s] = "new"
      BY <1>1, <2>1, <3>1
    <3>7. CASE \A f \in File : FALSE BY <3>7 DEF Shows
    <3> QED BY <3>4, <3>5, <3>6, <3>7
  <2> QED BY <2>2, <2>3 DEF RowsInv, CatalogIsTheListing, AskIs
<1>2. ASSUME UNCHANGED <<ask, mapping, row, last, mixed>> PROVE RowsInv'
  <2>1. \A x \in Script : mapping[x[1]] = "mapped" => mapping[x[1]] = "mapped" OBVIOUS
  <2> QED BY <1>1, <1>2, <2>1 DEF Same
<1>3. ASSUME NEW c \in Console,
             FindScript(c) \/ CreateRun(c) \/ \E x \in Script : PressStart(c, x)
      PROVE  RowsInv'
  <2>1. UNCHANGED <<ask, mapping, row, last, mixed>> BY <1>3, TypeStart DEF history
  <2> QED BY <1>2, <2>1
<1>4. ASSUME NEW s \in Source, Disturb(s) PROVE RowsInv'
  <2>1. last' = last /\ mixed' = mixed /\ row' = row
    BY <1>4 DEF Disturb, AddSource, ChangeDisk, history
  <2>2. \A t \in Source : mapping'[t] = "mapped" => mapping[t] = "mapped" \/ mapping[t] = "new"
    BY <1>4 DEF Disturb, AddSource, ChangeDisk, TypeInv, TypeOK
  <2>3. \A q \in Request : Same(ask'[q], ask[q]) /\ ask[q].doubt \subseteq ask'[q].doubt
    BY <1>4, TypeDisturb
  <2>4. \A x \in Script : x[1] \in Source BY DEF Script
  <2> QED BY <1>1, <2>1, <2>2, <2>3, <2>4
<1>5. ASSUME NEW s \in Source, RemoveSource(s) PROVE RowsInv'
  <2>1. ask' = ask /\ last' = last /\ mixed' = mixed BY <1>5, TypeElse DEF history
  <2>2. mapping'[s] = "removed" /\ \A t \in Source : t # s => mapping'[t] = mapping[t]
    BY <1>5 DEF RemoveSource, TypeInv, TypeOK
  <2>3. \A x \in Script : x[1] # s => row'[x] = row[x] BY <1>5 DEF RemoveSource
  <2>4. \A x \in Script : x[1] \in Source BY DEF Script
  <2> QED BY <1>1, <2>1, <2>2, <2>3, <2>4 DEF Same
<1>6. CASE Tick BY <1>2, <1>6 DEF Tick, history
<1>7. CASE UNCHANGED vars BY <1>2, <1>7 DEF vars, history
<1> QED BY <1>3, <1>4, <1>5, <1>6, <1>7, Steps, RowsServe

LEMMA RowsInit == Init => RowsInv
<1> SUFFICES ASSUME Init PROVE RowsInv OBVIOUS
<1>1. \A q \in Request : ask[q].at = "idle" BY DEF Init, Rest
<1>2. \A s \in Source, f \in File : <<s, f>> \in Script /\ row[<<s, f>>] = None /\ last[s][f] = None
  BY DEF Init, Nothing, Empty, Script
<1>3. CatalogIsTheListing BY <1>2 DEF CatalogIsTheListing, Shows, Present, InArea
<1> QED BY <1>1, <1>3 DEF RowsInv, Writing

(* The catalog is what the last scan listed: for every source whose rows   *)
(* no two scans wrote at a time, at every moment but between the two       *)
(* statements of a replacement.                                            *)
THEOREM CatalogTrue == Spec => []CatalogIsTheListing
<1> DEFINE Inv == MapInv /\ StampInv /\ TodoInv /\ RowsInv
<1>1. Init => Inv BY MapInit, StampInit, TodoInit, RowsInit
<1>2. Inv /\ [Next]_vars => Inv'
  <2>1. MapInv => TypeInv BY DEF MapInv
  <2> QED BY <2>1, MapStep, StampStep, TodoStep, RowsStep
<1>3. Inv => CatalogIsTheListing BY DEF RowsInv
<1> QED BY <1>1, <1>2, <1>3, PTL DEF Spec

-----------------------------------------------------------------------------
\* What a request answers

Asking(q) == ask[q].at \in {"scan", "reply", "upsert", "mark", "list"}
Fresh(q, r) == r # None => ask[q].opened - r.scannedAt <= Ttl

FoundInv ==   \* the listing in hand
  \A q \in Request :
    ask[q].at \in Scanning /\ ask[q].source \notin ask[q].doubt => ask[q].found = disk[ask[q].source]

DoneInv ==    \* the sources it is done with
  \A q \in Request, s \in Source :
    Asking(q) /\ s \notin ask[q].todo /\ s \notin ask[q].doubt =>
      /\ ask[q].at # "list" /\ mapping[s] = "mapped" => Shows(row, s, disk[s])
      /\ q[2] = "load" => \A x \in Script : x[1] = s => Fresh(q, row[x])

AnswerInv ==  \* the answer
  \A q \in Request, s \in Source :
    ask[q].at = "answered" /\ s \notin ask[q].doubt =>
      /\ q[2] = "rescan" /\ mapping[s] = "mapped" => Shows(ask[q].rows, s, disk[s])
      /\ q[2] = "load" => \A x \in Script : x[1] = s => Fresh(q, ask[q].rows[x])

LEMMA FoundServe ==
  ASSUME TypeInv, FoundInv, NEW q \in Request, Open(q) \/ Serve(q)
  PROVE  FoundInv'
<1>1. disk' = disk BY Mapping
<1>2. ASSUME NEW p \in Request, p # q, ask'[p].at \in Scanning, ask'[p].source \notin ask'[p].doubt
      PROVE  ask'[p].found = disk'[ask'[p].source]
  BY <1>1, <1>2, Others DEF FoundInv
<1>3. ASSUME ask'[q].at \in Scanning, ask'[q].source \notin ask'[q].doubt
      PROVE  ask'[q].found = disk'[ask'[q].source]
  <2>1. ASSUME NEW s \in Source, NEW unread \in SUBSET File, RunnerScans(q, s, unread)
        PROVE  ask'[q].found = disk'[ask'[q].source]
    <3>1. ask'[q].source = s /\ (unread # {} => s \in ask'[q].doubt) BY <2>1, AfterScan
    <3>2. unread = {} BY <1>3, <3>1
    <3>3. ask'[q].found = disk[s] BY <2>1, <3>2, AfterScan
    <3> QED BY <1>1, <3>1, <3>3
  <2>2. CASE ~\E s \in Source, unread \in SUBSET File : RunnerScans(q, s, unread)
    <3>1. /\ ask[q].at \in Scanning /\ ask'[q].source = ask[q].source
          /\ ask'[q].found = ask[q].found /\ ask'[q].doubt = ask[q].doubt
      BY <1>3, <2>2, OwnScanning
    <3> QED BY <1>1, <1>3, <3>1 DEF FoundInv
  <2> QED BY <2>1, <2>2
<1> QED BY <1>2, <1>3 DEF FoundInv

(* Another request's step leaves what a request has done as it is, or      *)
(* makes it doubtful.                                                      *)
LEMMA DoneOthers ==
  ASSUME TypeInv, DoneInv, NEW q \in Request, Open(q) \/ Serve(q),
         NEW p \in Request, p # q, NEW s \in Source,
         Asking(p)', s \notin ask'[p].todo, s \notin ask'[p].doubt
  PROVE  /\ ask'[p].at # "list" /\ mapping[s] = "mapped" => Shows(row', s, disk[s])
         /\ p[2] = "load" => \A x \in Script : x[1] = s => Fresh(p, row[x])'
<1>1. /\ ask'[p].at = ask[p].at /\ ask'[p].todo = ask[p].todo /\ ask'[p].opened = ask[p].opened
      /\ ask[p].doubt \subseteq ask'[p].doubt
  BY Others
<1>2. Asking(p) /\ s \notin ask[p].todo /\ s \notin ask[p].doubt BY <1>1 DEF Asking
<1>3. Listed(p, s) BY <1>2 DEF Listed, Asking
<1>4. \A x \in Script : x[1] = s => row'[x] = row[x] BY <1>3, Untouched
<1>5. /\ ask[p].at # "list" /\ mapping[s] = "mapped" => Shows(row, s, disk[s])
      /\ p[2] = "load" => \A x \in Script : x[1] = s => Fresh(p, row[x])
  BY <1>2 DEF DoneInv
<1>6. ask'[p].at # "list" /\ mapping[s] = "mapped" => Shows(row', s, disk[s])
  BY <1>1, <1>4, <1>5, ShowsSame
<1>7. p[2] = "load" => \A x \in Script : x[1] = s => Fresh(p, row[x])'
  BY <1>1, <1>4, <1>5 DEF Fresh
<1> QED BY <1>6, <1>7

LEMMA DoneOwn ==
  ASSUME MapInv, StampInv, TodoInv, RowsInv, FoundInv, DoneInv,
         NEW q \in Request, Open(q) \/ Serve(q), NEW s \in Source,
         Asking(q)', s \notin ask'[q].todo, s \notin ask'[q].doubt
  PROVE  /\ ask'[q].at # "list" /\ mapping[s] = "mapped" => Shows(row', s, disk[s])
         /\ q[2] = "load" => \A x \in Script : x[1] = s => Fresh(q, row[x])'
<1> USE DEF MapInv
<1>0. /\ \A x \in Script : row[x] # None => row[x].scannedAt \in Nat
      /\ ask[q].opened \in Nat /\ ask[q].now \in Nat /\ clock \in Nat /\ Ttl \in Nat
      /\ ask[q].opened <= clock
  BY RowTyped, BoundAssumption DEF TypeInv, TypeOK, Ask, StampInv
<1>1. ASSUME row' = row \/ (ask[q].source # s /\ Writing(q)), Asking(q), s \notin ask[q].todo,
             ask[q].at # "list", s \notin ask[q].doubt, ask'[q].opened = ask[q].opened
      PROVE  /\ mapping[s] = "mapped" => Shows(row', s, disk[s])
             /\ q[2] = "load" => \A x \in Script : x[1] = s => Fresh(q, row[x])'
  <2>1. /\ mapping[s] = "mapped" => Shows(row, s, disk[s])
        /\ q[2] = "load" => \A x \in Script : x[1] = s => Fresh(q, row[x])
    BY <1>1 DEF DoneInv
  <2>2. \A x \in Script : x[1] = s => row'[x] = row[x] BY <1>1, RowsKept
  <2>3. mapping[s] = "mapped" => Shows(row', s, disk[s]) BY <2>1, <2>2, ShowsSame
  <2>4. q[2] = "load" => \A x \in Script : x[1] = s => Fresh(q, row[x])'
    BY <1>1, <2>1, <2>2 DEF Fresh
  <2> QED BY <2>3, <2>4
<1>2. CASE CheckAge(q)
  <2>1. row' = row /\ ask'[q].opened = ask[q].opened /\ ask'[q].at = (IF Stale THEN "sources" ELSE "list")
    BY <1>2, AfterAge DEF CheckAge
  <2>2. ~Stale /\ ask'[q].at = "list" BY <2>1 DEF Asking
  <2>3. ASSUME NEW x \in Script, row[x] # None PROVE ask[q].opened - row[x].scannedAt <= Ttl
    <3>1. ~(clock - row[x].scannedAt > Ttl) BY <2>2, <2>3 DEF Stale
    <3> QED BY <1>0, <2>3, <3>1
  <2> QED BY <2>1, <2>2, <2>3 DEF Fresh
<1>3. CASE ReadSources(q)
  <2>1. ask'[q].todo = InArea /\ row' = row BY <1>3, AfterSources DEF ReadSources
  <2>2. mapping[s] # "mapped" BY <2>1 DEF InArea
  <2>3. \A x \in Script : x[1] = s => row[x] = None BY <2>2
  <2> QED BY <2>1, <2>2, <2>3 DEF Fresh
<1>4. CASE MarkUnseen(q)
  <2>1. /\ ask[q].at = "mark" /\ ask[q].source \in Source
        /\ ask'[q].todo = ask[q].todo \ {ask[q].source} /\ ask'[q].doubt = ask[q].doubt
        /\ ask'[q].opened = ask[q].opened
    BY <1>4, AfterMark
  <2>2. CASE s = ask[q].source
    <3>1. Clean(q) BY <2>1, <2>2 DEF Clean
    <3>2. ask[q].found = disk[s] BY <2>1, <2>2 DEF FoundInv, Scanning
    <3>3. mapping[s] = "mapped" =>
            /\ Shows(row', s, disk[s])
            /\ \A x \in Script : x[1] = s /\ row'[x] # None => row'[x].scannedAt = ask[q].now
      BY <1>4, <2>2, <3>1, <3>2, Replaced
    <3>4. mapping[s] # "mapped" => \A x \in Script : x[1] = s => row'[x] = None
      <4>1. \A x \in Script : row[x] = None => row'[x] = None BY <1>4, MarkRows
      <4> QED BY <4>1
    <3>5. ask[q].opened <= ask[q].now BY <2>1 DEF TodoInv, Writing
    <3>6. ask[q].opened - ask[q].now <= Ttl BY <1>0, <3>5
    <3> QED BY <2>1, <3>3, <3>4, <3>6 DEF Fresh
  <2>3. CASE s # ask[q].source
    <3>1. s \notin ask[q].todo /\ s \notin ask[q].doubt BY <2>1, <2>3
    <3> QED BY <1>1, <2>1, <2>3, <3>1 DEF Asking, Writing
  <2> QED BY <2>2, <2>3
<1>5. CASE Upsert(q)
  <2>1. /\ ask[q].at = "upsert" /\ ask[q].source \in ask[q].todo
        /\ ask'[q].todo = ask[q].todo /\ ask'[q].doubt = ask[q].doubt
        /\ ask'[q].opened = ask[q].opened
    BY <1>5, AfterUpsert DEF TypeInv, Placed, Scanning
  <2> QED BY <1>1, <2>1 DEF Asking, Writing
<1>6. CASE Receive(q)
  <2>1. row' = row BY <1>6 DEF Receive
  <2> QED BY <1>1, <1>6, <2>1, AfterReply DEF Asking
<1>7. ASSUME NEW t \in Source, ScanFails(q, t) PROVE row' = row /\ ask'[q].at # "list" /\
        Asking(q) /\ s \notin ask[q].todo /\ ask[q].at # "list" /\ s \notin ask[q].doubt
        /\ ask'[q].opened = ask[q].opened
  <2>1. row' = row BY <1>7 DEF ScanFails
  <2> QED BY <1>7, <2>1, AfterFailure DEF Asking
<1>8. ASSUME NEW t \in Source, NEW unread \in SUBSET File, RunnerScans(q, t, unread)
      PROVE row' = row /\ ask'[q].at # "list" /\
        Asking(q) /\ s \notin ask[q].todo /\ ask[q].at # "list" /\ s \notin ask[q].doubt
        /\ ask'[q].opened = ask[q].opened
  <2>1. row' = row BY <1>8 DEF RunnerScans
  <2> QED BY <1>8, <2>1, AfterScan DEF Asking
<1>9. ~Open(q) /\ ~UpsertFails(q) /\ ~Show(q) /\ ~ListScripts(q)
  <2>1. Open(q) => ~Asking(q)' BY AfterOpen DEF Asking
  <2>2. UpsertFails(q) \/ Show(q) => ~Asking(q)' BY AfterEnd DEF Asking
  <2>3. ListScripts(q) => ~Asking(q)' BY AfterList DEF Asking
  <2> QED BY <2>1, <2>2, <2>3
<1> QED BY <1>1, <1>2, <1>3, <1>4, <1>5, <1>6, <1>7, <1>8, <1>9 DEF Serve

LEMMA AnswerServe ==
  ASSUME TypeInv, TodoInv, DoneInv, AnswerInv, NEW q \in Request, Open(q) \/ Serve(q)
  PROVE  AnswerInv'
<1>1. disk' = disk /\ mapping' = mapping BY Mapping
<1>2. ASSUME NEW p \in Request, p # q, NEW s \in Source,
             ask'[p].at = "answered", s \notin ask'[p].doubt
      PROVE  /\ p[2] = "rescan" /\ mapping'[s] = "mapped" => Shows(ask'[p].rows, s, disk'[s])
             /\ p[2] = "load" => \A x \in Script : x[1] = s => Fresh(p, ask[p].rows[x])'
  <2>1. /\ ask'[p].at = ask[p].at /\ ask'[p].rows = ask[p].rows /\ ask'[p].opened = ask[p].opened
        /\ ask[p].doubt \subseteq ask'[p].doubt
    BY <1>2, Others
  <2>2. /\ p[2] = "rescan" /\ mapping[s] = "mapped" => Shows(ask[p].rows, s, disk[s])
        /\ p[2] = "load" => \A x \in Script : x[1] = s => Fresh(p, ask[p].rows[x])
    BY <1>2, <2>1 DEF AnswerInv
  <2> QED BY <1>1, <2>1, <2>2 DEF Fresh
<1>3. ASSUME NEW s \in Source, ask'[q].at = "answered", s \notin ask'[q].doubt
      PROVE  /\ q[2] = "rescan" /\ mapping'[s] = "mapped" => Shows(ask'[q].rows, s, disk'[s])
             /\ q[2] = "load" => \A x \in Script : x[1] = s => Fresh(q, ask[q].rows[x])'
  <2>1. ListScripts(q)
    <3>1. Open(q) => ask'[q].at # "answered" BY AfterOpen
    <3>2. CheckAge(q) => ask'[q].at # "answered" BY AfterAge
    <3>3. ReadSources(q) => ask'[q].at # "answered" BY AfterSources
    <3>4. Receive(q) => ask'[q].at # "answered" BY AfterReply
    <3>5. Upsert(q) => ask'[q].at # "answered" BY AfterUpsert
    <3>6. UpsertFails(q) \/ Show(q) => ask'[q].at # "answered" BY AfterEnd
    <3>7. MarkUnseen(q) => ask'[q].at # "answered" BY AfterMark
    <3>8. \A t \in Source : ScanFails(q, t) => ask'[q].at # "answered" BY AfterFailure
    <3>9. \A t \in Source, unread \in SUBSET File : RunnerScans(q, t, unread) => ask'[q].at # "answered"
      BY AfterScan
    <3> QED BY <1>3, <3>1, <3>2, <3>3, <3>4, <3>5, <3>6, <3>7, <3>8, <3>9 DEF Serve
  <2>2. /\ ask[q].at \in {"list", "scan"} /\ (ask[q].at = "scan" => ask[q].todo = {})
        /\ ask'[q].rows = row /\ ask'[q].opened = ask[q].opened /\ ask'[q].doubt = ask[q].doubt
    BY <2>1, AfterList
  <2>3. ask[q].todo = {} BY <2>2 DEF TodoInv
  <2>4. /\ ask[q].at # "list" /\ mapping[s] = "mapped" => Shows(row, s, disk[s])
        /\ q[2] = "load" => \A x \in Script : x[1] = s => Fresh(q, row[x])
    BY <1>3, <2>2, <2>3 DEF DoneInv, Asking
  <2>5. q[2] = "rescan" => ask[q].at # "list" BY DEF TypeInv, Placed
  <2> QED BY <1>1, <2>2, <2>4, <2>5 DEF Fresh
<1> QED BY <1>2, <1>3 DEF AnswerInv

AnswersInv == FoundInv /\ DoneInv /\ AnswerInv

LEMMA AnswersStep ==
  MapInv /\ StampInv /\ TodoInv /\ RowsInv /\ AnswersInv /\ [Next]_vars => AnswersInv'
<1> SUFFICES ASSUME MapInv, StampInv, TodoInv, RowsInv, AnswersInv, [Next]_vars PROVE AnswersInv'
  OBVIOUS
<1> USE DEF MapInv, AnswersInv
<1>1. ASSUME NEW q \in Request, Open(q) \/ Serve(q) PROVE AnswersInv'
  <2>1. DoneInv'
    <3>1. disk' = disk /\ mapping' = mapping BY <1>1, Mapping
    <3> QED BY <1>1, <3>1, DoneOthers, DoneOwn DEF DoneInv
  <2> QED BY <1>1, <2>1, FoundServe, AnswerServe
<1>2. ASSUME \A q \in Request : Same(ask'[q], ask[q]) /\ ask[q].doubt \subseteq ask'[q].doubt,
             \A s \in Source :
               \/ disk'[s] = disk[s] /\ (mapping'[s] = "mapped" => mapping[s] = "mapped")
               \/ \A q \in Request : Listed(q, s) => s \in ask'[q].doubt,
             \A x \in Script : row'[x] = row[x] \/ (row'[x] = None /\ mapping'[x[1]] # "mapped")
      PROVE  AnswersInv'
  <2>1. ASSUME NEW q \in Request, ask'[q].at \in Scanning, ask'[q].source \notin ask'[q].doubt
        PROVE  ask'[q].found = disk'[ask'[q].source]
    <3>1. ask[q].at \in Scanning /\ ask'[q].source = ask[q].source /\ ask'[q].found = ask[q].found
      BY <1>2, <2>1 DEF Same
    <3>2. ask[q].source \in Source BY <3>1 DEF TypeInv, Placed
    <3>3. Listed(q, ask[q].source) BY <3>1 DEF Listed, Scanning
    <3>4. disk'[ask[q].source] = disk[ask[q].source] /\ ask[q].source \notin ask[q].doubt
      BY <1>2, <2>1, <3>1, <3>2, <3>3
    <3> QED BY <3>1, <3>4 DEF FoundInv
  <2>2. ASSUME NEW q \in Request, NEW s \in Source,
               Asking(q)', s \notin ask'[q].todo, s \notin ask'[q].doubt
        PROVE  /\ ask'[q].at # "list" /\ mapping'[s] = "mapped" => Shows(row', s, disk'[s])
               /\ q[2] = "load" => \A x \in Script : x[1] = s => Fresh(q, row[x])'
    <3>1. /\ ask'[q].at = ask[q].at /\ ask'[q].todo = ask[q].todo /\ ask'[q].opened = ask[q].opened
      BY <1>2 DEF Same
    <3>2. Asking(q) /\ s \notin ask[q].todo /\ s \notin ask[q].doubt BY <1>2, <2>2, <3>1 DEF Asking
    <3>3. Listed(q, s) BY <3>2 DEF Listed, Asking
    <3>4. disk'[s] = disk[s] /\ (mapping'[s] = "mapped" => mapping[s] = "mapped")
      BY <1>2, <2>2, <3>3
    <3>5. /\ ask[q].at # "list" /\ mapping[s] = "mapped" => Shows(row, s, disk[s])
          /\ q[2] = "load" => \A x \in Script : x[1] = s => Fresh(q, row[x])
      BY <3>2 DEF DoneInv
    <3>6. CASE mapping'[s] = "mapped"
      <4>1. \A x \in Script : x[1] = s => row'[x] = row[x] BY <1>2, <3>6
      <4>2. mapping[s] = "mapped" /\ disk'[s] = disk[s] BY <3>4, <3>6
      <4>3. ask'[q].at # "list" => Shows(row', s, disk'[s]) BY <3>1, <3>5, <4>1, <4>2, ShowsSame
      <4> QED BY <3>1, <3>5, <4>1, <4>3 DEF Fresh
    <3>7. CASE mapping'[s] # "mapped"
      <4>1. \A x \in Script : x[1] = s => row'[x] \in {None, row[x]} BY <1>2
      <4> QED BY <3>1, <3>5, <3>7, <4>1 DEF Fresh
    <3> QED BY <3>6, <3>7
  <2>3. ASSUME NEW q \in Request, NEW s \in Source, ask'[q].at = "answered", s \notin ask'[q].doubt
        PROVE  /\ q[2] = "rescan" /\ mapping'[s] = "mapped" => Shows(ask'[q].rows, s, disk'[s])
               /\ q[2] = "load" => \A x \in Script : x[1] = s => Fresh(q, ask[q].rows[x])'
    <3>1. /\ ask'[q].at = ask[q].at /\ ask'[q].rows = ask[q].rows /\ ask'[q].opened = ask[q].opened
      BY <1>2 DEF Same
    <3>2. Listed(q, s) BY <2>3, <3>1 DEF Listed, TodoInv
    <3>3. /\ disk'[s] = disk[s] /\ (mapping'[s] = "mapped" => mapping[s] = "mapped")
          /\ s \notin ask[q].doubt
      BY <1>2, <2>3, <3>2
    <3>4. /\ q[2] = "rescan" /\ mapping[s] = "mapped" => Shows(ask[q].rows, s, disk[s])
          /\ q[2] = "load" => \A x \in Script : x[1] = s => Fresh(q, ask[q].rows[x])
      BY <2>3, <3>1, <3>3 DEF AnswerInv
    <3> QED BY <3>1, <3>3, <3>4 DEF Fresh
  <2> QED BY <2>1, <2>2, <2>3 DEF FoundInv, DoneInv, AnswerInv
<1>3. ASSUME UNCHANGED <<ask, disk, mapping, row>> PROVE AnswersInv'
  BY <1>2, <1>3 DEF Same
<1>4. ASSUME NEW c \in Console,
             FindScript(c) \/ CreateRun(c) \/ \E x \in Script : PressStart(c, x)
      PROVE  AnswersInv'
  <2>1. UNCHANGED <<ask, disk, mapping, row>> BY <1>4, TypeStart
  <2> QED BY <1>3, <2>1
<1>5. ASSUME NEW s \in Source, Disturb(s) PROVE AnswersInv'
  <2>1. row' = row BY <1>5 DEF Disturb, AddSource, ChangeDisk
  <2>2. \A t \in Source \ {s} : disk'[t] = disk[t] /\ mapping'[t] = mapping[t]
    BY <1>5 DEF Disturb, AddSource, ChangeDisk, TypeInv, TypeOK
  <2>3. \A q \in Request : /\ Same(ask'[q], ask[q]) /\ ask[q].doubt \subseteq ask'[q].doubt
                           /\ Listed(q, s) => s \in ask'[q].doubt
    BY <1>5, TypeDisturb
  <2> QED BY <1>2, <2>1, <2>2, <2>3
<1>6. ASSUME NEW s \in Source, RemoveSource(s) PROVE AnswersInv'
  <2>1. UNCHANGED <<ask, disk>> BY <1>6, TypeElse
  <2>2. mapping'[s] = "removed" /\ \A t \in Source : mapping'[t] = "mapped" => mapping[t] = "mapped"
    BY <1>6 DEF RemoveSource, TypeInv, TypeOK
  <2>3. \A x \in Script : row'[x] = row[x] \/ (row'[x] = None /\ mapping'[x[1]] # "mapped")
    BY <1>6, <2>2 DEF RemoveSource
  <2> QED BY <1>2, <2>1, <2>2, <2>3 DEF Same
<1>7. CASE Tick BY <1>3, <1>7 DEF Tick
<1>8. CASE UNCHANGED vars BY <1>3, <1>8 DEF vars
<1> QED BY <1>1, <1>4, <1>5, <1>6, <1>7, <1>8, Steps

LEMMA AnswersInit == Init => AnswersInv
<1>1. Init => \A q \in Request : ask[q].at = "idle" BY DEF Init, Rest
<1> QED BY <1>1 DEF AnswersInv, FoundInv, DoneInv, AnswerInv, Asking, Scanning

LEMMA Answers == Spec => [](MapInv /\ StampInv /\ TodoInv /\ RowsInv /\ AnswersInv)
<1> DEFINE Inv == MapInv /\ StampInv /\ TodoInv /\ RowsInv /\ AnswersInv
<1>1. Init => Inv BY MapInit, StampInit, TodoInit, RowsInit, AnswersInit
<1>2. Inv /\ [Next]_vars => Inv'
  <2>1. MapInv => TypeInv BY DEF MapInv
  <2> QED BY <2>1, MapStep, StampStep, TodoStep, RowsStep, AnswersStep
<1> QED BY <1>1, <1>2, PTL DEF Spec

(* The answer to a rescan is the directory: of every source the runner     *)
(* could read, as long as nobody changed it or wrote its rows since.       *)
THEOREM RescanTrue == Spec => []RescanShowsTheDirectory
<1>1. MapInv /\ AnswersInv => RescanShowsTheDirectory
  <2> SUFFICES ASSUME MapInv, AnswersInv, NEW c \in Console, ask[<<c, "rescan">>].at = "answered",
                      NEW s \in InArea \ ask[<<c, "rescan">>].doubt
               PROVE  Shows(ask[<<c, "rescan">>].rows, s, disk[s])
    BY DEF RescanShowsTheDirectory
  <2>1. <<c, "rescan">> \in Request /\ <<c, "rescan">>[2] = "rescan" BY DEF Request
  <2>2. s \in Source /\ mapping[s] = "mapped" BY DEF InArea
  <2> QED BY <2>1, <2>2 DEF AnswersInv, AnswerInv
<1> QED BY <1>1, Answers, PTL

(* No entry of a list is older than the TTL when the page asks for it.     *)
THEOREM ListsAreFresh == Spec => []ListIsFresh
<1>1. MapInv /\ AnswersInv => ListIsFresh
  <2> SUFFICES ASSUME MapInv, AnswersInv, NEW c \in Console, ask[<<c, "load">>].at = "answered",
                      NEW x \in Script, ask[<<c, "load">>].rows[x] # None,
                      x[1] \notin ask[<<c, "load">>].doubt
               PROVE  ask[<<c, "load">>].opened - ask[<<c, "load">>].rows[x].scannedAt <= Ttl
    BY DEF ListIsFresh
  <2>1. <<c, "load">> \in Request /\ <<c, "load">>[2] = "load" BY DEF Request
  <2>2. x[1] \in Source BY DEF Script
  <2> QED BY <2>1, <2>2 DEF AnswersInv, AnswerInv, Fresh
<1> QED BY <1>1, Answers, PTL
=============================================================================
