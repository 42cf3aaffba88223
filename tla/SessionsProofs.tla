---------------------------- MODULE SessionsProofs ----------------------------
(***************************************************************************)
(* What holds of the sessions for every set of sessions, groups, areas and *)
(* requests, whatever overlaps.                                            *)
(***************************************************************************)
EXTENDS Sessions, TLAPS

-----------------------------------------------------------------------------
\* Types

(* A request that is about to write a session has one in hand.             *)
BusyWork == {w \in Work : /\ w.at \in {"store", "put", "write"} => w.data \in Data
                          /\ w.at \in {"store", "put", "write", "drop"} => w.session \in Session}

TypeInv == TypeOK /\ op \in [Op -> BusyWork]

LEMMA ResolveType == \A groups, map : Resolve(groups, map) \in SUBSET Area
  BY DEF Resolve

LEMMA BecomeEffect ==
  ASSUME op \in [Op -> BusyWork], NEW q \in Op, NEW w \in BusyWork, Become(q, w)
  PROVE  /\ op' \in [Op -> BusyWork]
         /\ op'[q] = w
         /\ \A p \in Op : p # q => op'[p] = op[p]
  BY DEF Become

LEMMA RestIsWork == Rest \in BusyWork
<1>1. {} \in Mapping /\ {} \in SUBSET Session
  BY DEF Mapping
<1>. QED
  BY <1>1 DEF Rest, BusyWork, Work, OpAt

(* A request in progress may go on to what it has the means for.           *)
LEMMA WorkEdits ==
  ASSUME NEW w \in BusyWork, NEW s \in Session, NEW data \in Data, NEW map \in Mapping,
         NEW todo \in SUBSET Session
  PROVE  /\ [Rest EXCEPT !.at = "store", !.session = s, !.data = data] \in BusyWork
         /\ \A a \in {"put", "drop"}, b \in BOOLEAN :
              [Rest EXCEPT !.at = a, !.session = s, !.data = data, !.logout = b] \in BusyWork
         /\ w.session \in Session => [w EXCEPT !.at = "drop"] \in BusyWork
         /\ [w EXCEPT !.at = "sweep"] \in BusyWork
         /\ [w EXCEPT !.at = "scan", !.map = map] \in BusyWork
         /\ [w EXCEPT !.at = "rewrite", !.todo = todo] \in BusyWork
         /\ w.at = "rewrite" => [w EXCEPT !.todo = todo] \in BusyWork
         /\ [w EXCEPT !.at = "write", !.session = s, !.data = data, !.todo = todo] \in BusyWork
         /\ [w EXCEPT !.at = "rewrite", !.session = Gone, !.data = Gone] \in BusyWork
<1>1. w \in Work /\ Rest \in Work
  BY RestIsWork DEF BusyWork
<1>2. /\ [Rest EXCEPT !.at = "store", !.session = s, !.data = data] \in BusyWork
      /\ \A a \in {"put", "drop"}, b \in BOOLEAN :
           [Rest EXCEPT !.at = a, !.session = s, !.data = data, !.logout = b] \in BusyWork
  BY <1>1 DEF BusyWork, Work, OpAt
<1>3. /\ w.session \in Session => [w EXCEPT !.at = "drop"] \in BusyWork
      /\ [w EXCEPT !.at = "sweep"] \in BusyWork
      /\ [w EXCEPT !.at = "scan", !.map = map] \in BusyWork
  BY <1>1 DEF BusyWork, Work, OpAt
<1>4. /\ [w EXCEPT !.at = "rewrite", !.todo = todo] \in BusyWork
      /\ w.at = "rewrite" => [w EXCEPT !.todo = todo] \in BusyWork
  BY <1>1 DEF BusyWork, Work, OpAt
<1>5. /\ [w EXCEPT !.at = "write", !.session = s, !.data = data, !.todo = todo] \in BusyWork
      /\ [w EXCEPT !.at = "rewrite", !.session = Gone, !.data = Gone] \in BusyWork
  BY <1>1 DEF BusyWork, Work, OpAt
<1>. QED
  BY <1>2, <1>3, <1>4, <1>5

LEMMA ReplacedType ==
  ASSUME NEW data \in Data, NEW new \in SUBSET Area
  PROVE  /\ Replaced(data, new) \in Data
         /\ Replaced(data, new).groups = data.groups /\ Replaced(data, new).areas = new
  BY DEF Replaced, Data

LEMMA SetEffect ==
  ASSUME stored \in [Session -> Data \cup {Gone}], NEW s \in Session, NEW data \in Data,
         NEW meant, Set(s, data, meant), torn \subseteq Session
  PROVE  /\ stored' \in [Session -> Data \cup {Gone}]
         /\ stored'[s] = data
         /\ \A t \in Session : t # s => stored'[t] = stored[t]
         /\ torn' = (IF data = meant THEN torn ELSE torn \cup {s})
         /\ torn' \subseteq Session
  BY DEF Set

(* A live session is well typed.                                           *)
LEMMA LiveType ==
  ASSUME stored \in [Session -> Data \cup {Gone}], NEW s \in Session, Live(s)
  PROVE  stored[s] \in Data
  BY DEF Live

-----------------------------------------------------------------------------
\* What each action makes of the request that takes it

Takes(q, w) == /\ w \in BusyWork /\ op' \in [Op -> BusyWork]
               /\ op'[q] = w
               /\ \A p \in Op : p # q => op'[p] = op[p]

LoginData(groups) == [groups |-> groups, areas |-> Resolve(groups, mapping)]

LEMMA FinishTakes == ASSUME TypeInv, NEW q \in Op, Finish(q) PROVE Takes(q, Rest)
  BY BecomeEffect, RestIsWork DEF TypeInv, Finish, Takes

LEMMA BeginTakes ==
  ASSUME TypeInv, NEW q \in Op
  PROVE  /\ \A s \in Session, groups \in SUBSET Group : Login(q, s, groups) =>
              /\ LoginData(groups) \in Data
              /\ Takes(q, [Rest EXCEPT !.at = "store", !.session = s, !.data = LoginData(groups)])
         /\ \A s \in Session, logout \in BOOLEAN : Read(q, s, logout) =>
              \E a \in {"put", "drop"}, b \in BOOLEAN :
                Takes(q, [Rest EXCEPT !.at = a, !.session = s, !.data = stored[s], !.logout = b])
         /\ Go(q, "sweep") => Takes(q, [op[q] EXCEPT !.at = "sweep"])
<1>1. ASSUME NEW s \in Session, NEW groups \in SUBSET Group, Login(q, s, groups)
      PROVE  /\ LoginData(groups) \in Data
             /\ Takes(q, [Rest EXCEPT !.at = "store", !.session = s, !.data = LoginData(groups)])
  <2>1. LoginData(groups) \in Data
    BY ResolveType DEF LoginData, Data
  <2>2. [Rest EXCEPT !.at = "store", !.session = s, !.data = LoginData(groups)] \in BusyWork
    BY <2>1, WorkEdits, RestIsWork DEF Mapping
  <2>3. Become(q, [Rest EXCEPT !.at = "store", !.session = s, !.data = LoginData(groups)])
    BY <1>1 DEF Login, LoginData
  <2>. QED
    BY <2>1, <2>2, <2>3, BecomeEffect DEF TypeInv, Takes
<1>2. ASSUME NEW s \in Session, NEW logout \in BOOLEAN, Read(q, s, logout)
      PROVE  \E a \in {"put", "drop"}, b \in BOOLEAN :
               Takes(q, [Rest EXCEPT !.at = a, !.session = s, !.data = stored[s], !.logout = b])
  <2> DEFINE a == IF s \in aged THEN "drop" ELSE "put"
             b == logout /\ s \notin aged
             w == [Rest EXCEPT !.at = a, !.session = s, !.data = stored[s], !.logout = b]
  <2>1. a \in {"put", "drop"} /\ b \in BOOLEAN
    OBVIOUS
  <2>2. stored[s] \in Data
    BY <1>2, LiveType DEF TypeInv, TypeOK, Read
  <2>3. Become(q, w)
    BY <1>2 DEF Read
  <2>. HIDE DEF a, b
  <2>4. w \in BusyWork
    BY <2>1, <2>2, WorkEdits, RestIsWork DEF Mapping
  <2>5. Takes(q, w)
    BY <2>3, <2>4, BecomeEffect DEF TypeInv, Takes
  <2>. QED
    BY <2>1, <2>5
<1>3. ASSUME Go(q, "sweep") PROVE Takes(q, [op[q] EXCEPT !.at = "sweep"])
  <2>1. op[q] \in BusyWork
    BY DEF TypeInv
  <2>2. [op[q] EXCEPT !.at = "sweep"] \in BusyWork
    BY <2>1 DEF BusyWork, Work, OpAt
  <2>. QED
    BY <1>3, <2>2, BecomeEffect DEF TypeInv, Takes, Go
<1>. QED
  BY <1>1, <1>2, <1>3

LEMMA CarryTakes ==
  ASSUME TypeInv, NEW q \in Op
  PROVE  /\ Store(q) \/ Drop(q) \/ EndSweep(q) \/ CutShort(q) => Takes(q, Rest)
         /\ Extend(q) => Takes(q, Rest) \/ Takes(q, [op[q] EXCEPT !.at = "drop"])
         /\ ReadMapping(q) => Takes(q, [op[q] EXCEPT !.at = "scan", !.map = mapping])
         /\ Scan(q) => Takes(q, [op[q] EXCEPT !.at = "rewrite",
                                   !.todo = {s \in Session : Moved(s, op[q].map)}])
         /\ \A s \in Session : Pick(q, s) =>
              Takes(q, IF Live(s)
                       THEN [op[q] EXCEPT !.at = "write", !.session = s, !.data = stored[s],
                                          !.todo = @ \ {s}]
                       ELSE [op[q] EXCEPT !.todo = @ \ {s}])
         /\ Write(q) => Takes(q, [op[q] EXCEPT !.at = "rewrite", !.session = Gone, !.data = Gone])
<1>0. op \in [Op -> BusyWork] /\ op[q] \in BusyWork /\ op[q] \in Work
  BY DEF TypeInv, BusyWork
<1>1. ASSUME Store(q) \/ Drop(q) \/ EndSweep(q) \/ CutShort(q) PROVE Takes(q, Rest)
  BY <1>1, FinishTakes DEF Store, Drop, EndSweep, CutShort
<1>2. ASSUME Extend(q) PROVE Takes(q, Rest) \/ Takes(q, [op[q] EXCEPT !.at = "drop"])
  <2>1. [op[q] EXCEPT !.at = "drop"] \in BusyWork
    BY <1>0, <1>2 DEF Extend, OpIs, BusyWork, Work, OpAt
  <2>2. Finish(q) \/ Become(q, [op[q] EXCEPT !.at = "drop"])
    BY <1>2 DEF Extend, Go
  <2>. QED
    BY <1>0, <2>1, <2>2, FinishTakes, BecomeEffect DEF Takes
<1>3. ASSUME ReadMapping(q)
      PROVE  Takes(q, [op[q] EXCEPT !.at = "scan", !.map = mapping])
  <2>1. mapping \in Mapping
    BY DEF TypeInv, TypeOK, Mapping
  <2>2. [op[q] EXCEPT !.at = "scan", !.map = mapping] \in BusyWork
    BY <1>0, <2>1 DEF BusyWork, Work, OpAt
  <2>. QED
    BY <1>0, <1>3, <2>2, BecomeEffect DEF ReadMapping, Takes
<1>4. ASSUME Scan(q)
      PROVE  Takes(q, [op[q] EXCEPT !.at = "rewrite",
                         !.todo = {s \in Session : Moved(s, op[q].map)}])
  <2> DEFINE todo == {s \in Session : Moved(s, op[q].map)}
  <2>1. todo \in SUBSET Session /\ Become(q, [op[q] EXCEPT !.at = "rewrite", !.todo = todo])
    BY <1>4 DEF Scan
  <2>. HIDE DEF todo
  <2>2. [op[q] EXCEPT !.at = "rewrite", !.todo = todo] \in BusyWork
    BY <1>0, <2>1 DEF BusyWork, Work, OpAt
  <2>3. Takes(q, [op[q] EXCEPT !.at = "rewrite", !.todo = todo])
    BY <1>0, <2>1, <2>2, BecomeEffect DEF Takes
  <2>. QED
    BY <2>3 DEF todo
<1>5. ASSUME NEW s \in Session, Pick(q, s)
      PROVE  Takes(q, IF Live(s)
                      THEN [op[q] EXCEPT !.at = "write", !.session = s, !.data = stored[s],
                                         !.todo = @ \ {s}]
                      ELSE [op[q] EXCEPT !.todo = @ \ {s}])
  <2>1. [op[q] EXCEPT !.todo = @ \ {s}] \in BusyWork
    BY <1>0, <1>5 DEF Pick, OpIs, BusyWork, Work, OpAt
  <2>2. Live(s) => stored[s] \in Data
    BY LiveType DEF TypeInv, TypeOK
  <2>3. Live(s) => [op[q] EXCEPT !.at = "write", !.session = s, !.data = stored[s],
                                 !.todo = @ \ {s}] \in BusyWork
    BY <1>0, <2>2 DEF BusyWork, Work, OpAt
  <2>. QED
    BY <1>0, <1>5, <2>1, <2>3, BecomeEffect DEF Pick, Takes
<1>6. ASSUME Write(q)
      PROVE  Takes(q, [op[q] EXCEPT !.at = "rewrite", !.session = Gone, !.data = Gone])
  <2>1. [op[q] EXCEPT !.at = "rewrite", !.session = Gone, !.data = Gone] \in BusyWork
    BY <1>0 DEF BusyWork, Work, OpAt
  <2>. QED
    BY <1>0, <1>6, <2>1, BecomeEffect DEF Write, Takes
<1>. QED
  BY <1>1, <1>2, <1>3, <1>4, <1>5, <1>6

-----------------------------------------------------------------------------
\* What the three writers put under a key

LEMMA WriterEffect ==
  ASSUME TypeInv, NEW q \in Op
  PROVE  /\ op[q].at \in {"store", "put", "write"} =>
              op[q].session \in Session /\ op[q].data \in Data
         /\ Store(q) => Set(op[q].session, op[q].data, LoginData(op[q].data.groups))
         /\ Extend(q) => Set(op[q].session, op[q].data, stored[op[q].session])
<1>1. op[q] \in BusyWork
  BY DEF TypeInv
<1>2. op[q].at \in {"store", "put", "write"} => op[q].session \in Session /\ op[q].data \in Data
  BY <1>1 DEF BusyWork
<1>3. ASSUME Store(q) PROVE Set(op[q].session, op[q].data, LoginData(op[q].data.groups))
  <2>1. op[q].data \in Data
    BY <1>2, <1>3 DEF Store, OpIs
  <2>2. [op[q].data EXCEPT !.areas = Resolve(op[q].data.groups, mapping)]
          = LoginData(op[q].data.groups)
    BY <2>1 DEF LoginData, Data
  <2>. QED
    BY <1>3, <2>2 DEF Store
<1>4. Extend(q) => Set(op[q].session, op[q].data, stored[op[q].session])
  BY DEF Extend
<1>. QED
  BY <1>2, <1>3, <1>4

Rewritten(q) == Replaced(op[q].data, Resolve(op[q].data.groups, op[q].map))
Due(s)       == IF Live(s) THEN Replaced(stored[s], Resolve(stored[s].groups, mapping)) ELSE Gone

LEMMA WriteEffect ==
  ASSUME TypeInv, NEW q \in Op, Write(q)
  PROVE  /\ op[q].session \in Session /\ op[q].data \in Data
         /\ Rewritten(q) \in Data
         /\ Rewritten(q).groups = op[q].data.groups
         /\ Rewritten(q).areas = Resolve(op[q].data.groups, op[q].map)
         /\ Set(op[q].session, Rewritten(q), Due(op[q].session))
<1>1. op[q].session \in Session /\ op[q].data \in Data
  BY WriterEffect DEF Write, OpIs
<1>2. /\ Rewritten(q) \in Data
      /\ Rewritten(q).groups = op[q].data.groups
      /\ Rewritten(q).areas = Resolve(op[q].data.groups, op[q].map)
  BY <1>1, ResolveType, ReplacedType DEF Rewritten
<1>3. Set(op[q].session, Rewritten(q), Due(op[q].session))
  BY DEF Write, Rewritten, Due
<1>. QED
  BY <1>1, <1>2, <1>3

(* Only a few actions leave more than the requests behind.                 *)
LEMMA TypeFrame ==
  ASSUME TypeInv, op' \in [Op -> BusyWork],
         areas' \subseteq Area, mapping' \subseteq Group \X areas',
         stored' \in [Session -> Data \cup {Gone}],
         issued' \subseteq Session, aged' \subseteq Session,
         changes' \in Nat, faults' \in Nat,
         past' \subseteq Mapping, left' \subseteq Session, torn' \subseteq Session
  PROVE  TypeInv'
  BY DEF TypeInv, TypeOK, BusyWork

LEMMA BeginType ==
  ASSUME TypeInv, NEW q \in Op, Begin(q)
  PROVE  TypeInv'
<1>1. CASE \E s \in Session, groups \in SUBSET Group : Login(q, s, groups)
  <2>1. PICK s \in Session, groups \in SUBSET Group : Login(q, s, groups)
    BY <1>1
  <2>. QED
    BY <2>1, BeginTakes, TypeFrame DEF Login, Takes, platform, history, TypeInv, TypeOK
<1>2. CASE \E s \in Session, logout \in BOOLEAN : Read(q, s, logout)
  <2>1. PICK s \in Session, logout \in BOOLEAN : Read(q, s, logout)
    BY <1>2
  <2>2. op' \in [Op -> BusyWork]
    BY <2>1, BeginTakes DEF Takes
  <2>. QED
    BY <2>1, <2>2, TypeFrame DEF Read, platform, history, TypeInv, TypeOK
<1>3. ASSUME NEW map \in SUBSET (Group \X areas'), areas' \subseteq areas,
             Change(q, map), Go(q, "sweep")
      PROVE  TypeInv'
  <2>1. op' \in [Op -> BusyWork]
    BY <1>3, BeginTakes DEF Takes
  <2>2. map \in Mapping
    BY <1>3 DEF TypeInv, TypeOK, Mapping
  <2>. QED
    BY <1>3, <2>1, <2>2, TypeFrame DEF Change, TypeInv, TypeOK
<1>4. CASE \E g \in Group, a \in Area : Grant(q, g, a) \/ Revoke(q, g, a)
  <2>1. PICK g \in Group, a \in Area : Grant(q, g, a) \/ Revoke(q, g, a)
    BY <1>4
  <2>2. a \in areas /\ areas' = areas /\ Go(q, "sweep")
    BY <2>1 DEF Grant, Revoke
  <2>3. mapping \cup {<<g, a>>} \in SUBSET (Group \X areas')
    BY <2>2 DEF TypeInv, TypeOK
  <2>4. mapping \ {<<g, a>>} \in SUBSET (Group \X areas')
    BY <2>2 DEF TypeInv, TypeOK
  <2>. QED
    BY <1>3, <2>1, <2>2, <2>3, <2>4 DEF Grant, Revoke
<1>5. CASE \E a \in Area : DeleteArea(q, a)
  <2>1. PICK a \in Area : DeleteArea(q, a)
    BY <1>5
  <2> DEFINE map == {p \in mapping : p[2] # a}
  <2>2. areas' = areas \ {a} /\ Change(q, map) /\ Go(q, "sweep")
    BY <2>1 DEF DeleteArea
  <2>3. map \in SUBSET (Group \X areas')
    BY <2>2 DEF TypeInv, TypeOK
  <2>. HIDE DEF map
  <2>. QED
    BY <1>3, <2>2, <2>3
<1>. QED
  BY <1>1, <1>2, <1>4, <1>5 DEF Begin

LEMMA CarryType ==
  ASSUME TypeInv, NEW q \in Op, Carry(q)
  PROVE  TypeInv'
<1>1. op' \in [Op -> BusyWork]
  BY CarryTakes DEF Carry, Takes
<1>2. CASE Store(q)
  <2>1. op[q].session \in Session /\ op[q].data \in Data
    BY <1>2, WriterEffect DEF Store, OpIs
  <2>2. stored' \in [Session -> Data \cup {Gone}] /\ torn' \subseteq Session
    BY <1>2, <2>1, WriterEffect, SetEffect DEF TypeInv, TypeOK
  <2>. QED
    BY <1>1, <1>2, <2>2, TypeFrame DEF Store, platform, TypeInv, TypeOK
<1>3. CASE Extend(q)
  <2>1. op[q].session \in Session /\ op[q].data \in Data
    BY <1>3, WriterEffect DEF Extend, OpIs
  <2>2. stored' \in [Session -> Data \cup {Gone}] /\ torn' \subseteq Session
    BY <1>3, <2>1, WriterEffect, SetEffect DEF TypeInv, TypeOK
  <2>. QED
    BY <1>1, <1>3, <2>2, TypeFrame DEF Extend, platform, TypeInv, TypeOK
<1>4. CASE Drop(q)
  <2>1. op[q].session \in Session
    BY <1>4 DEF Drop, OpIs, TypeInv, BusyWork
  <2>2. stored' \in [Session -> Data \cup {Gone}] /\ left' \subseteq Session
    BY <1>4, <2>1 DEF Drop, TypeInv, TypeOK
  <2>. QED
    BY <1>1, <1>4, <2>2, TypeFrame DEF Drop, platform, TypeInv, TypeOK
<1>5. CASE Write(q)
  <2>1. stored' \in [Session -> Data \cup {Gone}] /\ torn' \subseteq Session
    BY <1>5, WriteEffect, SetEffect DEF TypeInv, TypeOK
  <2>. QED
    BY <1>1, <1>5, <2>1, TypeFrame DEF Write, platform, TypeInv, TypeOK
<1>6. CASE ReadMapping(q) \/ Scan(q) \/ EndSweep(q) \/ \E s \in Session : Pick(q, s)
  BY <1>1, <1>6, TypeFrame
     DEF ReadMapping, Scan, EndSweep, Pick, platform, history, TypeInv, TypeOK
<1>. QED
  BY <1>2, <1>3, <1>4, <1>5, <1>6 DEF Carry

LEMMA TypeInit == Init => TypeInv
<1>1. ASSUME Init PROVE TypeOK /\ op \in [Op -> BusyWork]
  <2>1. op = [q \in Op |-> Rest] /\ Rest \in BusyWork /\ Rest \in Work
    BY <1>1, RestIsWork DEF Init, BusyWork
  <2>. QED
    BY <1>1, <2>1 DEF Init, TypeOK, Mapping
<1>. QED
  BY <1>1 DEF TypeInv

LEMMA TypeStep == TypeInv /\ [Next]_vars => TypeInv'
<1>. SUFFICES ASSUME TypeInv, [Next]_vars PROVE TypeInv'
  OBVIOUS
<1>1. ASSUME NEW q \in Op, CutShort(q) PROVE TypeInv'
  <2>1. op' \in [Op -> BusyWork]
    BY <1>1, CarryTakes DEF Takes
  <2>. QED
    BY <1>1, <2>1, TypeFrame DEF CutShort, platform, history, TypeInv, TypeOK
<1>2. ASSUME NEW s \in Session, ExpireIdle(s) \/ GrowOld(s) PROVE TypeInv'
  BY <1>2, TypeFrame DEF ExpireIdle, GrowOld, platform, history, TypeInv, TypeOK
<1>3. CASE UNCHANGED vars
  BY <1>3 DEF vars, platform, history, TypeInv, TypeOK
<1>. QED
  BY <1>1, <1>2, <1>3, BeginType, CarryType DEF Next

LEMMA TypeInvariant == Spec => []TypeInv
  BY TypeInit, TypeStep, PTL DEF Spec

(* Whatever overlaps, a session is either whole or gone.                   *)
THEOREM TypeCorrect == Spec => []TypeOK
<1>1. TypeInv => TypeOK
  BY DEF TypeInv
<1>. QED
  BY <1>1, TypeInvariant, PTL

-----------------------------------------------------------------------------
\* The areas of a session are those of one mapping that was in force

Granted(data) == \E map \in past : data.areas = Resolve(data.groups, map)

(* So are those a request is about to store, and so is the mapping that a  *)
(* sweep works from.                                                       *)
WorksFromThePast(w) ==
  /\ w.at \in {"store", "put", "write"} => Granted(w.data)
  /\ w.at \in {"scan", "rewrite", "write"} => w.map \in past

GrantInv ==
  /\ mapping \in past
  /\ \A s \in Session : Live(s) => Granted(stored[s])
  /\ \A q \in Op : WorksFromThePast(op[q])

LEMMA GrantKept ==
  ASSUME GrantInv, past \subseteq past', mapping' \in past',
         \A s \in Session : stored'[s] \in {stored[s], Gone} \/ Granted(stored'[s]),
         \A q \in Op : op'[q] = op[q] \/ WorksFromThePast(op'[q])
  PROVE  GrantInv'
<1>1. ASSUME NEW s \in Session, Live(s)' PROVE Granted(stored[s])'
  BY <1>1 DEF GrantInv, Granted, Live
<1>2. ASSUME NEW q \in Op PROVE WorksFromThePast(op[q])'
  BY DEF GrantInv, Granted, WorksFromThePast
<1>. QED
  BY <1>1, <1>2 DEF GrantInv

LEMMA RestWorks == WorksFromThePast(Rest)
  BY DEF WorksFromThePast, Rest

LEMMA TakenWork ==
  ASSUME NEW q \in Op, NEW w, Takes(q, w), WorksFromThePast(w)
  PROVE  \A p \in Op : op'[p] = op[p] \/ WorksFromThePast(op'[p])
  BY DEF Takes

LEMMA BeginGrant ==
  ASSUME TypeInv, GrantInv, NEW q \in Op, Begin(q)
  PROVE  GrantInv'
<1>1. ASSUME NEW s \in Session, NEW groups \in SUBSET Group, Login(q, s, groups)
      PROVE  GrantInv'
  <2> DEFINE w == [Rest EXCEPT !.at = "store", !.session = s, !.data = LoginData(groups)]
  <2>1. Takes(q, w)
    BY <1>1, BeginTakes
  <2>2. Granted(LoginData(groups))
    BY DEF Granted, LoginData, GrantInv
  <2>3. w.at = "store" /\ w.data = LoginData(groups)
    BY DEF Rest
  <2>. HIDE DEF w
  <2>4. WorksFromThePast(w)
    BY <2>2, <2>3 DEF WorksFromThePast
  <2>5. stored' = stored /\ past' = past /\ mapping' = mapping
    BY <1>1 DEF Login, platform, history
  <2>6. mapping \in past
    BY DEF GrantInv
  <2>. QED
    BY <2>1, <2>4, <2>5, <2>6, TakenWork, GrantKept
<1>2. ASSUME NEW s \in Session, NEW logout \in BOOLEAN, Read(q, s, logout)
      PROVE  GrantInv'
  <2>1. PICK a \in {"put", "drop"}, b \in BOOLEAN :
          Takes(q, [Rest EXCEPT !.at = a, !.session = s, !.data = stored[s], !.logout = b])
    BY <1>2, BeginTakes
  <2> DEFINE w == [Rest EXCEPT !.at = a, !.session = s, !.data = stored[s], !.logout = b]
  <2>2. Granted(stored[s])
    BY <1>2 DEF GrantInv, Read
  <2>3. w.at = a /\ w.data = stored[s]
    BY DEF Rest
  <2>4. Takes(q, w)
    BY <2>1
  <2>. HIDE DEF w
  <2>5. WorksFromThePast(w)
    BY <2>1, <2>2, <2>3 DEF WorksFromThePast
  <2>6. stored' = stored /\ past' = past /\ mapping' = mapping
    BY <1>2 DEF Read, platform, history
  <2>7. mapping \in past
    BY DEF GrantInv
  <2>. QED
    BY <2>4, <2>5, <2>6, <2>7, TakenWork, GrantKept
<1>3. ASSUME NEW map, Change(q, map), Go(q, "sweep") PROVE GrantInv'
  <2> DEFINE w == [op[q] EXCEPT !.at = "sweep"]
  <2>1. Takes(q, w) /\ op[q] \in Work
    BY <1>3, BeginTakes DEF TypeInv, BusyWork
  <2>2. w.at = "sweep"
    BY <2>1 DEF Work
  <2>. HIDE DEF w
  <2>3. WorksFromThePast(w)
    BY <2>2 DEF WorksFromThePast
  <2>4. stored' = stored /\ past' = past \cup {map} /\ mapping' = map
    BY <1>3 DEF Change
  <2>. QED
    BY <2>1, <2>3, <2>4, TakenWork, GrantKept
<1>. QED
  BY <1>1, <1>2, <1>3 DEF Begin, Grant, Revoke, DeleteArea

LEMMA CarryGrant ==
  ASSUME TypeInv, GrantInv, NEW q \in Op, Carry(q)
  PROVE  GrantInv'
<1>0. /\ op[q] \in Work /\ WorksFromThePast(op[q]) /\ mapping \in past
      /\ stored \in [Session -> Data \cup {Gone}] /\ torn \subseteq Session
      /\ past' = past /\ mapping' = mapping
  BY DEF GrantInv, TypeInv, TypeOK, BusyWork, Carry, Store, Extend, Drop, ReadMapping, Scan,
         Write, EndSweep, Pick, platform, history
<1>1. ASSUME Store(q) \/ Extend(q) \/ Drop(q) \/ EndSweep(q)
      PROVE  \A p \in Op : op'[p] = op[p] \/ WorksFromThePast(op'[p])
  <2>1. [op[q] EXCEPT !.at = "drop"].at = "drop"
    BY <1>0 DEF Work
  <2>2. WorksFromThePast([op[q] EXCEPT !.at = "drop"])
    BY <2>1 DEF WorksFromThePast
  <2>. QED
    BY <1>1, <2>2, RestWorks, TakenWork, CarryTakes
<1>2. CASE Store(q) \/ Extend(q)
  <2>1. op[q].at \in {"store", "put"}
    BY <1>2 DEF Store, Extend, OpIs
  <2>2. op[q].session \in Session /\ op[q].data \in Data /\ Granted(op[q].data)
    BY <1>0, <2>1, WriterEffect DEF WorksFromThePast
  <2>3. \E meant : Set(op[q].session, op[q].data, meant)
    BY <1>2, WriterEffect
  <2>4. \A s \in Session : stored'[s] = stored[s] \/ stored'[s] = op[q].data
    BY <1>0, <2>2, <2>3, SetEffect
  <2>. QED
    BY <1>0, <1>1, <1>2, <2>2, <2>4, GrantKept
<1>3. CASE Drop(q)
  <2>1. \A s \in Session : stored'[s] \in {stored[s], Gone}
    BY <1>0, <1>3 DEF Drop
  <2>. QED
    BY <1>0, <1>1, <1>3, <2>1, GrantKept
<1>4. CASE EndSweep(q)
  BY <1>0, <1>1, <1>4, GrantKept DEF EndSweep
<1>5. CASE ReadMapping(q)
  <2> DEFINE w == [op[q] EXCEPT !.at = "scan", !.map = mapping]
  <2>1. Takes(q, w) /\ w.at = "scan" /\ w.map = mapping
    BY <1>0, <1>5, CarryTakes DEF Work
  <2>. HIDE DEF w
  <2>2. WorksFromThePast(w)
    BY <1>0, <2>1 DEF WorksFromThePast
  <2>. QED
    BY <1>0, <1>5, <2>1, <2>2, TakenWork, GrantKept DEF ReadMapping
<1>6. CASE Scan(q)
  <2> DEFINE w == [op[q] EXCEPT !.at = "rewrite", !.todo = {s \in Session : Moved(s, op[q].map)}]
  <2>1. Takes(q, w) /\ w.at = "rewrite" /\ w.map = op[q].map
    BY <1>0, <1>6, CarryTakes DEF Work
  <2>. HIDE DEF w
  <2>2. WorksFromThePast(w)
    BY <1>0, <1>6, <2>1 DEF WorksFromThePast, Scan, OpIs
  <2>. QED
    BY <1>0, <1>6, <2>1, <2>2, TakenWork, GrantKept DEF Scan
<1>7. ASSUME NEW s \in Session, Pick(q, s) PROVE GrantInv'
  <2> DEFINE u == [op[q] EXCEPT !.at = "write", !.session = s, !.data = stored[s], !.todo = @ \ {s}]
             v == [op[q] EXCEPT !.todo = @ \ {s}]
  <2>1. /\ Takes(q, IF Live(s) THEN u ELSE v)
        /\ u.at = "write" /\ u.data = stored[s] /\ u.map = op[q].map
        /\ v.at = op[q].at /\ v.data = op[q].data /\ v.map = op[q].map
    BY <1>0, <1>7, CarryTakes DEF Work
  <2>. HIDE DEF u, v
  <2>2. op[q].at = "rewrite"
    BY <1>7 DEF Pick, OpIs
  <2>3. WorksFromThePast(v)
    BY <1>0, <2>1, <2>2 DEF WorksFromThePast
  <2>4. Live(s) => WorksFromThePast(u)
    BY <1>0, <2>1, <2>2 DEF WorksFromThePast, GrantInv
  <2>. QED
    BY <1>0, <1>7, <2>1, <2>3, <2>4, TakenWork, GrantKept DEF Pick
<1>8. CASE Write(q)
  <2> DEFINE w == [op[q] EXCEPT !.at = "rewrite", !.session = Gone, !.data = Gone]
  <2>1. Takes(q, w) /\ w.at = "rewrite" /\ w.map = op[q].map
    BY <1>0, <1>8, CarryTakes DEF Work
  <2>. HIDE DEF w
  <2>2. op[q].map \in past
    BY <1>0, <1>8 DEF WorksFromThePast, Write, OpIs
  <2>3. WorksFromThePast(w)
    BY <2>1, <2>2 DEF WorksFromThePast
  <2>4. Granted(Rewritten(q))
    BY <1>8, <2>2, WriteEffect DEF Granted
  <2>5. \A s \in Session : stored'[s] = stored[s] \/ stored'[s] = Rewritten(q)
    BY <1>0, <1>8, WriteEffect, SetEffect
  <2>. QED
    BY <1>0, <2>1, <2>3, <2>4, <2>5, TakenWork, GrantKept
<1>. QED
  BY <1>2, <1>3, <1>4, <1>5, <1>6, <1>7, <1>8 DEF Carry

LEMMA GrantStep == TypeInv /\ GrantInv /\ [Next]_vars => GrantInv'
<1>. SUFFICES ASSUME TypeInv, GrantInv, [Next]_vars PROVE GrantInv'
  OBVIOUS
<1>0. mapping \in past /\ stored \in [Session -> Data \cup {Gone}]
  BY DEF GrantInv, TypeInv, TypeOK
<1>1. ASSUME NEW q \in Op, CutShort(q) PROVE GrantInv'
  <2>1. Takes(q, Rest)
    BY <1>1, CarryTakes
  <2>2. stored' = stored /\ past' = past /\ mapping' = mapping
    BY <1>1 DEF CutShort, platform, history
  <2>. QED
    BY <1>0, <2>1, <2>2, RestWorks, TakenWork, GrantKept
<1>2. ASSUME NEW s \in Session, ExpireIdle(s) \/ GrowOld(s) PROVE GrantInv'
  <2>1. op' = op /\ past' = past /\ mapping' = mapping
    BY <1>2 DEF ExpireIdle, GrowOld, platform, history
  <2>2. \A t \in Session : stored'[t] \in {stored[t], Gone}
    BY <1>0, <1>2 DEF ExpireIdle, GrowOld
  <2>. QED
    BY <1>0, <2>1, <2>2, GrantKept
<1>3. CASE UNCHANGED vars
  BY <1>0, <1>3, GrantKept DEF vars, platform, history
<1>. QED
  BY <1>1, <1>2, <1>3, BeginGrant, CarryGrant DEF Next

LEMMA GrantInit == Init => GrantInv
  BY RestWorks DEF Init, GrantInv, Live

(* No session shows areas that were not granted to its groups at one time, *)
(* all of them and no others (authorization.ts, authService.ts).           *)
THEOREM NothingIsInvented == Spec => []AreasWereGranted
<1>1. GrantInv => AreasWereGranted
  BY DEF GrantInv, Granted, AreasWereGranted
<1>. QED
  BY <1>1, GrantInit, GrantStep, TypeInvariant, PTL DEF Spec

-----------------------------------------------------------------------------
\* A session that was logged out does not come back by itself

(* Nobody else knows of a session that is about to be stored.              *)
Fresh(q) == /\ op[q].session \notin left /\ ~Live(op[q].session)
            /\ \A p \in Op : p # q => op[p].session # op[q].session

LeftInv ==
  /\ left \subseteq issued /\ \A s \in Session : Live(s) => s \in issued
  /\ \A q \in Op : op[q].session \in issued \cup {Gone}
  /\ \A q \in Op : OpIs(q, "store") => Fresh(q)
  /\ LoggedOutStaysOut

(* Whoever stores nothing new keeps to the sessions there are.             *)
LEMMA LeftKept ==
  ASSUME TypeInv, LeftInv, NEW q \in Op, NEW w, Takes(q, w), w.at # "store",
         w.session \in {op[q].session, Gone} \/ (w.session \in Session /\ Live(w.session)),
         issued' = issued, left' \subseteq Session,
         \A s \in Session : Live(s)' => Live(s) \/ s = op[q].session,
         left' \subseteq left \cup {op[q].session},
         LoggedOutStaysOut'
  PROVE  LeftInv'
<1>0. Gone \notin Session /\ issued \subseteq Session
  BY GoneAssumption DEF TypeInv, TypeOK
<1>1. left' \subseteq issued'
  BY <1>0 DEF LeftInv
<1>2. \A s \in Session : Live(s)' => s \in issued'
  BY <1>0 DEF LeftInv
<1>3. \A p \in Op : op'[p].session \in issued' \cup {Gone}
  BY <1>0 DEF LeftInv, Takes
<1>4. ASSUME NEW p \in Op, OpIs(p, "store")' PROVE Fresh(p)'
  <2>1. p # q /\ op'[p] = op[p] /\ OpIs(p, "store") /\ op[p] \in BusyWork
    BY <1>4 DEF Takes, OpIs, TypeInv
  <2>2. op[p].session \in Session /\ Fresh(p)
    BY <2>1 DEF LeftInv, OpIs, BusyWork
  <2>3. op[p].session \notin left' /\ ~Live(op[p].session)'
    BY <2>1, <2>2 DEF Fresh
  <2>4. ASSUME NEW r \in Op, r # p PROVE op'[r].session # op[p].session
    BY <1>0, <2>1, <2>2, <2>4 DEF Fresh, Takes
  <2>. QED
    BY <2>1, <2>3, <2>4 DEF Fresh, Live
<1>. QED
  BY <1>1, <1>2, <1>3, <1>4 DEF LeftInv

LEMMA LeftBegin ==
  ASSUME TypeInv, LeftInv, NEW q \in Op, Begin(q)
  PROVE  LeftInv'
<1>0. op[q] \in Work /\ Gone \notin Session /\ issued \subseteq Session /\ left \subseteq Session
  BY GoneAssumption DEF TypeInv, TypeOK, BusyWork
<1>1. ASSUME NEW s \in Session, NEW groups \in SUBSET Group, Login(q, s, groups)
      PROVE  LeftInv'
  <2> DEFINE w == [Rest EXCEPT !.at = "store", !.session = s, !.data = LoginData(groups)]
  <2>1. Takes(q, w) /\ w.session = s
    BY <1>1, BeginTakes DEF Rest
  <2>. HIDE DEF w
  <2>2. s \notin issued /\ issued' = issued \cup {s} /\ left' = left /\ stored' = stored /\ torn' = torn
    BY <1>1 DEF Login, history
  <2>3. \A p \in Op : p # q => op'[p].session # s
    BY <1>0, <2>1, <2>2 DEF Takes, LeftInv
  <2>4. ~Live(s) /\ s \notin left
    BY <2>2 DEF LeftInv
  <2>5. Fresh(q)'
    BY <2>1, <2>2, <2>3, <2>4 DEF Fresh, Takes, Live
  <2>6. ASSUME NEW p \in Op, p # q, OpIs(p, "store")' PROVE Fresh(p)'
    <3>1. op'[p] = op[p] /\ Fresh(p) /\ op'[q].session = s
      BY <2>1, <2>6 DEF Takes, LeftInv, OpIs
    <3>2. op[p].session # s
      BY <2>3, <2>6, <3>1
    <3>. QED
      BY <2>1, <2>2, <3>1, <3>2 DEF Fresh, Takes, Live
  <2>. QED
    BY <2>1, <2>2, <2>5, <2>6 DEF LeftInv, Takes, Live, LoggedOutStaysOut
<1>2. ASSUME NEW s \in Session, NEW logout \in BOOLEAN, Read(q, s, logout)
      PROVE  LeftInv'
  <2>1. PICK a \in {"put", "drop"}, b \in BOOLEAN :
          Takes(q, [Rest EXCEPT !.at = a, !.session = s, !.data = stored[s], !.logout = b])
    BY <1>2, BeginTakes
  <2> DEFINE w == [Rest EXCEPT !.at = a, !.session = s, !.data = stored[s], !.logout = b]
  <2>2. Takes(q, w) /\ w.at = a /\ w.session = s /\ Live(s)
    BY <1>2, <2>1 DEF Rest, Read
  <2>. HIDE DEF w
  <2>3. issued' = issued /\ left' = left /\ stored' = stored /\ torn' = torn
    BY <1>2 DEF Read, history
  <2>. QED
    BY <1>0, <2>1, <2>2, <2>3, LeftKept DEF Live, LoggedOutStaysOut, LeftInv
<1>3. ASSUME NEW map, Change(q, map), Go(q, "sweep") PROVE LeftInv'
  <2> DEFINE w == [op[q] EXCEPT !.at = "sweep"]
  <2>1. Takes(q, w) /\ w.at = "sweep" /\ w.session = op[q].session
    BY <1>0, <1>3, BeginTakes DEF Work
  <2>. HIDE DEF w
  <2>2. issued' = issued /\ left' = left /\ stored' = stored /\ torn' = torn
    BY <1>3 DEF Change
  <2>. QED
    BY <1>0, <2>1, <2>2, LeftKept DEF Live, LoggedOutStaysOut, LeftInv
<1>. QED
  BY <1>1, <1>2, <1>3 DEF Begin, Grant, Revoke, DeleteArea

(* A write that says what it would say if nothing had happened brings no   *)
(* session back.                                                           *)
LEMMA WriteBringsNothingBack ==
  ASSUME TypeInv, LeftInv, NEW s \in Session, NEW data \in Data, NEW meant, Set(s, data, meant),
         left' = left, s \in left /\ data = meant => Live(s)
  PROVE  LoggedOutStaysOut' /\ \A t \in Session : Live(t)' => Live(t) \/ t = s
<1>1. /\ stored \in [Session -> Data \cup {Gone}] /\ torn \subseteq Session
      /\ left \subseteq Session
  BY DEF TypeInv, TypeOK
<1>2. \A t \in Session : t # s => stored'[t] = stored[t]
  BY <1>1, SetEffect
<1>3. torn' = IF data = meant THEN torn ELSE torn \cup {s}
  BY <1>1, SetEffect
<1>. QED
  BY <1>1, <1>2, <1>3 DEF LoggedOutStaysOut, LeftInv, Live

LEMMA LeftCarry ==
  ASSUME TypeInv, LeftInv, NEW q \in Op, Carry(q)
  PROVE  LeftInv'
<1>0. /\ op[q] \in Work /\ op[q] \in BusyWork /\ Gone \notin Session /\ Gone \notin Data
      /\ left \subseteq Session /\ stored \in [Session -> Data \cup {Gone}]
      /\ LoggedOutStaysOut
  BY GoneAssumption DEF TypeInv, TypeOK, BusyWork, LeftInv, Data
<1>a. Rest.at = "idle" /\ Rest.session = Gone
  BY DEF Rest
<1>b. [op[q] EXCEPT !.at = "drop"].at = "drop"
      /\ [op[q] EXCEPT !.at = "drop"].session = op[q].session
  BY <1>0 DEF Work
<1>1. CASE Store(q)
  <2>1. op[q].session \in Session /\ op[q].data \in Data /\ Fresh(q)
    BY <1>1, WriterEffect DEF Store, OpIs, LeftInv
  <2>2. Set(op[q].session, op[q].data, LoginData(op[q].data.groups)) /\ left' = left
        /\ issued' = issued
    BY <1>1, WriterEffect DEF Store
  <2>3. LoggedOutStaysOut' /\ \A t \in Session : Live(t)' => Live(t) \/ t = op[q].session
    BY <2>1, <2>2, WriteBringsNothingBack DEF Fresh
  <2>. QED
    BY <1>0, <1>1, <1>a, <2>2, <2>3, CarryTakes, LeftKept
<1>2. CASE Extend(q)
  <2>1. op[q].session \in Session /\ op[q].data \in Data
    BY <1>2, WriterEffect DEF Extend, OpIs
  <2>2. Set(op[q].session, op[q].data, stored[op[q].session]) /\ left' = left /\ issued' = issued
    BY <1>2, WriterEffect DEF Extend
  <2>3. LoggedOutStaysOut' /\ \A t \in Session : Live(t)' => Live(t) \/ t = op[q].session
    BY <1>0, <2>1, <2>2, WriteBringsNothingBack DEF Live
  <2>4. Takes(q, Rest) \/ Takes(q, [op[q] EXCEPT !.at = "drop"])
    BY <1>2, CarryTakes
  <2>5. CASE Takes(q, Rest)
    BY <1>0, <1>a, <2>2, <2>3, <2>5, LeftKept
  <2>6. CASE Takes(q, [op[q] EXCEPT !.at = "drop"])
    BY <1>0, <1>b, <2>2, <2>3, <2>6, LeftKept
  <2>. QED
    BY <2>4, <2>5, <2>6
<1>3. CASE Drop(q)
  <2>1. op[q].session \in Session
    BY <1>0, <1>3 DEF Drop, OpIs, BusyWork
  <2>2. /\ stored' = [stored EXCEPT ![op[q].session] = Gone] /\ torn' = torn
        /\ left' \subseteq left \cup {op[q].session} /\ issued' = issued
    BY <1>3 DEF Drop
  <2>3. \A t \in Session : Live(t)' => Live(t) /\ t # op[q].session
    BY <1>0, <2>1, <2>2 DEF Live
  <2>4. LoggedOutStaysOut'
    BY <1>0, <2>1, <2>2, <2>3 DEF LoggedOutStaysOut
  <2>. QED
    BY <1>0, <1>3, <1>a, <2>1, <2>2, <2>3, <2>4, CarryTakes, LeftKept
<1>4. CASE Write(q)
  <2> DEFINE w == [op[q] EXCEPT !.at = "rewrite", !.session = Gone, !.data = Gone]
  <2>1. Takes(q, w) /\ w.at = "rewrite" /\ w.session = Gone
    BY <1>0, <1>4, CarryTakes DEF Work
  <2>. HIDE DEF w
  <2>2. left' = left /\ issued' = issued
    BY <1>4 DEF Write
  <2>3. Rewritten(q) = Due(op[q].session) => Live(op[q].session)
    BY <1>0, <1>4, WriteEffect DEF Due
  <2>4. LoggedOutStaysOut' /\ \A t \in Session : Live(t)' => Live(t) \/ t = op[q].session
    BY <1>4, <2>2, <2>3, WriteEffect, WriteBringsNothingBack
  <2>. QED
    BY <1>0, <2>1, <2>2, <2>4, LeftKept
<1>5. ASSUME UNCHANGED <<stored, issued, history>> PROVE
        /\ issued' = issued /\ left' \subseteq Session /\ LoggedOutStaysOut'
        /\ \A s \in Session : Live(s)' => Live(s)
        /\ left' \subseteq left
  BY <1>0, <1>5 DEF LoggedOutStaysOut, Live, history
<1>6. CASE ReadMapping(q)
  <2> DEFINE w == [op[q] EXCEPT !.at = "scan", !.map = mapping]
  <2>1. Takes(q, w) /\ w.at = "scan" /\ w.session = op[q].session
    BY <1>0, <1>6, CarryTakes DEF Work
  <2>. HIDE DEF w
  <2>. QED
    BY <1>5, <1>6, <2>1, LeftKept DEF ReadMapping
<1>7. CASE Scan(q)
  <2> DEFINE w == [op[q] EXCEPT !.at = "rewrite", !.todo = {s \in Session : Moved(s, op[q].map)}]
  <2>1. Takes(q, w) /\ w.at = "rewrite" /\ w.session = op[q].session
    BY <1>0, <1>7, CarryTakes DEF Work
  <2>. HIDE DEF w
  <2>. QED
    BY <1>5, <1>7, <2>1, LeftKept DEF Scan
<1>8. ASSUME NEW s \in Session, Pick(q, s) PROVE LeftInv'
  <2> DEFINE u == [op[q] EXCEPT !.at = "write", !.session = s, !.data = stored[s], !.todo = @ \ {s}]
             v == [op[q] EXCEPT !.todo = @ \ {s}]
  <2>1. /\ Takes(q, IF Live(s) THEN u ELSE v)
        /\ u.at = "write" /\ u.session = s /\ v.at = op[q].at /\ v.session = op[q].session
    BY <1>0, <1>8, CarryTakes DEF Work
  <2>. HIDE DEF u, v
  <2>2. op[q].at = "rewrite"
    BY <1>8 DEF Pick, OpIs
  <2>3. CASE Live(s)
    BY <1>5, <1>8, <2>1, <2>3, LeftKept DEF Pick
  <2>4. CASE ~Live(s)
    BY <1>5, <1>8, <2>1, <2>2, <2>4, LeftKept DEF Pick
  <2>. QED
    BY <2>3, <2>4
<1>9. CASE EndSweep(q)
  BY <1>5, <1>9, <1>a, CarryTakes, LeftKept DEF EndSweep
<1>. QED
  BY <1>1, <1>2, <1>3, <1>4, <1>6, <1>7, <1>8, <1>9 DEF Carry

LEMMA LeftStep == TypeInv /\ LeftInv /\ [Next]_vars => LeftInv'
<1>. SUFFICES ASSUME TypeInv, LeftInv, [Next]_vars PROVE LeftInv'
  OBVIOUS
<1>0. stored \in [Session -> Data \cup {Gone}] /\ left \subseteq Session /\ LoggedOutStaysOut
  BY DEF TypeInv, TypeOK, LeftInv
<1>1. ASSUME NEW q \in Op, CutShort(q) PROVE LeftInv'
  <2>1. Takes(q, Rest) /\ Rest.at = "idle" /\ Rest.session = Gone
    BY <1>1, CarryTakes DEF Rest
  <2>2. stored' = stored /\ issued' = issued /\ left' = left /\ torn' = torn
    BY <1>1 DEF CutShort, history
  <2>. QED
    BY <1>0, <2>1, <2>2, LeftKept DEF LoggedOutStaysOut, Live
<1>2. ASSUME NEW s \in Session, ExpireIdle(s) \/ GrowOld(s) PROVE LeftInv'
  <2>1. op' = op /\ issued' = issued /\ left' = left /\ torn' = torn
    BY <1>2 DEF ExpireIdle, GrowOld, history
  <2>2. \A t \in Session : Live(t)' => Live(t)
    BY <1>0, <1>2 DEF ExpireIdle, GrowOld, Live
  <2>3. LoggedOutStaysOut'
    BY <1>0, <2>1, <2>2 DEF LoggedOutStaysOut
  <2>4. ASSUME NEW q \in Op, OpIs(q, "store")' PROVE Fresh(q)'
    <3>1. Fresh(q) /\ op[q].session \in Session
      BY <2>1, <2>4 DEF LeftInv, OpIs, TypeInv, BusyWork
    <3>. QED
      BY <2>1, <2>2, <3>1 DEF Fresh, Live
  <2>. QED
    BY <2>1, <2>2, <2>3, <2>4 DEF LeftInv
<1>3. CASE UNCHANGED vars
  BY <1>3 DEF vars, history, LeftInv, LoggedOutStaysOut, Fresh, OpIs, Live
<1>. QED
  BY <1>1, <1>2, <1>3, LeftBegin, LeftCarry DEF Next

LEMMA LeftInit == Init => LeftInv
  BY DEF Init, LeftInv, LoggedOutStaysOut, Live, Rest, OpIs

(* A session that was logged out is back only if an operation that had     *)
(* read it wrote it again (authService.logout).                            *)
THEOREM LogoutHolds == Spec => []LoggedOutStaysOut
<1>1. LeftInv => LoggedOutStaysOut
  BY DEF LeftInv
<1>. QED
  BY <1>1, LeftInit, LeftStep, TypeInvariant, PTL DEF Spec

-----------------------------------------------------------------------------
\* A session that is behind the mapping has a sweep on its way

(* A sweep will still come to a session: it has not read the mapping, or   *)
(* it has, the mapping is the same still, and it did not pass by.          *)
Fixes(w, s) ==
  \/ w.at = "sweep"
  \/ /\ w.map = mapping
     /\ \/ w.at = "scan"
        \/ w.at \in {"rewrite", "write"} /\ s \in w.todo
        \/ w.at = "write" /\ w.session = s

Behind(s) == Stale(s) /\ s \notin torn

FixInv == faults = 0 => \A s \in Session : Behind(s) => \E p \in Op : Fixes(op[p], s)

(* One request went on, the mapping stayed: no session fell behind, and    *)
(* what the request was to fix it still is to fix.                         *)
LEMMA FixKept ==
  ASSUME FixInv, NEW q \in Op, NEW w, Takes(q, w),
         mapping' = mapping, faults' = faults,
         \A s \in Session : Behind(s)' => Behind(s) /\ (Fixes(op[q], s) => Fixes(w, s))
  PROVE  FixInv'
<1>. SUFFICES ASSUME faults' = 0, NEW s \in Session, Behind(s)'
              PROVE  \E p \in Op : Fixes(op[p], s)'
  BY DEF FixInv
<1>1. PICK p \in Op : Fixes(op[p], s)
  BY DEF FixInv
<1>2. CASE p = q
  BY <1>1, <1>2 DEF Fixes, Takes
<1>3. CASE p # q
  BY <1>1, <1>3 DEF Fixes, Takes
<1>. QED
  BY <1>2, <1>3

(* A writer that leaves the session as it was meant to be, or marks it.    *)
LEMMA WriteFalls ==
  ASSUME TypeInv, NEW s \in Session, NEW data \in Data, NEW meant, Set(s, data, meant),
         mapping' = mapping, data = meant => (~Stale(s)' \/ (Live(s) /\ stored[s] = data))
  PROVE  \A t \in Session : Behind(t)' => Behind(t)
<1>1. stored \in [Session -> Data \cup {Gone}] /\ torn \subseteq Session
  BY DEF TypeInv, TypeOK
<1>2. /\ stored'[s] = data /\ \A t \in Session : t # s => stored'[t] = stored[t]
      /\ torn' = (IF data = meant THEN torn ELSE torn \cup {s})
  BY <1>1, SetEffect
<1>. QED
  BY <1>1, <1>2 DEF Behind, Stale, Moved, Live

LEMMA FixBegin ==
  ASSUME TypeInv, FixInv, NEW q \in Op, Begin(q)
  PROVE  FixInv'
<1>0. op[q] \in Work
  BY DEF TypeInv, BusyWork
<1>1. ASSUME NEW w, Takes(q, w), OpIs(q, "idle"),
             UNCHANGED <<mapping, stored, faults, torn>>
      PROVE  FixInv'
  <2>1. \A s \in Session : Behind(s)' => Behind(s)
    BY <1>1 DEF Behind, Stale, Moved, Live
  <2>2. \A s \in Session : ~Fixes(op[q], s)
    BY <1>1 DEF Fixes, OpIs
  <2>. QED
    BY <1>1, <2>1, <2>2, FixKept
<1>2. ASSUME NEW s \in Session, NEW groups \in SUBSET Group, Login(q, s, groups)
      PROVE  FixInv'
  BY <1>1, <1>2, BeginTakes DEF Login, platform, history
<1>3. ASSUME NEW s \in Session, NEW logout \in BOOLEAN, Read(q, s, logout)
      PROVE  FixInv'
  BY <1>1, <1>3, BeginTakes DEF Read, platform, history
<1>4. ASSUME Go(q, "sweep") PROVE FixInv'
  <2>1. op'[q].at = "sweep"
    BY <1>0, <1>4, BeginTakes DEF Takes, Work
  <2>. QED
    BY <2>1 DEF FixInv, Fixes
<1>. QED
  BY <1>2, <1>3, <1>4 DEF Begin, Grant, Revoke, DeleteArea

LEMMA FixCarry ==
  ASSUME TypeInv, FixInv, NEW q \in Op, Carry(q)
  PROVE  FixInv'
<1>0. /\ op[q] \in Work /\ op[q] \in BusyWork /\ stored \in [Session -> Data \cup {Gone}]
      /\ Gone \notin Session
  BY GoneAssumption DEF TypeInv, TypeOK, BusyWork
<1>1. CASE Store(q)
  <2>1. PICK s \in Session, data \in Data : s = op[q].session /\ data = op[q].data
    BY <1>1, WriterEffect DEF Store, OpIs
  <2>2. Set(s, data, LoginData(data.groups)) /\ mapping' = mapping /\ faults' = faults
    BY <1>1, <2>1, WriterEffect DEF Store, platform
  <2>3. stored'[s] = data
    BY <1>0, <2>2, SetEffect DEF TypeInv, TypeOK
  <2>4. data = LoginData(data.groups) => ~Stale(s)'
    BY <2>2, <2>3 DEF Stale, Moved, LoginData, Resolve
  <2>5. \A t \in Session : Behind(t)' => Behind(t)
    BY <2>2, <2>4, WriteFalls
  <2>6. \A t \in Session : ~Fixes(op[q], t)
    BY <1>1 DEF Store, OpIs, Fixes
  <2>. QED
    BY <1>1, <2>2, <2>5, <2>6, CarryTakes, FixKept
<1>2. CASE Extend(q)
  <2>1. op[q].session \in Session /\ op[q].data \in Data
    BY <1>2, WriterEffect DEF Extend, OpIs
  <2>2. /\ Set(op[q].session, op[q].data, stored[op[q].session])
        /\ mapping' = mapping /\ faults' = faults
    BY <1>2, WriterEffect DEF Extend, platform
  <2>3. op[q].data = stored[op[q].session] => Live(op[q].session)
    BY <2>1, GoneAssumption DEF Live, Data
  <2>4. \A t \in Session : Behind(t)' => Behind(t)
    BY <2>1, <2>2, <2>3, WriteFalls
  <2>5. \A t \in Session : ~Fixes(op[q], t)
    BY <1>2 DEF Extend, OpIs, Fixes
  <2>6. Takes(q, Rest) \/ Takes(q, [op[q] EXCEPT !.at = "drop"])
    BY <1>2, CarryTakes
  <2>. QED
    BY <2>2, <2>4, <2>5, <2>6, FixKept
<1>3. CASE Drop(q)
  <2>1. \A t \in Session : Behind(t)' => Behind(t)
    BY <1>0, <1>3 DEF Drop, platform, Behind, Stale, Moved, Live
  <2>2. \A t \in Session : ~Fixes(op[q], t)
    BY <1>3 DEF Drop, OpIs, Fixes
  <2>. QED
    BY <1>3, <2>1, <2>2, CarryTakes, FixKept DEF Drop, platform
<1>4. CASE Write(q)
  <2> DEFINE w == [op[q] EXCEPT !.at = "rewrite", !.session = Gone, !.data = Gone]
  <2>0. PICK s \in Session, data \in Data : s = op[q].session /\ data = Rewritten(q)
    BY <1>4, WriteEffect
  <2>1. Set(s, data, Due(s)) /\ mapping' = mapping /\ faults' = faults
    BY <1>4, <2>0, WriteEffect DEF Write, platform
  <2>2. /\ stored'[s] = data
        /\ torn' = (IF data = Due(s) THEN torn ELSE torn \cup {s})
    BY <1>0, <2>1, SetEffect DEF TypeInv, TypeOK
  <2>3. data = Due(s) => ~Stale(s)'
    <3>1. SUFFICES ASSUME data = Due(s) PROVE ~Stale(s)'
      OBVIOUS
    <3>2. Live(s) /\ stored[s] \in Data
      BY <1>0, <2>1, <3>1, LiveType, GoneAssumption DEF Due, Data
    <3>3. /\ Due(s).groups = stored[s].groups
          /\ Due(s).areas = Resolve(stored[s].groups, mapping)
      BY <3>2, ReplacedType, ResolveType DEF Due
    <3>. QED
      BY <2>1, <2>2, <3>1, <3>3 DEF Stale, Moved, Resolve
  <2>4. \A t \in Session : Behind(t)' => Behind(t)
    BY <2>1, <2>3, WriteFalls
  <2>5. ~Behind(s)'
    BY <2>2, <2>3 DEF Behind, TypeInv, TypeOK
  <2>6. Takes(q, w) /\ w.at = "rewrite" /\ w.map = op[q].map /\ w.todo = op[q].todo
    BY <1>0, <1>4, CarryTakes DEF Work
  <2>. HIDE DEF w
  <2>7. \A t \in Session : t # s /\ Fixes(op[q], t) => Fixes(w, t)
    BY <1>4, <2>0, <2>6 DEF Write, OpIs, Fixes
  <2>. QED
    BY <2>1, <2>4, <2>5, <2>6, <2>7, FixKept
<1>5. ASSUME UNCHANGED <<platform, stored, faults, history>>
      PROVE  /\ mapping' = mapping /\ faults' = faults
             /\ \A s \in Session : Behind(s)' => Behind(s)
             /\ \A s \in Session : Behind(s)' => Live(s) /\ Moved(s, mapping)
  BY <1>5 DEF platform, history, Behind, Stale, Moved, Live
<1>6. CASE ReadMapping(q)
  <2> DEFINE w == [op[q] EXCEPT !.at = "scan", !.map = mapping]
  <2>1. Takes(q, w) /\ w.at = "scan" /\ w.map = mapping
    BY <1>0, <1>6, CarryTakes DEF Work
  <2>. HIDE DEF w
  <2>2. \A s \in Session : Fixes(w, s)
    BY <2>1 DEF Fixes
  <2>. QED
    BY <1>5, <1>6, <2>1, <2>2, FixKept DEF ReadMapping
<1>7. CASE Scan(q)
  <2> DEFINE w == [op[q] EXCEPT !.at = "rewrite", !.todo = {s \in Session : Moved(s, op[q].map)}]
  <2>1. /\ Takes(q, w) /\ w.at = "rewrite" /\ w.map = op[q].map
        /\ w.todo = {s \in Session : Moved(s, op[q].map)}
    BY <1>0, <1>7, CarryTakes DEF Work
  <2>. HIDE DEF w
  <2>2. \A s \in Session : Moved(s, mapping) /\ Fixes(op[q], s) => Fixes(w, s)
    BY <1>7, <2>1 DEF Scan, OpIs, Fixes
  <2>. QED
    BY <1>5, <1>7, <2>1, <2>2, FixKept DEF Scan
<1>8. ASSUME NEW s \in Session, Pick(q, s) PROVE FixInv'
  <2> DEFINE u == [op[q] EXCEPT !.at = "write", !.session = s, !.data = stored[s], !.todo = @ \ {s}]
             v == [op[q] EXCEPT !.todo = @ \ {s}]
  <2>1. /\ Takes(q, IF Live(s) THEN u ELSE v)
        /\ u.at = "write" /\ u.session = s /\ u.todo = op[q].todo \ {s} /\ u.map = op[q].map
        /\ v.at = op[q].at /\ v.todo = op[q].todo \ {s} /\ v.map = op[q].map
    BY <1>0, <1>8, CarryTakes DEF Work
  <2>. HIDE DEF u, v
  <2>2. op[q].at = "rewrite"
    BY <1>8 DEF Pick, OpIs
  <2>3. \A t \in Session : Fixes(op[q], t) => Fixes(u, t) /\ (t # s => Fixes(v, t))
    BY <2>1, <2>2 DEF Fixes
  <2>4. CASE Live(s)
    BY <1>5, <1>8, <2>1, <2>3, <2>4, FixKept DEF Pick
  <2>5. CASE ~Live(s)
    BY <1>5, <1>8, <2>1, <2>3, <2>5, FixKept DEF Pick
  <2>. QED
    BY <2>4, <2>5
<1>9. CASE EndSweep(q)
  <2>1. \A t \in Session : ~Fixes(op[q], t)
    BY <1>9 DEF EndSweep, OpIs, Fixes
  <2>. QED
    BY <1>5, <1>9, <2>1, CarryTakes, FixKept DEF EndSweep
<1>. QED
  BY <1>1, <1>2, <1>3, <1>4, <1>6, <1>7, <1>8, <1>9 DEF Carry

LEMMA FixStep == TypeInv /\ FixInv /\ [Next]_vars => FixInv'
<1>. SUFFICES ASSUME TypeInv, FixInv, [Next]_vars PROVE FixInv'
  OBVIOUS
<1>0. stored \in [Session -> Data \cup {Gone}] /\ faults \in Nat
  BY DEF TypeInv, TypeOK
<1>1. ASSUME NEW q \in Op, CutShort(q) PROVE FixInv'
  BY <1>0, <1>1 DEF CutShort, FixInv
<1>2. ASSUME NEW s \in Session, ExpireIdle(s) \/ GrowOld(s) PROVE FixInv'
  <2>1. op' = op /\ mapping' = mapping /\ faults' = faults /\ torn' = torn
    BY <1>2 DEF ExpireIdle, GrowOld, history, platform
  <2>2. \A t \in Session : Live(t)' => Live(t) /\ stored'[t] = stored[t]
    BY <1>0, <1>2 DEF ExpireIdle, GrowOld, Live
  <2>3. \A t \in Session : Behind(t)' => Behind(t)
    BY <2>1, <2>2 DEF Behind, Stale, Moved
  <2>. QED
    BY <2>1, <2>3 DEF FixInv, Fixes
<1>3. CASE UNCHANGED vars
  BY <1>3 DEF vars, history, platform, FixInv, Fixes, Behind, Stale, Moved, Live
<1>. QED
  BY <1>1, <1>2, <1>3, FixBegin, FixCarry DEF Next

LEMMA FixInit == Init => FixInv
  BY DEF Init, FixInv, Behind, Stale, Moved, Live

(* When all sweeps have ended and none was cut short, no session is behind *)
(* the mapping unless an overlapping operation wrote it (areaService.ts,   *)
(* authService.refreshAllSessionEntitlements).                             *)
THEOREM SweepsCatchUp == Spec => []StaleOnlyByOverlap
<1>1. FixInv => StaleOnlyByOverlap
  BY DEF FixInv, StaleOnlyByOverlap, Behind, Fixes, Sweeping
<1>. QED
  BY <1>1, FixInit, FixStep, TypeInvariant, PTL DEF Spec

=============================================================================
