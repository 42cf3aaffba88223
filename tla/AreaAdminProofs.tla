---------------------------- MODULE AreaAdminProofs ----------------------------
(***************************************************************************)
(* What AreaAdmin promises, for any number of screens, areas, groups,      *)
(* paths, changes and failures.                                            *)
(***************************************************************************)
EXTENDS AreaAdmin, TLAPS

-----------------------------------------------------------------------------
\* The invariants

(* A request under way has what its kind needs; only one that creates an   *)
(* area has no area yet, until it has created it.  A panel is one of the list's.        *)
Shaped(r) ==
  r.at \notin {"idle", "refused"} =>
    /\ r.kind \in Kind
    /\ r.area \in Area \/ (r.kind = "create" /\ r.at \in {"find", "change"})
    /\ r.kind \in {"create", "update"} => r.name \in Name /\ r.category \in Category
    /\ r.kind \in {"link", "unlink"} => r.item \in Item
    /\ r.at = "look" => r.kind = "link"
Open(f, views) == f.area # None => views[f.area].area # None
TypeInv == TypeOK /\ \A c \in Console : Shaped(request[c]) /\ Open(form[c], list[c])

(* Whatever anybody has seen of an area is something it had been, and      *)
(* so is what is written to it, unless somebody typed it.                  *)
Known(a, view) ==
  /\ view.version <= version[a]
  /\ view.area # None => view.area.name \in had[a].name /\ view.area.category \in had[a].category
Meant(x) ==
  /\ "name" \in x.typed \/ x.name \in had[x.area].name
  /\ "category" \in x.typed \/ x.category \in had[x.area].category
SeenInv ==
  /\ \A a \in Area : Known(a, Snapshot(a))
  /\ \A c \in Console :
       /\ \A a \in Area : Known(a, list[c][a]) /\ Known(a, fetch[c].views[a])
       /\ request[c].view = Unseen \/ (Is(c, "done") /\ Known(request[c].area, request[c].view))
       /\ form[c].area # None => Meant(form[c])
       /\ request[c].kind = "update" /\ ~Is(c, "idle") /\ ~Is(c, "refused") => Meant(request[c])

(* A list that was asked for after a screen's last change is as new as it; *)
(* a first load that was joined is, where it was read after the change.    *)
OwnInv ==
  \A c \in Console : \A a \in Area :
    /\ own[c][a] <= version[a]
    /\ request[c].area = a => request[c].version <= version[a]
    /\ fetch[c].is = "read" /\ <<c, a>> \notin joined => fetch[c].views[a].version >= own[c][a]
    /\ fetch[c].is = "none" /\ c \notin unsure /\ <<c, a>> \notin joined =>
         list[c][a].version >= own[c][a]

(* While nobody crossed, one change of an area at most waits to be         *)
(* recorded, and the trail with it is the mapping; whoever else waits      *)
(* found what they asked for.                                              *)
Now(a) == IF Exists(a)
          THEN [name |-> areas[a].name, category |-> areas[a].category,
                items |-> {i \in Item : Linked(a, i)}]
          ELSE None
Recording(a) == {c \in Console : Is(c, "record") /\ request[c].area = a}
Found(c)     == request[c].kind = "link" /\ Linked(request[c].area, request[c].item)
TrailInv ==
  \A a \in Area \ crossed :
    \/ told[a] = Now(a) /\ \A c \in Recording(a) : Found(c)
    \/ \E c \in Recording(a) :
         /\ Replayed(request[c]) = Now(a)
         /\ \A d \in Recording(a) \ {c} : Found(d)

-----------------------------------------------------------------------------
\* Types

LEMMA ReqMoves ==
  ASSUME NEW r \in Req, NEW where \in Asking
  PROVE  /\ [r EXCEPT !.at = where] \in Req
         /\ \A a \in Area, n \in Nat :
              [r EXCEPT !.at = where, !.area = a, !.version = n] \in Req
         /\ \A n \in Nat : [r EXCEPT !.at = where, !.version = n] \in Req
         /\ \A v \in View : [r EXCEPT !.at = where, !.view = v] \in Req
BY DEF Req

LEMMA IdleTyped == /\ Unseen \in View /\ Blank \in Lists /\ Idle \in Req
<1>1. Unseen \in View BY DEF Unseen, View
<1>2. Blank \in Lists BY <1>1 DEF Blank, Lists
<1>3. Idle \in Req BY <1>1 DEF Idle, Req, Asking, Field
<1> QED BY <1>1, <1>2, <1>3

Fresh(r, kind, a) == /\ r \in Req /\ r.at = "find" /\ r.kind = kind /\ r.area = a
                     /\ r.version = 0 /\ r.view = Unseen

LEMMA AskedTyped ==
  ASSUME NEW kind \in Kind, NEW a \in Area \cup {None}
  PROVE  Fresh(Asked(kind, a), kind, a)
<1>1. Asked(kind, a) = [Idle EXCEPT !.at = "find", !.kind = kind, !.area = a] BY DEF Asked
<1>2. Asked(kind, a) \in Req BY <1>1, IdleTyped DEF Req, Asking
<1> QED BY <1>1, <1>2, IdleTyped DEF Idle, Req, Fresh

LEMMA SnapshotTyped == ASSUME TypeOK, NEW a \in Area PROVE Snapshot(a) \in View
BY DEF TypeOK, Snapshot, View

(* A request that moves on leaves the others where they are.               *)
LEMMA Becomes ==
  ASSUME TypeInv, NEW c \in Console, NEW r \in Req, Shaped(r), Become(c, r)
  PROVE  /\ request' \in [Console -> Req]
         /\ \A d \in Console : Shaped(request'[d])
         /\ request'[c] = r /\ \A d \in Console \ {c} : request'[d] = request[d]
BY DEF TypeInv, TypeOK, Become

LEMMA Goes ==
  ASSUME TypeInv, NEW c \in Console, NEW where \in Asking, Go(c, where),
         Shaped([request[c] EXCEPT !.at = where])
  PROVE  /\ request' \in [Console -> Req]
         /\ \A d \in Console : Shaped(request'[d])
         /\ request'[c] = [request[c] EXCEPT !.at = where]
         /\ \A d \in Console \ {c} : request'[d] = request[d]
<1>1. request[c] \in Req BY DEF TypeInv, TypeOK
<1>2. [request[c] EXCEPT !.at = where] \in Req BY <1>1, ReqMoves
<1> QED BY <1>2, Becomes DEF Go

(* What a statement that changes an area does.                             *)
Committed(c, a, rec) ==
  /\ areas' \in [Area -> Rec \cup {None}] /\ version' \in [Area -> Nat]
  /\ had' \in [Area -> [name : SUBSET Name, category : SUBSET Category]]
  /\ crossed' \in SUBSET Area
  /\ request' \in [Console -> Req] /\ \A d \in Console : Shaped(request'[d])
  /\ areas'[a] = rec /\ version'[a] = version[a] + 1
  /\ \A b \in Area \ {a} : areas'[b] = areas[b] /\ version'[b] = version[b] /\ had'[b] = had[b]
  /\ had[a].name \subseteq had'[a].name /\ had[a].category \subseteq had'[a].category
  /\ rec # None => rec.name \in had'[a].name /\ rec.category \in had'[a].category
  /\ request'[c] = [request[c] EXCEPT !.at = "record", !.area = a, !.version = version[a] + 1]
  /\ \A d \in Console \ {c} : request'[d] = request[d]
  /\ crossed \subseteq crossed' /\ crossed' \subseteq crossed \cup {a}
  /\ a \notin crossed' =>
       \A d \in Console \ {c} : ~(request[d].at = "record" /\ request[d].area = a)

LEMMA Commits ==
  ASSUME TypeInv, NEW c \in Console, NEW a \in Area, NEW rec \in Rec \cup {None},
         Is(c, "change"), Commit(c, a, rec)
  PROVE  Committed(c, a, rec)
<1>1. /\ areas \in [Area -> Rec \cup {None}] /\ version \in [Area -> Nat]
      /\ had \in [Area -> [name : SUBSET Name, category : SUBSET Category]]
      /\ crossed \in SUBSET Area /\ request[c] \in Req /\ Shaped(request[c])
  BY DEF TypeInv, TypeOK
<1>2. /\ areas' \in [Area -> Rec \cup {None}] /\ areas'[a] = rec
      /\ \A b \in Area \ {a} : areas'[b] = areas[b]
  BY <1>1 DEF Commit
<1>3. /\ version' \in [Area -> Nat] /\ version'[a] = version[a] + 1
      /\ \A b \in Area \ {a} : version'[b] = version[b]
  BY <1>1 DEF Commit
<1>4. /\ had' \in [Area -> [name : SUBSET Name, category : SUBSET Category]]
      /\ \A b \in Area \ {a} : had'[b] = had[b]
      /\ had[a].name \subseteq had'[a].name /\ had[a].category \subseteq had'[a].category
      /\ rec # None => rec.name \in had'[a].name /\ rec.category \in had'[a].category
  <2>1. CASE rec = None BY <1>1, <2>1 DEF Commit
  <2>2. CASE rec # None
    <3>1. rec.name \in Name /\ rec.category \in Category BY <2>2 DEF Rec
    <3>2. had' = [had EXCEPT ![a] = [name |-> had[a].name \cup {rec.name},
                                     category |-> had[a].category \cup {rec.category}]]
      BY <1>1, <2>2 DEF Commit
    <3> QED BY <1>1, <3>1, <3>2
  <2> QED BY <2>1, <2>2
<1>5. DEFINE r == [request[c] EXCEPT !.at = "record", !.area = a, !.version = version[a] + 1]
<1>6. r \in Req /\ Shaped(r) /\ Become(c, r)
  <2>1. version[a] + 1 \in Nat BY <1>1
  <2>2. r \in Req BY <1>1, <2>1 DEF Req, Asking
  <2>3. Shaped(r) BY <1>1 DEF Shaped, Is, Req
  <2>4. Become(c, r) BY DEF Commit
  <2> QED BY <2>2, <2>3, <2>4
<1>7. /\ request' \in [Console -> Req] /\ \A d \in Console : Shaped(request'[d])
      /\ request'[c] = r /\ \A d \in Console \ {c} : request'[d] = request[d]
  BY <1>6, Becomes
<1>8. /\ crossed' \in SUBSET Area /\ crossed \subseteq crossed' /\ crossed' \subseteq crossed \cup {a}
      /\ a \notin crossed' =>
           \A d \in Console \ {c} : ~(request[d].at = "record" /\ request[d].area = a)
  BY <1>1 DEF Commit, Is
<1> QED BY <1>2, <1>3, <1>4, <1>7, <1>8 DEF Committed

(* A change is refused, or it is one of five statements.                   *)
Stays == UNCHANGED <<table, crossed>>
Changed(c, a, rec) ==
  LET r == request[c] IN
  \/ /\ r.kind = "create" /\ serial' = serial
     /\ rec = [name |-> r.name, category |-> r.category, link |-> [i \in Item |-> 0]]
  \/ /\ r.kind = "update" /\ serial' = serial /\ a = r.area /\ Exists(a)
     /\ rec = [areas[a] EXCEPT !.name = r.name, !.category = r.category]
  \/ r.kind = "delete" /\ serial' = serial /\ a = r.area /\ Exists(a) /\ rec = None
  \/ /\ r.kind = "link" /\ a = r.area /\ Exists(a) /\ r.item \in Item
     /\ serial' = [serial EXCEPT ![a][r.item] = @ + 1]
     /\ rec = [areas[a] EXCEPT !.link[r.item] = serial[a][r.item] + 1]
  \/ /\ r.kind = "unlink" /\ serial' = serial /\ a = r.area /\ Exists(a) /\ r.item \in Item
     /\ rec = [areas[a] EXCEPT !.link[r.item] = 0]

LEMMA Changes ==
  ASSUME TypeInv, NEW c \in Console, Change(c)
  PROVE  /\ Is(c, "change") /\ Statement
         /\ \/ Refused(c) /\ Stays
            \/ \E a \in Area, rec \in Rec \cup {None} : Commit(c, a, rec) /\ Changed(c, a, rec)
<1>1. /\ areas \in [Area -> Rec \cup {None}] /\ serial \in [Area -> [Item -> Nat]]
      /\ request[c] \in Req /\ Shaped(request[c])
  BY DEF TypeInv, TypeOK
<1>2. ASSUME CreateArea(c) PROVE \/ Refused(c) /\ Stays
                                 \/ \E a \in Area, rec \in Rec \cup {None} :
                                      Commit(c, a, rec) /\ Changed(c, a, rec)
  <2>1. DEFINE rec == [name |-> request[c].name, category |-> request[c].category,
                       link |-> [i \in Item |-> 0]]
  <2>2. request[c].name \in Name /\ request[c].category \in Category
    BY <1>1, <1>2 DEF CreateArea, Shaped, Is
  <2>3. rec \in Rec BY <2>2 DEF Rec
  <2>4. request[c].kind = "create" BY <1>2 DEF CreateArea
  <2>5. CASE Taken(request[c].name, None) BY <1>2, <2>5 DEF CreateArea, Stays
  <2>6. CASE ~Taken(request[c].name, None)
    <3>1. PICK a \in Area : Commit(c, a, rec) BY <1>2, <2>6 DEF CreateArea
    <3>2. serial' = serial BY <1>2, <2>6 DEF CreateArea
    <3> QED BY <2>3, <2>4, <3>1, <3>2 DEF Changed
  <2> QED BY <2>5, <2>6
<1>3. ASSUME UpdateArea(c) PROVE \/ Refused(c) /\ Stays
                                 \/ \E a \in Area, rec \in Rec \cup {None} :
                                      Commit(c, a, rec) /\ Changed(c, a, rec)
  <2>1. DEFINE a == request[c].area
               rec == [areas[a] EXCEPT !.name = request[c].name, !.category = request[c].category]
  <2>2. request[c].name \in Name /\ request[c].category \in Category /\ a \in Area
        /\ request[c].kind = "update"
    BY <1>1, <1>3 DEF UpdateArea, Shaped, Is
  <2>3. CASE Exists(a) /\ ~Taken(request[c].name, a)
    <3>1. areas[a] \in Rec BY <1>1, <2>2, <2>3 DEF Exists
    <3>2. rec \in Rec BY <2>2, <3>1 DEF Rec
    <3>3. Commit(c, a, rec) /\ serial' = serial BY <1>3, <2>3 DEF UpdateArea
    <3> QED BY <2>2, <2>3, <3>2, <3>3 DEF Changed
  <2>4. CASE ~(Exists(a) /\ ~Taken(request[c].name, a)) BY <1>3, <2>4 DEF UpdateArea, Stays
  <2> QED BY <2>3, <2>4
<1>4. ASSUME DeleteArea(c) PROVE \/ Refused(c) /\ Stays
                                 \/ \E a \in Area, rec \in Rec \cup {None} :
                                      Commit(c, a, rec) /\ Changed(c, a, rec)
  <2>1. request[c].area \in Area /\ request[c].kind = "delete"
    BY <1>1, <1>4 DEF DeleteArea, Shaped, Is
  <2> QED BY <1>4, <2>1 DEF DeleteArea, Stays, Changed
<1>5. ASSUME Link(c) PROVE \/ Refused(c) /\ Stays
                           \/ \E a \in Area, rec \in Rec \cup {None} :
                                Commit(c, a, rec) /\ Changed(c, a, rec)
  <2>1. DEFINE a == request[c].area
               i == request[c].item
               rec == [areas[a] EXCEPT !.link[i] = serial[a][i] + 1]
  <2>2. a \in Area /\ i \in Item /\ request[c].kind = "link"
    BY <1>1, <1>5 DEF Link, Shaped, Is
  <2>3. CASE Exists(a) /\ ~Linked(a, i)
    <3>1. areas[a] \in Rec BY <1>1, <2>2, <2>3 DEF Exists
    <3>2. serial[a][i] + 1 \in Nat BY <1>1, <2>2
    <3>3. rec \in Rec BY <2>2, <3>1, <3>2 DEF Rec
    <3>4. Commit(c, a, rec) /\ serial' = [serial EXCEPT ![a][i] = @ + 1]
      BY <1>5, <2>3 DEF Link
    <3> QED BY <2>2, <2>3, <3>3, <3>4 DEF Changed
  <2>4. CASE ~(Exists(a) /\ ~Linked(a, i)) BY <1>5, <2>4 DEF Link, Stays
  <2> QED BY <2>3, <2>4
<1>6. ASSUME Unlink(c) PROVE \/ Refused(c) /\ Stays
                             \/ \E a \in Area, rec \in Rec \cup {None} :
                                  Commit(c, a, rec) /\ Changed(c, a, rec)
  <2>1. DEFINE a == request[c].area
               i == request[c].item
               rec == [areas[a] EXCEPT !.link[i] = 0]
  <2>2. a \in Area /\ i \in Item /\ request[c].kind = "unlink"
    BY <1>1, <1>6 DEF Unlink, Shaped, Is
  <2>3. CASE Exists(a) /\ areas[a].link[i] = request[c].id /\ ~InUse(a, i)
    <3>1. areas[a] \in Rec BY <1>1, <2>2, <2>3 DEF Exists
    <3>2. rec \in Rec BY <2>2, <3>1 DEF Rec
    <3>3. Commit(c, a, rec) /\ serial' = serial BY <1>6, <2>3 DEF Unlink
    <3> QED BY <2>2, <2>3, <3>2, <3>3 DEF Changed
  <2>4. CASE ~(Exists(a) /\ areas[a].link[i] = request[c].id /\ ~InUse(a, i))
    BY <1>6, <2>4 DEF Unlink, Stays
  <2> QED BY <2>3, <2>4
<1>7. Is(c, "change") /\ Statement
  BY DEF Change, CreateArea, UpdateArea, DeleteArea, Link, Unlink
<1> QED BY <1>2, <1>3, <1>4, <1>5, <1>6, <1>7 DEF Change

LEMMA MountedTyped ==
  ASSUME NEW old \in Form \cup {NoForm}, NEW a \in Area \cup {None}, NEW views \in Lists
  PROVE  /\ Mounted(old, a, views) \in Form \cup {NoForm}
         /\ Open(Mounted(old, a, views), views)
         /\ \/ Mounted(old, a, views) = NoForm
            \/ Mounted(old, a, views) = old
            \/ /\ a \in Area /\ views[a].area # None
               /\ Mounted(old, a, views) = [area |-> a, name |-> views[a].area.name,
                                            category |-> views[a].area.category, typed |-> {}]
<1>1. CASE a = None BY <1>1 DEF Mounted, Open, NoForm
<1>2. CASE a # None /\ views[a].area = None BY <1>2 DEF Mounted, Open, NoForm
<1>3. CASE a # None /\ views[a].area # None
  <2>1. a \in Area /\ views[a] \in View BY <1>3 DEF Lists
  <2>2. views[a].area \in Rec BY <1>3, <2>1 DEF View
  <2>3. [area |-> a, name |-> views[a].area.name,
         category |-> views[a].area.category, typed |-> {}] \in Form
    BY <2>1, <2>2 DEF Rec, Form
  <2> QED BY <1>3, <2>1, <2>3 DEF Mounted, Open
<1> QED BY <1>1, <1>2, <1>3

LEMMA Displays ==
  ASSUME TypeInv, NEW c \in Console, NEW views \in Lists, NEW a \in Area \cup {None},
         Display(c, views, a)
  PROVE  /\ list' \in [Console -> Lists] /\ selected' \in [Console -> Area \cup {None}]
         /\ form' \in [Console -> Form \cup {NoForm}]
         /\ \A d \in Console : Open(form'[d], list'[d])
         /\ list'[c] = views /\ form'[c] = Mounted(form[c], a, views)
         /\ \A d \in Console \ {c} : list'[d] = list[d] /\ form'[d] = form[d]
<1>1. /\ list \in [Console -> Lists] /\ selected \in [Console -> Area \cup {None}]
      /\ form \in [Console -> Form \cup {NoForm}]
  BY DEF TypeInv, TypeOK
<1>2. /\ Mounted(form[c], a, views) \in Form \cup {NoForm}
      /\ Open(Mounted(form[c], a, views), views)
  BY <1>1, MountedTyped
<1>3. \A d \in Console : Open(form[d], list[d]) BY DEF TypeInv
<1> QED BY <1>1, <1>2, <1>3 DEF Display

LEMMA FormTyped ==
  ASSUME TypeInv, NEW c \in Console, form[c].area # None
  PROVE  form[c] \in Form /\ form[c].area \in Area
BY DEF TypeInv, TypeOK, NoForm, Form

LEMMA ListedTyped ==
  ASSUME TypeInv, NEW c \in Console, NEW i \in Item, form[c].area # None
  PROVE  list[c][form[c].area].area.link[i] \in Nat
<1>1. form[c].area \in Area BY FormTyped
<1>2. list[c][form[c].area] \in View /\ list[c][form[c].area].area # None
  BY <1>1 DEF TypeInv, TypeOK, Lists, Open
<1>3. list[c][form[c].area].area \in Rec BY <1>2 DEF View
<1> QED BY <1>3 DEF Rec

(* The click: what it asks for is a well-formed request of its screen.     *)
LEMMA Clicks ==
  ASSUME TypeInv, NEW c \in Console, Press(c)
  PROVE  \E r \in Req :
           /\ Is(c, "idle") /\ Become(c, r) /\ Shaped(r) /\ r.at = "find"
           /\ r.version = 0 /\ r.view = Unseen
           /\ r.kind = "update" => form[c].area # None /\ r.area = form[c].area
                /\ r.name = form[c].name /\ r.category = form[c].category
                /\ r.typed = form[c].typed
           /\ UNCHANGED <<table, ran, told, fetch, loaded, own, unsure, joined, crossed>>
           /\ events < MaxEvents /\ events' = events + 1
           /\ \/ Display(c, list[c], None)
              \/ UNCHANGED <<list, selected, form>>
<1>1. CASE PressCreate(c)
  <2>1. PICK n \in Name, t \in Category :
          Click(c, [Asked("create", None) EXCEPT !.name = n, !.category = t])
    BY <1>1 DEF PressCreate
  <2>2. DEFINE r == [Asked("create", None) EXCEPT !.name = n, !.category = t]
  <2>3. /\ r \in Req /\ r.at = "find" /\ r.kind = "create" /\ r.name = n /\ r.category = t
        /\ r.version = 0 /\ r.view = Unseen
    <3>1. "create" \in Kind /\ None \in Area \cup {None} BY DEF Kind
    <3>2. Fresh(Asked("create", None), "create", None) BY <3>1, AskedTyped
    <3>3. r \in Req BY <3>2 DEF Fresh, Req
    <3> QED BY <3>2, <3>3 DEF Fresh, Req
  <2>4. Shaped(r) BY <2>3 DEF Shaped, Kind
  <2>5. Display(c, list[c], None) BY <1>1 DEF PressCreate
  <2> HIDE DEF r
  <2>6. Click(c, r) BY <2>1 DEF r
  <2> QED BY <2>3, <2>4, <2>5, <2>6 DEF Click, Event
<1>2. CASE PressSave(c)
  <2>1. DEFINE f == form[c]
               r == [Asked("update", f.area) EXCEPT !.name = f.name, !.category = f.category,
                                                    !.typed = f.typed]
  <2>2. f.area # None /\ Click(c, r) BY <1>2 DEF PressSave, Dirty
  <2>3. f \in Form /\ f.area \in Area BY <2>2, FormTyped
  <2>4. f.name \in Name /\ f.category \in Category /\ f.typed \in SUBSET Field
    BY <2>3 DEF Form
  <2>5. /\ r \in Req /\ r.at = "find" /\ r.kind = "update" /\ r.area = f.area
        /\ r.name = f.name /\ r.category = f.category /\ r.typed = f.typed
        /\ r.version = 0 /\ r.view = Unseen
    <3>1. "update" \in Kind /\ f.area \in Area \cup {None} BY <2>3, <2>4 DEF Kind
    <3>2. Fresh(Asked("update", f.area), "update", f.area) BY <3>1, AskedTyped
    <3>3. r \in Req BY <2>3, <2>4, <3>2 DEF Fresh, Req
    <3> QED BY <2>3, <2>4, <3>2, <3>3 DEF Fresh, Req
  <2>6. Shaped(r) BY <2>3, <2>4, <2>5 DEF Shaped, Kind
  <2>7. UNCHANGED <<list, selected, form>> BY <1>2 DEF PressSave
  <2> HIDE DEF r
  <2> QED BY <2>2, <2>5, <2>6, <2>7 DEF Click, Event
<1>3. CASE PressDelete(c)
  <2>1. DEFINE r == Asked("delete", form[c].area)
  <2>2. form[c].area \in Area BY <1>3, FormTyped DEF PressDelete
  <2>3. /\ r \in Req /\ r.at = "find" /\ r.kind = "delete" /\ r.area = form[c].area
        /\ r.version = 0 /\ r.view = Unseen
    <3>1. "delete" \in Kind BY DEF Kind
    <3>2. Fresh(r, "delete", form[c].area) BY <2>2, <3>1, AskedTyped
    <3> QED BY <3>2 DEF Fresh
  <2>4. Shaped(r) BY <2>2, <2>3 DEF Shaped, Kind
  <2>5. Click(c, r) /\ UNCHANGED <<list, selected, form>> BY <1>3 DEF PressDelete
  <2> HIDE DEF r
  <2> QED BY <2>3, <2>4, <2>5 DEF Click, Event
<1>4. CASE PressLink(c)
  <2>1. PICK i \in Item : Click(c, [Asked("link", form[c].area) EXCEPT !.item = i])
    BY <1>4 DEF PressLink
  <2>2. DEFINE r == [Asked("link", form[c].area) EXCEPT !.item = i]
  <2>3. form[c].area \in Area BY <1>4, FormTyped DEF PressLink
  <2>4. /\ r \in Req /\ r.at = "find" /\ r.kind = "link" /\ r.area = form[c].area
        /\ r.item = i /\ r.version = 0 /\ r.view = Unseen
    <3>1. "link" \in Kind /\ form[c].area \in Area \cup {None} BY <2>3 DEF Kind
    <3>2. Fresh(Asked("link", form[c].area), "link", form[c].area) BY <3>1, AskedTyped
    <3>3. r \in Req BY <2>3, <3>2 DEF Fresh, Req
    <3> QED BY <2>3, <3>2, <3>3 DEF Fresh, Req
  <2>5. Shaped(r) BY <2>3, <2>4 DEF Shaped, Kind
  <2>6. UNCHANGED <<list, selected, form>> BY <1>4 DEF PressLink
  <2> HIDE DEF r
  <2>7. Click(c, r) BY <2>1 DEF r
  <2> QED BY <2>4, <2>5, <2>6, <2>7 DEF Click, Event
<1>5. CASE PressUnlink(c)
  <2>1. DEFINE a == form[c].area
  <2>2. a \in Area BY <1>5, FormTyped DEF PressUnlink
  <2>3. PICK i \in Item : /\ list[c][a].area.link[i] # 0
                          /\ Click(c, [Asked("unlink", a) EXCEPT
                                         !.item = i, !.id = list[c][a].area.link[i]])
    BY <1>5 DEF PressUnlink
  <2>4. list[c][a].area.link[i] \in Nat
    BY <1>5, ListedTyped DEF PressUnlink
  <2>5. DEFINE r == [Asked("unlink", a) EXCEPT !.item = i, !.id = list[c][a].area.link[i]]
  <2>6. /\ r \in Req /\ r.at = "find" /\ r.kind = "unlink" /\ r.area = a
        /\ r.item = i /\ r.version = 0 /\ r.view = Unseen
    <3>1. "unlink" \in Kind /\ a \in Area \cup {None} BY <2>2, <2>4 DEF Kind
    <3>2. Fresh(Asked("unlink", a), "unlink", a) BY <3>1, AskedTyped
    <3>3. r \in Req BY <2>2, <2>4, <3>2 DEF Fresh, Req
    <3> QED BY <2>2, <2>4, <3>2, <3>3 DEF Fresh, Req
  <2>7. Shaped(r) BY <2>2, <2>6 DEF Shaped, Kind
  <2>8. UNCHANGED <<list, selected, form>> BY <1>5 DEF PressUnlink
  <2> HIDE DEF r
  <2>9. Click(c, r) BY <2>3 DEF r
  <2> QED BY <2>6, <2>7, <2>8, <2>9 DEF Click, Event
<1> QED BY <1>1, <1>2, <1>3, <1>4, <1>5 DEF Press

LEMMA TypeInit == Init => TypeInv
<1> SUFFICES ASSUME Init PROVE TypeInv OBVIOUS
<1>1. areas \in [Area -> Rec \cup {None}] BY InitialAssumption DEF Init
<1>2. serial \in [Area -> [Item -> Nat]] BY DEF Init
<1>3. told \in [Area -> Entry \cup {None}]
  <2>1. \A a \in Area : Exists(a) => areas[a].name \in Name /\ areas[a].category \in Category
    BY <1>1 DEF Exists, Rec
  <2>2. \A a \in Area : Exists(a) =>
          [name |-> areas[a].name, category |-> areas[a].category,
           items |-> {i \in Item : Linked(a, i)}] \in Entry
    BY <2>1 DEF Entry
  <2> QED BY <2>2 DEF Init
<1>4. request \in [Console -> Req] /\ \A c \in Console : request[c].at = "idle"
  BY IdleTyped DEF Init, Idle
<1>5. list \in [Console -> Lists] BY IdleTyped DEF Init
<1>6. fetch \in [Console -> Fetch] BY IdleTyped DEF Init, Fetch
<1>7. /\ form \in [Console -> Form \cup {NoForm}] /\ \A c \in Console : form[c].area = None
  BY DEF Init, NoForm
<1>8. had \in [Area -> [name : SUBSET Name, category : SUBSET Category]]
  <2>1. \A a \in Area : Exists(a) => areas[a].name \in Name /\ areas[a].category \in Category
    BY <1>1 DEF Exists, Rec
  <2> QED BY <2>1 DEF Init
<1>9. \A c \in Console : Shaped(request[c]) /\ Open(form[c], list[c])
  BY <1>4, <1>7 DEF Shaped, Open
<1>10. version \in [Area -> Nat] /\ own \in [Console -> [Area -> Nat]] BY DEF Init
<1>11. events \in 0..MaxEvents /\ selected \in [Console -> Area \cup {None}]
  BY BoundAssumption DEF Init
<1> QED BY <1>1, <1>2, <1>3, <1>4, <1>5, <1>6, <1>7, <1>8, <1>9, <1>10, <1>11
        DEF Init, TypeInv, TypeOK

(* The parts of the invariant.                                             *)
TablesTyped ==
  /\ areas \in [Area -> Rec \cup {None}] /\ serial \in [Area -> [Item -> Nat]]
  /\ version \in [Area -> Nat]
  /\ had \in [Area -> [name : SUBSET Name, category : SUBSET Category]]
  /\ crossed \in SUBSET Area
RequestsTyped == request \in [Console -> Req] /\ \A c \in Console : Shaped(request[c])
PanelTyped ==
  /\ list \in [Console -> Lists] /\ selected \in [Console -> Area \cup {None}]
  /\ form \in [Console -> Form \cup {NoForm}]
  /\ \A c \in Console : Open(form[c], list[c])
FetchTyped == /\ fetch \in [Console -> Fetch] /\ unsure \in SUBSET Console
              /\ loaded \in SUBSET Console /\ joined \in SUBSET (Console \X Area)
RestTyped  == /\ ran \in SUBSET (Area \X Path) /\ told \in [Area -> Entry \cup {None}]
              /\ own \in [Console -> [Area -> Nat]] /\ events \in 0..MaxEvents

Typed == TablesTyped /\ RequestsTyped /\ PanelTyped /\ FetchTyped /\ RestTyped

LEMMA TypeParts == TypeInv <=> Typed
BY DEF Typed, TypeInv, TypeOK, TablesTyped, RequestsTyped, PanelTyped, FetchTyped, RestTyped

LEMMA ReplayedTyped ==
  ASSUME TypeInv, NEW c \in Console, Is(c, "record")
  PROVE  Replayed(request[c]) \in Entry \cup {None} /\ request[c].area \in Area
<1>1. request[c] \in Req /\ Shaped(request[c]) BY DEF TypeInv, TypeOK
<1>2. /\ request[c].kind \in Kind /\ request[c].area \in Area
      /\ request[c].kind \in {"create", "update"} =>
           request[c].name \in Name /\ request[c].category \in Category
      /\ request[c].kind \in {"link", "unlink"} => request[c].item \in Item
  BY <1>1 DEF Shaped, Is
<1>3. told[request[c].area] # None => told[request[c].area] \in Entry
  BY <1>2 DEF TypeInv, TypeOK
<1>4. CASE request[c].kind \in {"create", "delete"} BY <1>2, <1>4 DEF Replayed, Entry
<1>5. CASE request[c].kind \notin {"create", "delete"} /\ told[request[c].area] = None
  BY <1>5, <1>2 DEF Replayed
<1>6. CASE request[c].kind \notin {"create", "delete"} /\ told[request[c].area] # None
  <2>1. Amended(told[request[c].area], request[c]) \in Entry
    BY <1>2, <1>3, <1>6 DEF Amended, Entry, Kind
  <2> QED BY <1>2, <1>6, <2>1 DEF Replayed
<1> QED BY <1>2, <1>4, <1>5, <1>6

LEMMA TypeStep == TypeInv /\ [Next]_vars => TypeInv'
<1> SUFFICES ASSUME TypeInv, [Next]_vars PROVE Typed'
  BY DEF Typed, TypeInv, TypeOK, TablesTyped, RequestsTyped, PanelTyped, FetchTyped, RestTyped
<1> USE TypeParts DEF Typed
<1>1. ASSUME NEW c \in Console, Find(c) PROVE Typed'
  <2>1. request[c] \in Req /\ Shaped(request[c]) /\ Is(c, "find") BY <1>1 DEF Find, RequestsTyped
  <2>2. PICK where \in {"look", "change", "refused"} :
          Go(c, where) /\ (where = "look" => request[c].kind = "link")
    BY <1>1 DEF Find, Refused
  <2>3. Shaped([request[c] EXCEPT !.at = where]) BY <2>1, <2>2 DEF Shaped, Is, Req
  <2>4. RequestsTyped' BY <2>2, <2>3, Goes DEF Asking, RequestsTyped
  <2> QED BY <1>1, <2>4 DEF Find, Unchanged, table, page, TablesTyped, PanelTyped, FetchTyped, RestTyped
<1>2. ASSUME NEW c \in Console, LookUp(c) PROVE Typed'
  <2>1. /\ request[c] \in Req /\ Shaped(request[c]) /\ Is(c, "look")
        /\ request[c].area \in Area /\ version[request[c].area] \in Nat
    BY <1>2 DEF LookUp, RequestsTyped, TablesTyped, Shaped, Is
  <2>2. CASE Become(c, [request[c] EXCEPT !.at = "record", !.version = version[request[c].area]])
    <3>1. DEFINE r == [request[c] EXCEPT !.at = "record", !.version = version[request[c].area]]
    <3>2. r \in Req /\ Shaped(r) BY <2>1 DEF Req, Shaped, Is, Asking
    <3> QED BY <1>2, <2>2, <3>2, Becomes DEF LookUp, Unchanged, table, page, TablesTyped,
            PanelTyped, FetchTyped, RestTyped, RequestsTyped
  <2>3. CASE Go(c, "change")
    <3>1. Shaped([request[c] EXCEPT !.at = "change"]) BY <2>1 DEF Req, Shaped, Is
    <3> QED BY <1>2, <2>3, <3>1, Goes DEF Asking, LookUp, Unchanged, table, page, TablesTyped,
            PanelTyped, FetchTyped, RestTyped, RequestsTyped
  <2> QED BY <1>2, <2>2, <2>3 DEF LookUp
<1>3. ASSUME NEW c \in Console, Change(c) PROVE Typed'
  <2>1. /\ Is(c, "change") /\ UNCHANGED <<ran, told, page, events>>
        /\ \/ Go(c, "refused") /\ Stays
           \/ \E a \in Area, rec \in Rec \cup {None} : Commit(c, a, rec) /\ Changed(c, a, rec)
    BY <1>3, Changes DEF Statement, Refused
  <2>2. PanelTyped' /\ FetchTyped' /\ RestTyped'
    BY <2>1 DEF page, PanelTyped, FetchTyped, RestTyped
  <2>3. CASE Go(c, "refused") /\ Stays
    <3>1. Shaped([request[c] EXCEPT !.at = "refused"]) BY DEF RequestsTyped, Shaped, Req
    <3> QED BY <2>2, <2>3, <3>1, Goes DEF Asking, Stays, table, TablesTyped, RequestsTyped
  <2>4. ASSUME NEW a \in Area, NEW rec \in Rec \cup {None}, Commit(c, a, rec), Changed(c, a, rec)
        PROVE  Typed'
    <3>1. Committed(c, a, rec) BY <2>1, <2>4, Commits
    <3>2. serial' \in [Area -> [Item -> Nat]]
      <4>1. serial \in [Area -> [Item -> Nat]] BY DEF TablesTyped
      <4>2. CASE serial' = serial BY <4>1, <4>2
      <4>3. CASE request[c].item \in Item /\ serial' = [serial EXCEPT ![a][request[c].item] = @ + 1]
        BY <4>1, <4>3
      <4> QED BY <2>4, <4>2, <4>3 DEF Changed
    <3> QED BY <2>2, <3>1, <3>2 DEF Committed, TablesTyped, RequestsTyped
  <2> QED BY <2>1, <2>3, <2>4
<1>4. ASSUME NEW c \in Console, Record(c) PROVE Typed'
  <2>1. Is(c, "record") /\ request[c] \in Req /\ Shaped(request[c])
    BY <1>4 DEF Record, RequestsTyped
  <2>2. PICK where \in {"done", "get"} : Go(c, where) BY <1>4 DEF Record
  <2>3. Shaped([request[c] EXCEPT !.at = where]) BY <2>1 DEF Shaped, Is, Req
  <2>4. RequestsTyped' BY <2>2, <2>3, Goes DEF Asking, RequestsTyped
  <2>5. told' \in [Area -> Entry \cup {None}] BY <1>4, <2>1, ReplayedTyped DEF Record, RestTyped
  <2> QED BY <1>4, <2>4, <2>5 DEF Record, table, page, TablesTyped, PanelTyped, FetchTyped, RestTyped
<1>5. ASSUME NEW c \in Console, RecordFails(c) PROVE Typed'
  <2>1. request[c].area \in Area BY <1>5, ReplayedTyped DEF RecordFails
  <2>2. Shaped([request[c] EXCEPT !.at = "refused"]) BY DEF RequestsTyped, Shaped, Req
  <2>3. RequestsTyped' BY <1>5, <2>2, Goes DEF Asking, RecordFails, Refused, RequestsTyped
  <2>4. TablesTyped' BY <1>5, <2>1 DEF RecordFails, table, TablesTyped
  <2>5. RestTyped' BY <1>5, BoundAssumption DEF RecordFails, Event, page, RestTyped
  <2> QED BY <1>5, <2>3, <2>4, <2>5 DEF RecordFails, page, PanelTyped, FetchTyped
<1>6. ASSUME NEW c \in Console, GetArea(c) PROVE Typed'
  <2>1. Is(c, "get") /\ request[c] \in Req /\ Shaped(request[c]) /\ request[c].area \in Area
    BY <1>6 DEF GetArea, RequestsTyped, Shaped, Is
  <2>2. Snapshot(request[c].area) \in View BY <2>1, SnapshotTyped DEF TypeInv
  <2>3. CASE Become(c, [request[c] EXCEPT !.at = "done", !.view = Snapshot(request[c].area)])
    <3>1. DEFINE r == [request[c] EXCEPT !.at = "done", !.view = Snapshot(request[c].area)]
    <3>2. r \in Req /\ Shaped(r) BY <2>1, <2>2 DEF Req, Shaped, Is, Asking
    <3> QED BY <1>6, <2>3, <3>2, Becomes DEF GetArea, Unchanged, table, page, TablesTyped,
            PanelTyped, FetchTyped, RestTyped, RequestsTyped
  <2>4. CASE Go(c, "refused")
    <3>1. Shaped([request[c] EXCEPT !.at = "refused"]) BY DEF RequestsTyped, Shaped, Req
    <3> QED BY <1>6, <2>4, <3>1, Goes DEF Asking, GetArea, Unchanged, table, page, TablesTyped,
            PanelTyped, FetchTyped, RestTyped, RequestsTyped
  <2> QED BY <1>6, <2>3, <2>4 DEF GetArea, Refused
<1>7. ASSUME NEW c \in Console, Press(c) PROVE Typed'
  <2>1. PICK r \in Req :
          /\ Become(c, r) /\ Shaped(r)
          /\ UNCHANGED <<table, ran, told, fetch, loaded, own, unsure, joined, crossed>>
          /\ events < MaxEvents /\ events' = events + 1
          /\ Display(c, list[c], None) \/ UNCHANGED <<list, selected, form>>
    BY <1>7, Clicks
  <2>2. RequestsTyped' BY <2>1, Becomes DEF RequestsTyped
  <2>3. PanelTyped'
    <3>1. CASE Display(c, list[c], None)
      <4>1. list[c] \in Lists BY DEF PanelTyped
      <4> QED BY <3>1, <4>1, Displays DEF PanelTyped
    <3> QED BY <2>1, <3>1 DEF PanelTyped
  <2>4. RestTyped' BY <2>1, BoundAssumption DEF RestTyped
  <2> QED BY <2>1, <2>2, <2>3, <2>4 DEF table, TablesTyped, FetchTyped
<1>8. ASSUME NEW c \in Console, Answered(c) PROVE Typed'
  <2>1. /\ request[c] \in Req /\ Shaped(request[c]) /\ Is(c, "done")
        /\ request[c].area \in Area /\ request[c].view \in View /\ request[c].version \in Nat
    BY <1>8 DEF Answered, RequestsTyped, Shaped, Is, Req
  <2>2. PICK views \in Lists, a \in Area \cup {None} : Display(c, views, a)
    <3>1. list[c] \in Lists /\ selected[c] \in Area \cup {None} BY DEF PanelTyped
    <3>2. [list[c] EXCEPT ![request[c].area] = IF @.area = None THEN @ ELSE request[c].view] \in Lists
      BY <2>1, <3>1 DEF Lists
    <3> QED BY <1>8, <2>1, <3>1, <3>2 DEF Answered
  <2>3. PanelTyped' BY <2>2, Displays DEF PanelTyped
  <2>4. RequestsTyped'
    <3>1. Idle \in Req /\ Shaped(Idle) BY IdleTyped DEF Shaped, Idle
    <3> QED BY <1>8, <3>1, Becomes DEF Answered, RequestsTyped
  <2>5. FetchTyped'
    <3>1. [is |-> "asked", views |-> Blank] \in Fetch BY IdleTyped DEF Fetch
    <3>2. fetch' \in [Console -> Fetch] BY <1>8, <3>1 DEF Answered, Refetch, FetchTyped
    <3>3. joined' \in SUBSET (Console \X Area) BY <1>8 DEF Answered, FetchTyped
    <3> QED BY <1>8, <3>2, <3>3 DEF Answered, FetchTyped
  <2>6. RestTyped' BY <1>8, <2>1 DEF Answered, RestTyped
  <2> QED BY <1>8, <2>3, <2>4, <2>5, <2>6 DEF Answered, table, TablesTyped
<1>9. ASSUME NEW c \in Console, Failed(c) PROVE Typed'
  <2>1. Idle \in Req /\ Shaped(Idle) BY IdleTyped DEF Shaped, Idle
  <2> QED BY <1>9, <2>1, Becomes DEF Failed, Unchanged, table, page, TablesTyped, PanelTyped,
          FetchTyped, RestTyped, RequestsTyped
<1>10. ASSUME NEW c \in Console, FetchReads(c) PROVE Typed'
  <2>1. [a \in Area |-> Snapshot(a)] \in Lists BY SnapshotTyped DEF Lists, TypeInv
  <2>2. [is |-> "read", views |-> [a \in Area |-> Snapshot(a)]] \in Fetch BY <2>1 DEF Fetch
  <2>3. FetchTyped' BY <1>10, <2>2 DEF FetchReads, FetchTyped
  <2> QED BY <1>10, <2>3 DEF FetchReads, table, TablesTyped, PanelTyped, RestTyped, RequestsTyped
<1>11. ASSUME NEW c \in Console, FetchLands(c) PROVE Typed'
  <2>1. fetch[c].views \in Lists /\ selected[c] \in Area \cup {None}
    BY DEF FetchTyped, Fetch, PanelTyped
  <2>2. PanelTyped' BY <1>11, <2>1, Displays DEF FetchLands, PanelTyped
  <2>3. [is |-> "none", views |-> Blank] \in Fetch BY IdleTyped DEF Fetch
  <2>4. FetchTyped' BY <1>11, <2>3 DEF FetchLands, FetchTyped
  <2> QED BY <1>11, <2>2, <2>4 DEF FetchLands, table, TablesTyped, RestTyped, RequestsTyped
<1>12. ASSUME NEW c \in Console, FetchFails(c) PROVE Typed'
  <2>1. FetchTyped' BY <1>12 DEF FetchFails, FetchTyped, Fetch
  <2>2. RestTyped' BY <1>12, BoundAssumption DEF FetchFails, Event, RestTyped
  <2> QED BY <1>12, <2>1, <2>2 DEF FetchFails, table, TablesTyped, PanelTyped, RequestsTyped
<1>13. ASSUME NEW c \in Console, NEW a \in Area, Select(c, a) PROVE Typed'
  <2>1. list[c] \in Lists BY DEF PanelTyped
  <2>2. PanelTyped' BY <1>13, <2>1, Displays DEF Select, PanelTyped
  <2> QED BY <1>13, <2>2 DEF Select, table, TablesTyped, FetchTyped, RestTyped, RequestsTyped
<1>14. ASSUME NEW c \in Console, NEW n \in Name, NEW t \in Category, Type(c, n, t) PROVE Typed'
  <2>1. form[c] \in Form /\ form[c].area # None BY <1>14, FormTyped DEF Type
  <2>2. PICK k \in Field : form' = [form EXCEPT ![c] =
          [form[c] EXCEPT !.name = n, !.category = t, !.typed = form[c].typed \cup {k}]]
    BY <1>14, <2>1 DEF Type, Field
  <2>3. form[c].typed \cup {k} \in SUBSET Field BY <2>1 DEF Form
  <2>4. DEFINE f == [form[c] EXCEPT !.name = n, !.category = t, !.typed = form[c].typed \cup {k}]
  <2>5. f \in Form /\ f.area = form[c].area BY <2>1, <2>3 DEF Form
  <2>6. PanelTyped' BY <1>14, <2>2, <2>5 DEF Type, PanelTyped, Open
  <2>7. RestTyped' BY <1>14, BoundAssumption DEF Type, Event, RestTyped
  <2> QED BY <1>14, <2>6, <2>7 DEF Type, table, TablesTyped, FetchTyped, RequestsTyped
<1>15. ASSUME NEW a \in Area, NEW p \in Path, RunStarts(a, p) PROVE Typed'
  <2>1. RestTyped' BY <1>15, BoundAssumption DEF RunStarts, Event, page, RestTyped
  <2> QED BY <1>15, <2>1 DEF RunStarts, table, page, TablesTyped, PanelTyped, FetchTyped, RequestsTyped
<1>16. CASE UNCHANGED vars
  BY <1>16 DEF vars, table, page, TablesTyped, PanelTyped, FetchTyped, RestTyped, RequestsTyped
<1> QED BY <1>1, <1>2, <1>3, <1>4, <1>5, <1>6, <1>7, <1>8, <1>9, <1>10, <1>11, <1>12, <1>13,
        <1>14, <1>15, <1>16 DEF Next

-----------------------------------------------------------------------------
\* Where things come from

(* A request that goes on keeps what was asked for.                        *)
Kept(d) == /\ request'[d].kind = request[d].kind /\ request'[d].name = request[d].name
           /\ request'[d].category = request[d].category
           /\ request'[d].typed = request[d].typed /\ request'[d].item = request[d].item
Advanced(d) ==
  /\ request[d].at \notin {"idle", "done", "refused"} /\ Kept(d)
  /\ request'[d].area = request[d].area \/ request[d].kind # "update"
  /\ \/ request'[d].view = request[d].view
     \/ /\ request'[d].at = "done" /\ request'[d].area = request[d].area
        /\ request[d].area \in Area /\ request'[d].view = Snapshot(request[d].area)
  /\ \/ request'[d].version = request[d].version /\ request'[d].area = request[d].area
     \/ request'[d].area \in Area /\ request'[d].version <= version'[request'[d].area]
Pressed(d) ==
  /\ request[d].at = "idle" /\ request'[d].at = "find"
  /\ request'[d].version = 0 /\ request'[d].view = Unseen
  /\ request'[d].kind = "update" =>
       /\ form[d].area # None /\ request'[d].area = form[d].area
       /\ request'[d].name = form[d].name /\ request'[d].category = form[d].category
       /\ request'[d].typed = form[d].typed

LEMMA Going ==
  ASSUME TypeInv, NEW c \in Console, NEW where \in Asking, Go(c, where)
  PROVE  /\ request'[c].at = where /\ Kept(c) /\ request'[c].area = request[c].area
         /\ request'[c].view = request[c].view /\ request'[c].version = request[c].version
         /\ \A d \in Console \ {c} : request'[d] = request[d]
<1>1. request \in [Console -> Req] BY DEF TypeInv, TypeOK
<1> QED BY <1>1 DEF Go, Become, Kept, Req

LEMMA GoingAdvances ==
  ASSUME TypeInv, NEW c \in Console, NEW where \in Asking, Go(c, where),
         request[c].at \notin {"idle", "done", "refused"}
  PROVE  Advanced(c) /\ \A d \in Console \ {c} : request'[d] = request[d]
BY Going DEF Advanced

LEMMA Requests ==
  ASSUME TypeInv, [Next]_vars, NEW d \in Console
  PROVE  request'[d] = request[d] \/ request'[d] = Idle \/ Advanced(d) \/ Pressed(d)
<1>0. request \in [Console -> Req] /\ version \in [Area -> Nat] BY DEF TypeInv, TypeOK
<1>1. ASSUME NEW c \in Console, Find(c) PROVE request'[d] = request[d] \/ Advanced(d)
  BY <1>1, GoingAdvances DEF Find, Is, Refused, Asking
<1>2. ASSUME NEW c \in Console, LookUp(c) PROVE request'[d] = request[d] \/ Advanced(d)
  <2>1. CASE Go(c, "change") BY <1>2, <2>1, GoingAdvances DEF LookUp, Is, Asking
  <2>2. CASE Become(c, [request[c] EXCEPT !.at = "record", !.version = version[request[c].area]])
    <3>1. request[c].at = "look" /\ request[c].area \in Area /\ UNCHANGED version
      BY <1>2 DEF LookUp, Is, TypeInv, Shaped, Unchanged, table
    <3>2. /\ Kept(c) /\ request'[c].area = request[c].area /\ request'[c].view = request[c].view
          /\ request'[c].version = version[request[c].area]
          /\ \A b \in Console \ {c} : request'[b] = request[b]
      BY <1>0, <2>2 DEF Become, Kept, Req
    <3> QED BY <1>0, <3>1, <3>2 DEF Advanced
  <2> QED BY <1>2, <2>1, <2>2 DEF LookUp
<1>3. ASSUME NEW c \in Console, Change(c) PROVE request'[d] = request[d] \/ Advanced(d)
  <2>1. Is(c, "change") BY <1>3, Changes
  <2>2. CASE Refused(c) BY <2>1, <2>2, GoingAdvances DEF Is, Refused, Asking
  <2>3. ASSUME NEW a \in Area, NEW rec \in Rec \cup {None}, Commit(c, a, rec), Changed(c, a, rec)
        PROVE  request'[d] = request[d] \/ Advanced(d)
    <3>1. Committed(c, a, rec) BY <2>1, <2>3, Commits
    <3>2. /\ request'[c] = [request[c] EXCEPT !.at = "record", !.area = a, !.version = version[a] + 1]
          /\ \A b \in Console \ {c} : request'[b] = request[b]
      BY <3>1 DEF Committed
    <3>3. /\ Kept(c) /\ request'[c].area = a /\ request'[c].view = request[c].view
          /\ request'[c].version = version[a] + 1
      BY <1>0, <3>2 DEF Kept, Req
    <3>4. request[c].kind = "update" => a = request[c].area BY <2>3 DEF Changed
    <3>5. version'[a] = version[a] + 1 /\ version[a] \in Nat BY <1>0, <3>1 DEF Committed
    <3>6. request'[c].version <= version'[request'[c].area] BY <3>3, <3>5
    <3>7. request[c].at = "change" BY <2>1 DEF Is
    <3>8. Advanced(c) BY <2>3, <3>3, <3>4, <3>6, <3>7 DEF Advanced
    <3> QED BY <3>2, <3>8
  <2> QED BY <1>3, <2>2, <2>3, Changes
<1>4. ASSUME NEW c \in Console, Record(c) PROVE request'[d] = request[d] \/ Advanced(d)
  BY <1>4, GoingAdvances DEF Record, Is, Asking
<1>5. ASSUME NEW c \in Console, RecordFails(c) PROVE request'[d] = request[d] \/ Advanced(d)
  BY <1>5, GoingAdvances DEF RecordFails, Is, Refused, Asking
<1>6. ASSUME NEW c \in Console, GetArea(c) PROVE request'[d] = request[d] \/ Advanced(d)
  <2>1. request[c].at = "get" /\ request[c].area \in Area
    BY <1>6 DEF GetArea, Is, TypeInv, Shaped
  <2>2. CASE Go(c, "refused") BY <2>1, <2>2, GoingAdvances DEF Asking
  <2>3. CASE Become(c, [request[c] EXCEPT !.at = "done", !.view = Snapshot(request[c].area)])
    <3>1. /\ Kept(c) /\ request'[c].area = request[c].area /\ request'[c].at = "done"
          /\ request'[c].version = request[c].version
          /\ request'[c].view = Snapshot(request[c].area)
          /\ \A b \in Console \ {c} : request'[b] = request[b]
      BY <1>0, <2>3 DEF Become, Kept, Req
    <3> QED BY <2>1, <3>1 DEF Advanced
  <2> QED BY <1>6, <2>2, <2>3 DEF GetArea, Refused
<1>7. ASSUME NEW c \in Console, Press(c) PROVE request'[d] = request[d] \/ Pressed(d)
  <2>1. PICK r \in Req :
          /\ Is(c, "idle") /\ Become(c, r) /\ r.at = "find" /\ r.version = 0 /\ r.view = Unseen
          /\ r.kind = "update" => form[c].area # None /\ r.area = form[c].area
               /\ r.name = form[c].name /\ r.category = form[c].category
               /\ r.typed = form[c].typed
    BY <1>7, Clicks
  <2>2. request'[c] = r /\ \A b \in Console \ {c} : request'[b] = request[b]
    BY <1>0, <2>1 DEF Become
  <2> QED BY <2>1, <2>2 DEF Pressed, Is
<1>8. ASSUME NEW c \in Console, Answered(c) \/ Failed(c)
      PROVE request'[d] = request[d] \/ request'[d] = Idle
  BY <1>0, <1>8 DEF Answered, Failed, Become
<1>9. ASSUME NEW c \in Console, FetchReads(c) \/ FetchLands(c) \/ FetchFails(c)
      PROVE request'[d] = request[d]
  BY <1>9 DEF FetchReads, FetchLands, FetchFails
<1>10. ASSUME NEW c \in Console, NEW a \in Area, Select(c, a) PROVE request'[d] = request[d]
  BY <1>10 DEF Select
<1>11. ASSUME NEW c \in Console, NEW n \in Name, NEW t \in Category, Type(c, n, t)
       PROVE request'[d] = request[d]
  BY <1>11 DEF Type
<1>12. ASSUME NEW a \in Area, NEW p \in Path, RunStarts(a, p) PROVE request'[d] = request[d]
  BY <1>12 DEF RunStarts
<1>13. CASE UNCHANGED vars BY <1>13 DEF vars
<1> QED BY <1>1, <1>2, <1>3, <1>4, <1>5, <1>6, <1>7, <1>8, <1>9, <1>10, <1>11, <1>12, <1>13
        DEF Next

(* Tables only change in a statement, and what they had been stays.        *)
LEMMA TablesStay ==
  ASSUME TypeInv, [Next]_vars, \A c \in Console : ~Change(c)
  PROVE  UNCHANGED table
<1>1. ASSUME NEW c \in Console, Press(c) PROVE UNCHANGED table BY <1>1, Clicks
<1> QED BY <1>1 DEF Next, vars, Find, LookUp, Record, RecordFails, GetArea, Answered, Failed,
               FetchReads, FetchLands, FetchFails, Select, Type, RunStarts, Unchanged

Grown == \A a \in Area : /\ version[a] \in Nat /\ version'[a] \in Nat /\ version[a] <= version'[a]
                         /\ had[a].name \subseteq had'[a].name
                         /\ had[a].category \subseteq had'[a].category

LEMMA Grows == ASSUME TypeInv, [Next]_vars PROVE Grown
<1>1. version \in [Area -> Nat] BY DEF TypeInv, TypeOK
<1>2. ASSUME NEW c \in Console, Change(c) PROVE Grown
  <2>1. CASE Stays BY <1>1, <2>1 DEF Stays, table, Grown
  <2>2. ASSUME NEW a \in Area, NEW rec \in Rec \cup {None}, Commit(c, a, rec) PROVE Grown
    <3>1. Committed(c, a, rec) BY <1>2, <2>2, Changes, Commits
    <3>2. \A b \in Area \ {a} : version'[b] = version[b] /\ had'[b] = had[b]
      BY <3>1 DEF Committed
    <3>3. /\ version'[a] = version[a] + 1 /\ had[a].name \subseteq had'[a].name
          /\ had[a].category \subseteq had'[a].category
      BY <3>1 DEF Committed
    <3> QED BY <1>1, <3>2, <3>3 DEF Grown
  <2> QED BY <1>2, <2>1, <2>2, Changes
<1>3. CASE \A c \in Console : ~Change(c) BY <1>1, <1>3, TablesStay DEF table, Grown
<1> QED BY <1>2, <1>3

LEMMA Forms ==
  ASSUME TypeInv, [Next]_vars, NEW d \in Console
  PROVE  \/ form'[d] = form[d]
         \/ form'[d] = NoForm
         \/ /\ form[d].area # None /\ form'[d].area = form[d].area
            /\ form[d].typed \subseteq form'[d].typed
            /\ "name" \in form'[d].typed \/ form'[d].name = form[d].name
            /\ "category" \in form'[d].typed \/ form'[d].category = form[d].category
         \/ \E a \in Area : /\ list'[d][a].area # None
                            /\ form'[d] = [area |-> a, name |-> list'[d][a].area.name,
                                           category |-> list'[d][a].area.category, typed |-> {}]
<1>0. /\ form \in [Console -> Form \cup {NoForm}] /\ list \in [Console -> Lists]
      /\ selected \in [Console -> Area \cup {None}] /\ fetch \in [Console -> Fetch]
  BY DEF TypeInv, TypeOK
<1> DEFINE Shown == \/ form'[d] = form[d]
                    \/ form'[d] = NoForm
                    \/ \E a \in Area : /\ list'[d][a].area # None
                                       /\ form'[d] = [area |-> a, name |-> list'[d][a].area.name,
                                            category |-> list'[d][a].area.category, typed |-> {}]
<1>1. ASSUME NEW c \in Console, NEW views \in Lists, NEW a \in Area \cup {None}, Display(c, views, a)
      PROVE Shown
  <2>1. CASE d # c BY <1>1, <2>1, Displays
  <2>2. CASE d = c
    <3>1. list'[d] = views /\ form'[d] = Mounted(form[d], a, views) BY <1>1, <2>2, Displays
    <3>2. form[d] \in Form \cup {NoForm} BY <1>0
    <3> QED BY <1>1, <3>1, <3>2, MountedTyped
  <2> QED BY <2>1, <2>2
<1>2. ASSUME NEW c \in Console, Answered(c) PROVE Shown
  <2>1. /\ request[c].area \in Area /\ request[c].view \in View
    BY <1>2 DEF Answered, TypeInv, TypeOK, Req, Shaped, Is
  <2>2. [list[c] EXCEPT ![request[c].area] = IF @.area = None THEN @ ELSE request[c].view] \in Lists
    BY <1>0, <2>1 DEF Lists
  <2>3. list[c] \in Lists /\ selected[c] \in Area \cup {None} BY <1>0
  <2>4. \/ Display(c, list[c], request[c].area) \/ Display(c, list[c], None)
        \/ Display(c, [list[c] EXCEPT ![request[c].area] = IF @.area = None THEN @ ELSE request[c].view],
                   selected[c])
    BY <1>2 DEF Answered
  <2> QED BY <1>1, <2>1, <2>2, <2>3, <2>4
<1>3. ASSUME NEW c \in Console, FetchLands(c) PROVE Shown
  <2>1. fetch[c].views \in Lists /\ selected[c] \in Area \cup {None} BY <1>0 DEF Fetch
  <2> QED BY <1>1, <1>3, <2>1 DEF FetchLands
<1>4. ASSUME NEW c \in Console, NEW a \in Area, Select(c, a) PROVE Shown
  <2>1. list[c] \in Lists BY <1>0
  <2> QED BY <1>1, <1>4, <2>1 DEF Select
<1>5. ASSUME NEW c \in Console, Press(c) PROVE Shown
  <2>1. Display(c, list[c], None) \/ UNCHANGED form BY <1>5, Clicks
  <2>2. list[c] \in Lists BY <1>0
  <2> QED BY <1>1, <1>5, <2>1, <2>2
<1>6. ASSUME NEW c \in Console, NEW n \in Name, NEW t \in Category, Type(c, n, t)
      PROVE  \/ form'[d] = form[d]
             \/ /\ form[d].area # None /\ form'[d].area = form[d].area
                /\ form[d].typed \subseteq form'[d].typed
                /\ "name" \in form'[d].typed \/ form'[d].name = form[d].name
                /\ "category" \in form'[d].typed \/ form'[d].category = form[d].category
  <2>1. form[c] \in Form /\ form[c].area # None BY <1>6, FormTyped DEF Type
  <2>2. form' = [form EXCEPT ![c] = [form[c] EXCEPT !.name = n, !.category = t,
                 !.typed = form[c].typed \cup {IF n # form[c].name THEN "name" ELSE "category"}]]
        /\ ((n # form[c].name) # (t # form[c].category))
    BY <1>6 DEF Type
  <2>3. CASE d # c BY <1>0, <2>2, <2>3
  <2>4. CASE d = c
    <3>1. /\ form'[c].area = form[c].area /\ form'[c].name = n /\ form'[c].category = t
          /\ form'[c].typed = form[c].typed \cup {IF n # form[c].name THEN "name" ELSE "category"}
      BY <1>0, <2>1, <2>2 DEF Form
    <3>2. CASE n # form[c].name BY <2>1, <2>2, <2>4, <3>1, <3>2
    <3>3. CASE n = form[c].name BY <2>1, <2>2, <2>4, <3>1, <3>3
    <3> QED BY <3>2, <3>3
  <2> QED BY <2>3, <2>4
<1>7. ASSUME NEW c \in Console, Find(c) \/ LookUp(c) \/ Record(c) \/ RecordFails(c) \/ GetArea(c)
                                \/ Failed(c) \/ FetchReads(c) \/ FetchFails(c)
      PROVE  form' = form
  BY <1>7 DEF Find, LookUp, Record, RecordFails, GetArea, Failed, FetchReads, FetchFails,
              Unchanged, page
<1>8. ASSUME NEW c \in Console, Change(c) PROVE form' = form
  BY <1>8, Changes DEF Statement, page
<1>9. ASSUME NEW a \in Area, NEW p \in Path, RunStarts(a, p) PROVE form' = form
  BY <1>9 DEF RunStarts, page
<1>10. CASE UNCHANGED vars BY <1>10 DEF vars, page
<1> QED BY <1>1, <1>2, <1>3, <1>4, <1>5, <1>6, <1>7, <1>8, <1>9, <1>10 DEF Next

(* What is shown was shown, or is an answer, or was fetched; and what is   *)
(* fetched is read from the tables.                                        *)
LEMMA Showing ==
  ASSUME TypeInv, [Next]_vars, NEW d \in Console
  PROVE  /\ \/ list'[d] = list[d]
            \/ /\ Is(d, "done") /\ Answered(d)
               /\ \A a \in Area : list'[d][a] = list[d][a]
                               \/ (a = request[d].area /\ list'[d][a] = request[d].view)
            \/ FetchLands(d) /\ list'[d] = fetch[d].views
         /\ \/ fetch'[d] = fetch[d]
            \/ fetch'[d].is = "asked" /\ fetch'[d].views = Blank
            \/ fetch'[d].is = "none" /\ fetch'[d].views \in {Blank, fetch[d].views}
               /\ (FetchLands(d) \/ d \in unsure')
            \/ fetch'[d].is = "read" /\ fetch'[d].views = [a \in Area |-> Snapshot(a)]
<1>0. /\ list \in [Console -> Lists] /\ fetch \in [Console -> Fetch]
      /\ selected \in [Console -> Area \cup {None}]
  BY DEF TypeInv, TypeOK
<1>1. ASSUME NEW c \in Console, Answered(c)
      PROVE  /\ list'[d] = list[d] \/ (d = c /\ \A a \in Area : list'[d][a] = list[d][a]
                               \/ (a = request[d].area /\ list'[d][a] = request[d].view))
             /\ fetch'[d] = fetch[d] \/ (fetch'[d].is = "asked" /\ fetch'[d].views = Blank)
  <2>1. fetch'[d] = fetch[d] \/ (fetch'[d].is = "asked" /\ fetch'[d].views = Blank)
    BY <1>0, <1>1 DEF Answered, Refetch
  <2>2. PICK v : v = [list[c] EXCEPT ![request[c].area] = IF @.area = None THEN @ ELSE request[c].view]
    OBVIOUS
  <2>3. \A a \in Area : v[a] = list[c][a] \/ (a = request[c].area /\ v[a] = request[c].view)
    BY <1>0, <2>2 DEF Lists
  <2>4. list' = [list EXCEPT ![c] = v] \/ list' = [list EXCEPT ![c] = list[c]]
    BY <1>1, <2>2 DEF Answered, Display
  <2> QED BY <1>0, <2>1, <2>3, <2>4
<1>2. ASSUME NEW c \in Console, FetchLands(c)
      PROVE  /\ list'[d] = list[d] \/ (d = c /\ list'[d] = fetch[d].views)
             /\ fetch'[d] = fetch[d] \/ (d = c /\ fetch'[d].is = "none" /\ fetch'[d].views = Blank)
  BY <1>0, <1>2 DEF FetchLands, Display
<1>3. ASSUME NEW c \in Console, FetchFails(c)
      PROVE  /\ list'[d] = list[d]
             /\ \/ fetch'[d] = fetch[d]
                \/ d \in unsure' /\ fetch'[d].is = "none" /\ fetch'[d].views = fetch[d].views
  BY <1>0, <1>3 DEF FetchFails, Fetch
<1>4. ASSUME NEW c \in Console, FetchReads(c)
      PROVE  /\ list'[d] = list[d]
             /\ \/ fetch'[d] = fetch[d]
                \/ fetch'[d].is = "read" /\ fetch'[d].views = [a \in Area |-> Snapshot(a)]
  BY <1>0, <1>4 DEF FetchReads
<1>5. ASSUME NEW c \in Console, Press(c) PROVE list' = list /\ fetch' = fetch
  <2>1. UNCHANGED fetch /\ (Display(c, list[c], None) \/ UNCHANGED list) BY <1>5, Clicks
  <2> QED BY <1>0, <2>1 DEF Display
<1>6. ASSUME NEW c \in Console, NEW a \in Area, Select(c, a) PROVE list' = list /\ fetch' = fetch
  BY <1>0, <1>6 DEF Select, Display
<1>7. ASSUME NEW c \in Console, NEW n \in Name, NEW t \in Category, Type(c, n, t)
      PROVE list' = list /\ fetch' = fetch
  BY <1>7 DEF Type
<1>8. ASSUME NEW c \in Console, Find(c) \/ LookUp(c) \/ Record(c) \/ RecordFails(c) \/ GetArea(c)
                                \/ Failed(c)
      PROVE list' = list /\ fetch' = fetch
  BY <1>8 DEF Find, LookUp, Record, RecordFails, GetArea, Failed, Unchanged, page
<1>9. ASSUME NEW c \in Console, Change(c) PROVE list' = list /\ fetch' = fetch
  BY <1>9, Changes DEF Statement, page
<1>10. ASSUME NEW a \in Area, NEW p \in Path, RunStarts(a, p) PROVE list' = list /\ fetch' = fetch
  BY <1>10 DEF RunStarts, page
<1>11. CASE UNCHANGED vars BY <1>11 DEF vars, page
<1>12. ASSUME Answered(d) PROVE Is(d, "done") BY <1>12 DEF Answered
<1> QED BY <1>1, <1>2, <1>3, <1>4, <1>5, <1>6, <1>7, <1>8, <1>9, <1>10, <1>11, <1>12 DEF Next

-----------------------------------------------------------------------------
\* What has been seen

LEMMA SeenInit == Init => SeenInv
<1> SUFFICES ASSUME Init PROVE SeenInv OBVIOUS
<1>1. \A a \in Area : Known(a, Snapshot(a))
  BY DEF Init, Known, Snapshot, Exists
<1>2. \A c \in Console : /\ list[c] = Blank /\ fetch[c].views = Blank /\ request[c] = Idle
                         /\ form[c] = NoForm
  BY DEF Init
<1>3. \A a \in Area : Known(a, Unseen)
  BY DEF Init, Known, Unseen
<1> QED BY <1>1, <1>2, <1>3 DEF SeenInv, Blank, Idle, NoForm, Is

LEMMA SnapshotsKnown ==
  ASSUME TypeInv, [Next]_vars, SeenInv
  PROVE  (\A a \in Area : Known(a, Snapshot(a)))'
<1>0. version \in [Area -> Nat] BY DEF TypeInv, TypeOK
<1>1. CASE \A c \in Console : ~Change(c)
  BY <1>1, TablesStay DEF SeenInv, table, Known, Snapshot
<1>2. ASSUME NEW c \in Console, Change(c) PROVE (\A a \in Area : Known(a, Snapshot(a)))'
  <2>1. CASE Stays BY <2>1 DEF SeenInv, Stays, table, Known, Snapshot
  <2>2. ASSUME NEW a \in Area, NEW rec \in Rec \cup {None}, Commit(c, a, rec)
        PROVE  (\A b \in Area : Known(b, Snapshot(b)))'
    <3>1. Committed(c, a, rec) BY <1>2, <2>2, Changes, Commits
    <3>2. /\ areas'[a] = rec /\ version'[a] \in Nat
          /\ rec # None => rec.name \in had'[a].name /\ rec.category \in had'[a].category
      BY <1>0, <3>1 DEF Committed
    <3>3. \A b \in Area \ {a} : areas'[b] = areas[b] /\ version'[b] = version[b] /\ had'[b] = had[b]
      BY <3>1 DEF Committed
    <3>4. Known(a, Snapshot(a))' BY <3>2 DEF Known, Snapshot
    <3>5. \A b \in Area \ {a} : Known(b, Snapshot(b))'
      BY <3>3 DEF SeenInv, Known, Snapshot
    <3> QED BY <3>4, <3>5
  <2> QED BY <1>2, <2>1, <2>2, Changes
<1> QED BY <1>1, <1>2

LEMMA KnownStays ==
  ASSUME Grown, NEW a \in Area, NEW v \in View, Known(a, v)
  PROVE  Known(a, v)'
BY DEF Grown, Known, View

LEMMA UnseenKnown == ASSUME TypeInv, NEW a \in Area PROVE Known(a, Unseen)
BY DEF TypeInv, TypeOK, Known, Unseen

LEMMA MeantStays ==
  ASSUME Grown, NEW x, x.area \in Area, Meant(x)
  PROVE  Meant(x)'
BY DEF Grown, Meant

LEMMA SeenStep == TypeInv /\ TypeInv' /\ SeenInv /\ [Next]_vars => SeenInv'
<1> SUFFICES ASSUME TypeInv, TypeInv', SeenInv, [Next]_vars PROVE SeenInv' OBVIOUS
<1>0. Grown BY Grows
<1>1. (\A a \in Area : Known(a, Snapshot(a)))' BY SnapshotsKnown
<1>2. \A c \in Console, a \in Area : /\ list[c][a] \in View /\ fetch[c].views[a] \in View
                                     /\ Snapshot(a) \in View
  BY SnapshotTyped DEF TypeInv, TypeOK, Lists, Fetch
<1>3. \A a \in Area : Known(a, Unseen)' BY UnseenKnown DEF TypeInv, TypeOK, Known, Unseen
<1>4. ASSUME NEW c \in Console, NEW a \in Area
      PROVE  Known(a, list[c][a])' /\ Known(a, fetch[c].views[a])'
  <2>1. Known(a, list[c][a]) /\ Known(a, fetch[c].views[a]) /\ Known(a, Snapshot(a))
    BY DEF SeenInv
  <2>2. PICK l, f, s : l = list[c][a] /\ f = fetch[c].views[a] /\ s = Snapshot(a) OBVIOUS
  <2>3. Known(a, l)' /\ Known(a, f)' /\ Known(a, s)'
    <3>1. Known(a, l) /\ Known(a, f) /\ Known(a, s) BY <2>1, <2>2
    <3>2. l \in View /\ f \in View /\ s \in View BY <1>2, <2>2
    <3> QED BY <1>0, <3>1, <3>2, KnownStays
  <2>4. ASSUME Is(c, "done"), a = request[c].area, NEW v, v = request[c].view PROVE Known(a, v)'
    <3>1. request[c].view = Unseen \/ Known(a, request[c].view) BY <2>4 DEF SeenInv
    <3>2. v \in View BY <2>4 DEF TypeInv, TypeOK, Req
    <3>3. CASE v = Unseen BY <1>3, <3>3 DEF Known
    <3>4. CASE Known(a, v) BY <1>0, <3>2, <3>4, KnownStays
    <3> QED BY <2>4, <3>1, <3>3, <3>4
  <2>5. list'[c][a] \in {l, f} \/ (Is(c, "done") /\ a = request[c].area /\ list'[c][a] = request[c].view)
    BY <2>2, Showing
  <2>6. fetch'[c].views[a] \in {f, Unseen, s} BY <2>2, Showing DEF Blank
  <2>7. Known(a, list[c][a])' BY <2>3, <2>4, <2>5 DEF Known
  <2>8. Known(a, fetch[c].views[a])' BY <1>3, <2>3, <2>6 DEF Known
  <2> QED BY <2>7, <2>8
<1>5. ASSUME NEW c \in Console, (form[c].area # None)' PROVE Meant(form[c])'
  <2>0. form' \in [Console -> Form \cup {NoForm}] BY DEF TypeInv, TypeOK
  <2>1. CASE form[c].area # None /\ form'[c].area = form[c].area
             /\ form[c].typed \subseteq form'[c].typed
             /\ ("name" \in form'[c].typed \/ form'[c].name = form[c].name)
             /\ ("category" \in form'[c].typed \/ form'[c].category = form[c].category)
    <3>1. form[c].area \in Area /\ Meant(form[c]) BY <2>1, FormTyped DEF SeenInv
    <3>2. PICK x : x = form[c] OBVIOUS
    <3>3. Meant(x)' BY <1>0, <3>1, <3>2, MeantStays
    <3> QED BY <2>1, <3>2, <3>3 DEF Meant
  <2>2. CASE \E a \in Area : /\ list'[c][a].area # None
                             /\ form'[c] = [area |-> a, name |-> list'[c][a].area.name,
                                            category |-> list'[c][a].area.category, typed |-> {}]
    <3>1. PICK a \in Area : /\ list'[c][a].area # None
                            /\ form'[c] = [area |-> a, name |-> list'[c][a].area.name,
                                           category |-> list'[c][a].area.category, typed |-> {}]
      BY <2>2
    <3>2. Known(a, list[c][a])' BY <1>4
    <3> QED BY <3>1, <3>2 DEF Meant, Known
  <2>3. form'[c] # NoForm BY <1>5, <2>0 DEF NoForm
  <2> QED BY <1>5, <2>1, <2>2, <2>3, Forms
<1>6. ASSUME NEW c \in Console
      PROVE (request[c].view = Unseen \/ (Is(c, "done") /\ Known(request[c].area, request[c].view)))'
  <2>1. request[c].view = Unseen \/ (Is(c, "done") /\ Known(request[c].area, request[c].view))
    BY DEF SeenInv
  <2>2. CASE request'[c] = request[c]
    <3>1. CASE request[c].view = Unseen BY <2>2, <3>1
    <3>2. CASE Is(c, "done") /\ Known(request[c].area, request[c].view)
      <4>1. request[c].area \in Area /\ request[c].view \in View
        BY <3>2 DEF TypeInv, TypeOK, Req, Shaped, Is
      <4>2. PICK a, v : a = request[c].area /\ v = request[c].view OBVIOUS
      <4>3. Known(a, v)' BY <1>0, <3>2, <4>1, <4>2, KnownStays
      <4> QED BY <2>2, <3>2, <4>2, <4>3 DEF Is, Known
    <3> QED BY <2>1, <3>1, <3>2
  <2>3. CASE request'[c] = Idle BY <2>3 DEF Idle
  <2>4. CASE Pressed(c) BY <2>4 DEF Pressed
  <2>5. CASE Advanced(c)
    <3>1. CASE request'[c].view = request[c].view BY <2>1, <2>5, <3>1 DEF Advanced, Is
    <3>2. CASE /\ request'[c].at = "done" /\ request'[c].area = request[c].area
               /\ request[c].area \in Area /\ request'[c].view = Snapshot(request[c].area)
      <4>1. PICK a, v : a = request[c].area /\ v = Snapshot(a) OBVIOUS
      <4>2. Known(a, v) BY <3>2, <4>1 DEF SeenInv
      <4>3. Known(a, v)' BY <1>0, <1>2, <3>2, <4>1, <4>2, KnownStays
      <4> QED BY <3>2, <4>1, <4>3 DEF Is, Known
    <3> QED BY <2>5, <3>1, <3>2 DEF Advanced
  <2> QED BY <2>2, <2>3, <2>4, <2>5, Requests
<1>7. ASSUME NEW c \in Console, (request[c].kind = "update" /\ ~Is(c, "idle") /\ ~Is(c, "refused"))'
      PROVE Meant(request[c])'
  <2>1. CASE /\ request[c].kind = "update" /\ ~Is(c, "idle") /\ ~Is(c, "refused")
             /\ request'[c].area = request[c].area /\ Kept(c)
    <3>1. Meant(request[c]) /\ request[c].area \in Area
      BY <2>1 DEF SeenInv, TypeInv, Shaped, Is
    <3>2. PICK x : x = request[c] OBVIOUS
    <3>3. Meant(x)' BY <1>0, <3>1, <3>2, MeantStays
    <3> QED BY <2>1, <3>2, <3>3 DEF Meant, Kept
  <2>2. CASE request'[c] = request[c] BY <1>7, <2>1, <2>2 DEF Is, Kept
  <2>3. CASE Advanced(c) BY <1>7, <2>1, <2>3 DEF Advanced, Is, Kept
  <2>4. CASE request'[c] = Idle BY <1>7, <2>4 DEF Idle, Is
  <2>5. CASE Pressed(c)
    <3>1. /\ form[c].area # None /\ request'[c].area = form[c].area
          /\ request'[c].name = form[c].name /\ request'[c].category = form[c].category
          /\ request'[c].typed = form[c].typed
      BY <1>7, <2>5 DEF Pressed
    <3>2. form[c].area \in Area /\ Meant(form[c]) BY <3>1, FormTyped DEF SeenInv
    <3>3. PICK x : x = form[c] OBVIOUS
    <3>4. Meant(x)' BY <1>0, <3>2, <3>3, MeantStays
    <3> QED BY <3>1, <3>3, <3>4 DEF Meant
  <2> QED BY <2>2, <2>3, <2>4, <2>5, Requests
<1> QED BY <1>1, <1>4, <1>5, <1>6, <1>7 DEF SeenInv

-----------------------------------------------------------------------------
\* A screen's own changes

LEMMA OwnInit == Init => OwnInv
BY DEF Init, OwnInv, Idle

LEMMA Owns ==
  ASSUME TypeInv, [Next]_vars, NEW d \in Console
  PROVE  \/ own'[d] = own[d] /\ ~Answered(d)
         \/ /\ Answered(d) /\ request[d].area \in Area
            /\ \/ fetch'[d].is = "asked"
               \/ fetch'[d] = fetch[d] /\ fetch[d].is = "read"
                  /\ (\/ <<d, request[d].area>> \in joined'
                      \/ ~(fetch[d].views[request[d].area].version < request[d].version))
            /\ own'[d] = [own[d] EXCEPT ![request[d].area] = request[d].version]
<1>0. own \in [Console -> [Area -> Nat]] /\ fetch \in [Console -> Fetch] BY DEF TypeInv, TypeOK
<1>1. CASE Answered(d)
  <2>1. request[d].area \in Area BY <1>1 DEF Answered, TypeInv, Shaped, Is
  <2>2. own'[d] = [own[d] EXCEPT ![request[d].area] = request[d].version]
    BY <1>0, <1>1 DEF Answered
  <2>3. CASE ~Joins(d)
    <3>1. fetch'[d].is = "asked" BY <1>0, <1>1, <2>3 DEF Answered, Refetch
    <3> QED BY <1>1, <2>1, <2>2, <3>1
  <2>4. CASE Joins(d)
    <3>1. fetch'[d] = fetch[d] /\ fetch[d].is \in {"asked", "read"}
      BY <1>0, <1>1, <2>4 DEF Answered, Refetch, Joins, Fetch
    <3>2. ASSUME fetch[d].is = "read", fetch[d].views[request[d].area].version < request[d].version
          PROVE  <<d, request[d].area>> \in joined'
      BY <1>1, <2>1, <2>4, <3>2 DEF Answered, Missed
    <3> QED BY <1>1, <2>1, <2>2, <3>1, <3>2
  <2> QED BY <2>3, <2>4
<1>2. CASE ~Answered(d)
  <2>1. ASSUME NEW c \in Console, Press(c) PROVE own' = own BY <2>1, Clicks
  <2>2. ASSUME NEW c \in Console, Change(c) PROVE own' = own BY <2>2, Changes DEF Statement, page
  <2>3. ASSUME NEW c \in Console, Answered(c), c # d PROVE own'[d] = own[d]
    BY <1>0, <2>3 DEF Answered
  <2> QED BY <1>2, <2>1, <2>2, <2>3 DEF Next, vars, Find, LookUp, Record, RecordFails, GetArea, Failed,
               FetchReads, FetchLands, FetchFails, Select, Type, RunStarts, Unchanged, page
<1> QED BY <1>1, <1>2

LEMMA Unsure ==
  ASSUME TypeInv, [Next]_vars, NEW d \in Console
  PROVE  d \in unsure /\ d \notin unsure' => FetchLands(d)
<1>1. ASSUME NEW c \in Console, Press(c) PROVE unsure' = unsure BY <1>1, Clicks
<1>2. ASSUME NEW c \in Console, Change(c) PROVE unsure' = unsure
  BY <1>2, Changes DEF Statement, page
<1>3. ASSUME NEW c \in Console, FetchLands(c) PROVE d \in unsure /\ d \notin unsure' => c = d
  BY <1>3 DEF FetchLands
<1>4. ASSUME NEW c \in Console, FetchFails(c) PROVE unsure \subseteq unsure'
  BY <1>4 DEF FetchFails
<1>5. ASSUME NEW c \in Console, Find(c) \/ LookUp(c) \/ Record(c) \/ RecordFails(c) \/ GetArea(c)
                                \/ Answered(c) \/ Failed(c) \/ FetchReads(c)
      PROVE  unsure' = unsure
  BY <1>5 DEF Find, LookUp, Record, RecordFails, GetArea, Answered, Failed, FetchReads,
              Unchanged, page
<1>6. ASSUME NEW c \in Console, NEW a \in Area, Select(c, a) PROVE unsure' = unsure
  BY <1>6 DEF Select
<1>7. ASSUME NEW c \in Console, NEW n \in Name, NEW t \in Category, Type(c, n, t)
      PROVE unsure' = unsure
  BY <1>7 DEF Type
<1>8. ASSUME NEW a \in Area, NEW p \in Path, RunStarts(a, p) PROVE unsure' = unsure
  BY <1>8 DEF RunStarts, page
<1>9. CASE UNCHANGED vars BY <1>9 DEF vars, page
<1> QED BY <1>1, <1>2, <1>3, <1>4, <1>5, <1>6, <1>7, <1>8, <1>9 DEF Next

(* A change that a screen missed is excepted until everything is asked for *)
(* again.                                                                  *)
LEMMA Joined ==
  ASSUME TypeInv, [Next]_vars, NEW d \in Console, NEW a \in Area, <<d, a>> \in joined
  PROVE  <<d, a>> \in joined' \/ (Answered(d) /\ fetch'[d].is = "asked")
<1>0. fetch \in [Console -> Fetch] BY DEF TypeInv, TypeOK
<1>1. ASSUME NEW c \in Console, Press(c) PROVE joined' = joined BY <1>1, Clicks
<1>2. ASSUME NEW c \in Console, Change(c) PROVE joined' = joined
  BY <1>2, Changes DEF Statement, page
<1>3. ASSUME NEW c \in Console, Answered(c)
      PROVE  <<d, a>> \in joined' \/ (Answered(d) /\ fetch'[d].is = "asked")
  <2>1. CASE Joins(c) BY <1>3, <2>1 DEF Answered
  <2>2. CASE ~Joins(c) /\ c # d
    <3>1. <<d, a>>[1] # c BY <2>2
    <3> QED BY <1>3, <2>2, <3>1 DEF Answered
  <2>3. CASE ~Joins(c) /\ c = d
    <3>1. fetch'[d].is = "asked" BY <1>0, <1>3, <2>3 DEF Answered, Refetch
    <3> QED BY <1>3, <2>3, <3>1
  <2> QED BY <2>1, <2>2, <2>3
<1>4. ASSUME NEW c \in Console, \/ Find(c) \/ LookUp(c) \/ Record(c) \/ RecordFails(c) \/ GetArea(c)
                                \/ Failed(c) \/ FetchReads(c) \/ FetchLands(c) \/ FetchFails(c)
      PROVE  joined' = joined
  BY <1>4 DEF Find, LookUp, Record, RecordFails, GetArea, Failed, FetchReads, FetchLands,
              FetchFails, Unchanged, page
<1>5. ASSUME NEW c \in Console, NEW b \in Area, Select(c, b) PROVE joined' = joined
  BY <1>5 DEF Select
<1>6. ASSUME NEW c \in Console, NEW n \in Name, NEW t \in Category, Type(c, n, t)
      PROVE joined' = joined
  BY <1>6 DEF Type
<1>7. ASSUME NEW b \in Area, NEW p \in Path, RunStarts(b, p) PROVE joined' = joined
  BY <1>7 DEF RunStarts, page
<1>8. CASE UNCHANGED vars BY <1>8 DEF vars, page
<1> QED BY <1>1, <1>2, <1>3, <1>4, <1>5, <1>6, <1>7, <1>8 DEF Next

(* What a screen has still to land, or has landed, is as new as its own    *)
(* changes.                                                                *)
LEMMA OwnStep == TypeInv /\ OwnInv /\ [Next]_vars => OwnInv'
<1> SUFFICES ASSUME TypeInv, OwnInv, [Next]_vars, NEW c \in Console, NEW a \in Area
             PROVE  /\ own'[c][a] <= version'[a]
                    /\ request'[c].area = a => request'[c].version <= version'[a]
                    /\ fetch'[c].is = "read" /\ <<c, a>> \notin joined' =>
                         fetch'[c].views[a].version >= own'[c][a]
                    /\ fetch'[c].is = "none" /\ c \notin unsure' /\ <<c, a>> \notin joined' =>
                         list'[c][a].version >= own'[c][a]
  BY DEF OwnInv
<1>0. version[a] \in Nat /\ version'[a] \in Nat /\ version[a] <= version'[a]
  BY Grows DEF Grown
<1>1. /\ own[c] \in [Area -> Nat] /\ own[c][a] \in Nat /\ list[c][a].version \in Nat
      /\ fetch[c].views[a].version \in Nat /\ request[c].version \in Nat
  BY DEF TypeInv, TypeOK, Lists, View, Fetch, Req
<1>2. /\ own[c][a] <= version[a]
      /\ request[c].area = a => request[c].version <= version[a]
      /\ fetch[c].is = "read" /\ <<c, a>> \notin joined => fetch[c].views[a].version >= own[c][a]
      /\ fetch[c].is = "none" /\ c \notin unsure /\ <<c, a>> \notin joined =>
           list[c][a].version >= own[c][a]
  BY DEF OwnInv
<1>3. own'[c][a] <= version'[a]
  <2>1. own'[c][a] = own[c][a] \/ (request[c].area = a /\ own'[c][a] = request[c].version)
    BY <1>1, Owns
  <2> QED BY <1>0, <1>1, <1>2, <2>1
<1>4. request'[c].area = a => request'[c].version <= version'[a]
  <2>1. None # a BY NoneAssumption
  <2> QED BY <1>0, <1>1, <1>2, <2>1, Requests DEF Advanced, Pressed, Idle
<1>5. ASSUME fetch'[c].is = "read", <<c, a>> \notin joined'
      PROVE  fetch'[c].views[a].version >= own'[c][a]
  <2>1. <<c, a>> \notin joined BY <1>5, Joined
  <2>2. Snapshot(a).version = version[a] BY DEF Snapshot
  <2>3. CASE own'[c] = own[c] BY <1>0, <1>1, <1>2, <1>5, <2>1, <2>2, <2>3, Showing
  <2>4. CASE /\ fetch'[c] = fetch[c] /\ fetch[c].is = "read" /\ request[c].area \in Area
             /\ (\/ <<c, request[c].area>> \in joined'
                 \/ ~(fetch[c].views[request[c].area].version < request[c].version))
             /\ own'[c] = [own[c] EXCEPT ![request[c].area] = request[c].version]
    <3>1. CASE request[c].area = a BY <1>1, <1>5, <2>4, <3>1
    <3>2. CASE request[c].area # a BY <1>1, <1>2, <2>1, <2>4, <3>2
    <3> QED BY <3>1, <3>2
  <2> QED BY <1>5, <2>3, <2>4, Owns
<1>6. ASSUME fetch'[c].is = "none", c \notin unsure', <<c, a>> \notin joined'
      PROVE  list'[c][a].version >= own'[c][a]
  <2>0. <<c, a>> \notin joined BY <1>6, Joined
  <2>1. own'[c] = own[c] /\ ~Answered(c) BY <1>6, Owns
  <2>2. CASE FetchLands(c)
    <3>1. fetch[c].is = "read" /\ list'[c] = fetch[c].views
      BY <2>2 DEF FetchLands, Display, TypeInv, TypeOK
    <3> QED BY <1>1, <1>2, <2>0, <2>1, <3>1
  <2>3. CASE ~FetchLands(c)
    <3>1. list'[c] = list[c] /\ fetch'[c] = fetch[c] BY <1>6, <2>1, <2>3, Showing
    <3>2. c \notin unsure BY <1>6, <2>3, Unsure
    <3> QED BY <1>1, <1>2, <1>6, <2>0, <2>1, <3>1, <3>2
  <2> QED BY <2>2, <2>3
<1> QED BY <1>3, <1>4, <1>5, <1>6

-----------------------------------------------------------------------------
\* The trail

LEMMA NowTyped ==
  ASSUME TypeInv, NEW a \in Area
  PROVE  /\ Exists(a) => Now(a) \in Entry /\ Now(a) # None
         /\ ~Exists(a) => Now(a) = None
<1>1. areas[a] \in Rec \cup {None} BY DEF TypeInv, TypeOK
<1>2. Exists(a) => Now(a) \in Entry BY <1>1 DEF Exists, Now, Rec, Entry
<1> QED BY <1>2, InitialAssumption DEF Now

LEMMA TrailInit == Init => TrailInv
BY DEF Init, TrailInv, Now, Exists, Linked, Recording, Is, Idle

(* What a statement does to the mapping, its record will say.              *)
LEMMA StatementReplayed ==
  ASSUME TypeInv, TypeInv', NEW c \in Console, NEW a \in Area, NEW rec \in Rec \cup {None},
         Is(c, "change"), Commit(c, a, rec), Changed(c, a, rec), told' = told, told[a] = Now(a)
  PROVE  Replayed(request[c])' = Now(a)'
<1>0. Committed(c, a, rec) BY Commits
<1>1. /\ request'[c].area = a /\ Kept(c) /\ areas'[a] = rec
  BY <1>0 DEF Committed, TypeInv, TypeOK, Kept, Req
<1>2. /\ areas[a] \in Rec \cup {None} /\ told[a] \in Entry \cup {None}
      /\ serial[a] \in [Item -> Nat]
  BY DEF TypeInv, TypeOK
<1>3. rec # None => Now(a)' = [name |-> rec.name, category |-> rec.category,
                               items |-> {i \in Item : rec.link[i] # 0}]
  BY <1>1 DEF Now, Exists, Linked
<1>4. CASE request[c].kind = "create"
  <2>1. rec = [name |-> request[c].name, category |-> request[c].category,
               link |-> [i \in Item |-> 0]]
    BY <1>4 DEF Changed
  <2>2. rec # None
    <3>1. request[c].name \in Name /\ request[c].category \in Category
      BY <1>4 DEF TypeInv, Shaped, Is
    <3> QED BY <2>1, <3>1, InitialAssumption DEF Rec
  <2>3. {i \in Item : rec.link[i] # 0} = {} BY <2>1
  <2>4. Replayed(request[c])' = [name |-> request[c].name, category |-> request[c].category,
                                 items |-> {}]
    BY <1>1, <1>4 DEF Replayed, Kept
  <2> QED BY <1>3, <2>1, <2>2, <2>3, <2>4
<1>5. CASE request[c].kind = "delete"
  BY <1>1, <1>5 DEF Changed, Replayed, Kept, Now, Exists
<1>6. CASE request[c].kind \in {"update", "link", "unlink"}
  <2>1. Exists(a) /\ areas[a] \in Rec BY <1>2, <1>6 DEF Changed, Exists
  <2>2. told[a] = [name |-> areas[a].name, category |-> areas[a].category,
                   items |-> {i \in Item : areas[a].link[i] # 0}]
    BY <2>1 DEF Now, Linked
  <2>3. told[a] # None BY <2>1, NowTyped
  <2>4. Replayed(request[c])' = Amended(told[a], request[c])'
    BY <1>1, <1>6, <2>3 DEF Replayed, Kept
  <2>5. CASE request[c].kind = "update"
    <3>1. rec = [areas[a] EXCEPT !.name = request[c].name, !.category = request[c].category]
      BY <2>5 DEF Changed
    <3>2. /\ rec.name = request[c].name /\ rec.category = request[c].category
          /\ rec.link = areas[a].link
      BY <2>1, <3>1 DEF Rec
    <3>3. rec # None BY <2>1, <3>1, <2>5, InitialAssumption DEF Rec, TypeInv, Shaped, Is
    <3>4. Amended(told[a], request[c])' = [name |-> request[c].name, category |-> request[c].category,
                                           items |-> {i \in Item : areas[a].link[i] # 0}]
      <4>1. Amended(told[a], request[c])' =
              [told[a] EXCEPT !.name = request[c].name, !.category = request[c].category]
        BY <1>1, <2>5 DEF Amended, Kept
      <4>2. PICK s : /\ s = {i \in Item : areas[a].link[i] # 0}
                     /\ told[a] = [name |-> areas[a].name, category |-> areas[a].category, items |-> s]
        BY <2>2
      <4>3. request[c].name \in Name /\ request[c].category \in Category
        BY <2>5 DEF TypeInv, Shaped, Is
      <4>4. PICK t, e : t = told[a] /\ e = [t EXCEPT !.name = request[c].name,
                                                      !.category = request[c].category]
        OBVIOUS
      <4>5. t \in Entry BY <1>2, <2>3, <4>4
      <4>6. /\ e \in Entry /\ e.name = request[c].name /\ e.category = request[c].category
            /\ e.items = t.items
        BY <4>3, <4>4, <4>5 DEF Entry
      <4>7. t.items = s BY <4>2, <4>4
      <4>8. e = [name |-> request[c].name, category |-> request[c].category, items |-> s]
        BY <4>6, <4>7 DEF Entry
      <4> QED BY <4>1, <4>2, <4>4, <4>8
    <3> QED BY <1>3, <2>4, <3>2, <3>3, <3>4
  <2>6. CASE request[c].kind = "link"
    <3>1. /\ rec = [areas[a] EXCEPT !.link[request[c].item] = serial[a][request[c].item] + 1]
          /\ request[c].item \in Item
      BY <2>6 DEF Changed
    <3>2. /\ rec.name = areas[a].name /\ rec.category = areas[a].category
          /\ \A i \in Item : rec.link[i] = IF i = request[c].item THEN serial[a][i] + 1
                                           ELSE areas[a].link[i]
      BY <2>1, <3>1 DEF Rec
    <3>3. \A i \in Item : serial[a][i] + 1 # 0 BY <1>2
    <3>4. {i \in Item : rec.link[i] # 0} = {i \in Item : areas[a].link[i] # 0} \cup {request[c].item}
      BY <3>1, <3>2, <3>3
    <3>5. rec # None
      <4>1. rec \in Rec BY <1>2, <2>1, <3>1 DEF Rec
      <4> QED BY <4>1, InitialAssumption
    <3>6. Amended(told[a], request[c])' =
            [name |-> areas[a].name, category |-> areas[a].category,
             items |-> {i \in Item : areas[a].link[i] # 0} \cup {request[c].item}]
      BY <1>1, <2>2, <2>6 DEF Amended, Kept
    <3> QED BY <1>3, <2>4, <3>2, <3>4, <3>5, <3>6
  <2>7. CASE request[c].kind = "unlink"
    <3>1. rec = [areas[a] EXCEPT !.link[request[c].item] = 0] /\ request[c].item \in Item
      BY <2>7 DEF Changed
    <3>2. /\ rec.name = areas[a].name /\ rec.category = areas[a].category
          /\ \A i \in Item : rec.link[i] = IF i = request[c].item THEN 0 ELSE areas[a].link[i]
      BY <2>1, <3>1 DEF Rec
    <3>3. {i \in Item : rec.link[i] # 0} = {i \in Item : areas[a].link[i] # 0} \ {request[c].item}
      BY <3>1, <3>2
    <3>4. rec # None
      <4>1. rec \in Rec BY <2>1, <3>1 DEF Rec
      <4> QED BY <4>1, InitialAssumption
    <3>5. Amended(told[a], request[c])' =
            [name |-> areas[a].name, category |-> areas[a].category,
             items |-> {i \in Item : areas[a].link[i] # 0} \ {request[c].item}]
      BY <1>1, <2>2, <2>7 DEF Amended, Kept
    <3> QED BY <1>3, <2>4, <3>2, <3>3, <3>4, <3>5
  <2> QED BY <1>6, <2>5, <2>6, <2>7
<1>7. request[c].kind \in Kind BY DEF TypeInv, Shaped, Is
<1> QED BY <1>4, <1>5, <1>6, <1>7 DEF Kind

(* Recording what is there already comes to the same before another record *)
(* as after it.                                                            *)
LEMMA FoundReplayed ==
  ASSUME TypeInv, NEW c \in Console, NEW a \in Area, request[c].area = a, Found(c),
         request[c].item \in Item
  PROVE  /\ told[a] = Now(a) => Replayed(request[c]) = Now(a)
         /\ told[a] # None => Replayed(request[c]) = [told[a] EXCEPT !.items = @ \cup {request[c].item}]
         /\ told[a] = None => Replayed(request[c]) = None
<1>1. told[a] \in Entry \cup {None} BY DEF TypeInv, TypeOK
<1>2. told[a] # None => Replayed(request[c]) = [told[a] EXCEPT !.items = @ \cup {request[c].item}]
  BY DEF Replayed, Amended, Found
<1>3. told[a] = None => Replayed(request[c]) = None BY DEF Replayed, Found
<1>4. ASSUME told[a] = Now(a) PROVE Replayed(request[c]) = Now(a)
  <2>1. Exists(a) /\ request[c].item \in {i \in Item : Linked(a, i)} BY DEF Found, Linked
  <2>2. Now(a) = [name |-> areas[a].name, category |-> areas[a].category,
                  items |-> {i \in Item : Linked(a, i)}]
    BY <2>1 DEF Now
  <2>3. told[a] # None BY <1>4, <2>1, NowTyped
  <2>4. {i \in Item : Linked(a, i)} \cup {request[c].item} = {i \in Item : Linked(a, i)} BY <2>1
  <2>5. PICK s : s = {i \in Item : Linked(a, i)} OBVIOUS
  <2>6. [told[a] EXCEPT !.items = @ \cup {request[c].item}] = told[a]
    BY <1>4, <2>2, <2>4, <2>5
  <2> QED BY <1>2, <1>4, <2>3, <2>6
<1> QED BY <1>2, <1>3, <1>4

(* Two records of one area, of which one says what is there already, come  *)
(* to the same in either order.                                            *)
LEMMA FoundCommutes ==
  ASSUME TypeInv, NEW c \in Console, NEW e \in Console, NEW a \in Area,
         request[c].area = a, request[e].area = a, Found(c), request[c].item \in Item,
         request[e].kind \in Kind, Replayed(request[e]) = Now(a),
         request' = [request EXCEPT ![c] = request'[c]], e # c,
         told' = [told EXCEPT ![a] = Replayed(request[c])]
  PROVE  Replayed(request[e])' = Now(a)
<1>0. /\ request'[e] = request[e] /\ told'[a] = Replayed(request[c])
      /\ told[a] \in Entry \cup {None}
  BY DEF TypeInv, TypeOK
<1>1. Exists(a) /\ request[c].item \in {i \in Item : Linked(a, i)} BY DEF Found, Linked
<1>2. PICK s : /\ s = {i \in Item : Linked(a, i)}
               /\ Now(a) = [name |-> areas[a].name, category |-> areas[a].category, items |-> s]
  BY <1>1 DEF Now
<1>3. request[c].item \in s BY <1>1, <1>2
<1>4. Now(a) # None /\ Now(a) \in Entry BY <1>1, NowTyped
<1>5. CASE request[e].kind = "create"
  BY <1>0, <1>5 DEF Replayed
<1>6. request[e].kind # "delete" BY <1>4 DEF Replayed
<1>7. CASE request[e].kind \in {"update", "link", "unlink"}
  <2>1. told[a] \in Entry /\ Amended(told[a], request[e]) = Now(a)
    <3>1. told[a] # None BY <1>4, <1>7 DEF Replayed
    <3> QED BY <1>0, <1>7, <3>1 DEF Replayed
  <2>2. PICK t : t = told[a] OBVIOUS
  <2>3. told'[a] = [t EXCEPT !.items = t.items \cup {request[c].item}]
    <3>1. told[a] # None BY <2>1, InitialAssumption
    <3> QED BY <1>0, <2>2, <3>1, FoundReplayed
  <2>4. PICK u : u = told'[a] OBVIOUS
  <2>5. /\ u \in Entry /\ u.name = t.name /\ u.category = t.category
        /\ u.items = t.items \cup {request[c].item}
    BY <2>1, <2>2, <2>3, <2>4 DEF Entry
  <2>6. u # None BY <2>5, InitialAssumption
  <2>7. Replayed(request[e])' = Amended(u, request[e])
    BY <1>0, <1>7, <2>4, <2>6 DEF Replayed, Amended
  <2>8. CASE request[e].kind = "update"
    <3>1. /\ Amended(t, request[e]) = [t EXCEPT !.name = request[e].name, !.category = request[e].category]
          /\ Amended(u, request[e]) = [u EXCEPT !.name = request[e].name, !.category = request[e].category]
      BY <2>8 DEF Amended
    <3>2. t.items = s
      <4>1. PICK x : x = [t EXCEPT !.name = request[e].name, !.category = request[e].category]
        OBVIOUS
      <4>2. x.items = t.items BY <2>1, <2>2, <4>1 DEF Entry
      <4>3. x = Now(a) BY <2>1, <2>2, <3>1, <4>1
      <4>4. x.items = s BY <1>2, <4>3
      <4> QED BY <4>2, <4>4
    <3>3. u.items = t.items BY <1>3, <2>5, <3>2
    <3>4. u = t BY <2>1, <2>2, <2>5, <3>3 DEF Entry
    <3> QED BY <2>1, <2>2, <2>7, <3>4
  <2>9. CASE request[e].kind = "link"
    <3>1. /\ Amended(t, request[e]) = [t EXCEPT !.items = t.items \cup {request[e].item}]
          /\ Amended(u, request[e]) = [u EXCEPT !.items = u.items \cup {request[e].item}]
      BY <2>9 DEF Amended
    <3>2. t.items \cup {request[e].item} = s BY <1>2, <2>1, <2>2, <3>1 DEF Entry
    <3>3. u.items \cup {request[e].item} = s BY <1>3, <2>5, <3>2
    <3>4. PICK x : x = Amended(u, request[e]) OBVIOUS
    <3>5. x = [u EXCEPT !.items = s] /\ Now(a) = [t EXCEPT !.items = s]
      BY <2>1, <2>2, <3>1, <3>2, <3>3, <3>4
    <3>6. x = Now(a) BY <2>1, <2>2, <2>5, <3>5 DEF Entry
    <3> QED BY <2>7, <3>4, <3>6
  <2>10. CASE request[e].kind = "unlink"
    <3>1. /\ Amended(t, request[e]) = [t EXCEPT !.items = t.items \ {request[e].item}]
          /\ Amended(u, request[e]) = [u EXCEPT !.items = u.items \ {request[e].item}]
      BY <2>10 DEF Amended
    <3>2. t.items \ {request[e].item} = s BY <1>2, <2>1, <2>2, <3>1 DEF Entry
    <3>3. u.items \ {request[e].item} = s BY <1>3, <2>5, <3>2
    <3>4. PICK x : x = Amended(u, request[e]) OBVIOUS
    <3>5. x = [u EXCEPT !.items = s] /\ Now(a) = [t EXCEPT !.items = s]
      BY <2>1, <2>2, <3>1, <3>2, <3>3, <3>4
    <3>6. x = Now(a) BY <2>1, <2>2, <2>5, <3>5 DEF Entry
    <3> QED BY <2>7, <3>4, <3>6
  <2> QED BY <1>7, <2>8, <2>9, <2>10
<1> QED BY <1>5, <1>6, <1>7 DEF Kind

Told(a) == told[a] = Now(a) /\ \A c \in Recording(a) : Found(c)
ToldWith(a, c) == /\ c \in Recording(a) /\ Replayed(request[c]) = Now(a)
                  /\ \A d \in Recording(a) \ {c} : Found(d)
LEMMA TrailParts ==
  TrailInv <=> \A a \in Area \ crossed : Told(a) \/ \E c \in Console : ToldWith(a, c)
BY DEF TrailInv, Told, ToldWith, Recording

(* Nothing an area's trail depends on has changed.                         *)
LEMMA TrailStays ==
  ASSUME NEW a \in Area, areas'[a] = areas[a], told'[a] = told[a],
         \A d \in Console : \/ request'[d] = request[d]
                            \/ d \notin Recording(a) /\ (d \notin Recording(a))'
                            \/ (d \in Recording(a) /\ Found(d))' /\ d \notin Recording(a),
         Told(a) \/ \E c \in Console : ToldWith(a, c)
  PROVE  Told(a)' \/ \E c \in Console : ToldWith(a, c)'
<1>1. Now(a)' = Now(a) BY DEF Now, Exists, Linked
<1>2. ASSUME NEW d \in Console, d \in Recording(a), Found(d) PROVE Found(d)'
  <2>1. request'[d] = request[d] /\ request[d].area = a BY <1>2 DEF Recording
  <2> QED BY <1>2, <2>1 DEF Found, Linked, Exists
<1>3. ASSUME NEW d \in Console, (d \in Recording(a))', d \notin Recording(a) PROVE Found(d)'
  BY <1>3 DEF Recording, Is
<1>4. CASE Told(a)
  <2>1. told'[a] = Now(a)' BY <1>1, <1>4 DEF Told
  <2>2. \A d \in Console : (d \in Recording(a))' => Found(d)' BY <1>2, <1>3, <1>4 DEF Told
  <2> QED BY <2>1, <2>2 DEF Told, Recording
<1>5. ASSUME NEW c \in Console, ToldWith(a, c) PROVE ToldWith(a, c)'
  <2>1. c \in Recording(a) /\ Replayed(request[c]) = Now(a) BY <1>5 DEF ToldWith
  <2>2. request'[c] = request[c] /\ request[c].area = a BY <2>1 DEF Recording
  <2>3. (c \in Recording(a))' BY <2>1, <2>2 DEF Recording, Is
  <2>4. Replayed(request[c])' = Now(a)' BY <1>1, <2>1, <2>2 DEF Replayed, Amended
  <2>5. \A d \in Console \ {c} : (d \in Recording(a))' => Found(d)'
    BY <1>2, <1>3, <1>5 DEF ToldWith
  <2> QED BY <2>3, <2>4, <2>5 DEF ToldWith, Recording
<1> QED BY <1>4, <1>5

LEMMA TrailStep == TypeInv /\ TypeInv' /\ TrailInv /\ [Next]_vars => TrailInv'
<1> SUFFICES ASSUME TypeInv, TypeInv', TrailInv, [Next]_vars, NEW a \in Area, a \notin crossed'
             PROVE  Told(a)' \/ \E c \in Console : ToldWith(a, c)'
  BY DEF TrailInv, Told, ToldWith, Recording
<1>0. request \in [Console -> Req] /\ told \in [Area -> Entry \cup {None}]
  BY DEF TypeInv, TypeOK
<1> DEFINE Goal == Told(a)' \/ \E c \in Console : ToldWith(a, c)'
           Held == Told(a) \/ \E c \in Console : ToldWith(a, c)
           Quiet(c) == /\ request[c].at # "record" /\ request'[c].at # "record"
                       /\ \A d \in Console \ {c} : request'[d] = request[d]
<1> HIDE DEF Goal, Held
<1>a. a \notin crossed => Held BY TrailParts DEF Held
<1>1. ASSUME areas' = areas, told' = told, crossed' = crossed, NEW c \in Console, Quiet(c)
      PROVE  Goal
  BY <1>a, <1>1, TrailStays DEF Held, Goal, Recording, Is
<1>2. ASSUME NEW c \in Console, Find(c) PROVE Goal
  <2>1. Quiet(c) BY <1>2, Going DEF Find, Is, Refused, Asking
  <2> QED BY <1>1, <1>2, <2>1 DEF Find, Unchanged, table
<1>3. ASSUME NEW c \in Console, LookUp(c) PROVE Goal
  <2>1. request[c].at = "look" /\ UNCHANGED <<areas, told, crossed>>
    BY <1>3 DEF LookUp, Is, Unchanged, table
  <2>2. CASE Go(c, "change")
    <3>1. Quiet(c) BY <2>1, <2>2, Going DEF Asking
    <3> QED BY <1>1, <2>1, <3>1
  <2>3. CASE /\ Linked(request[c].area, request[c].item)
             /\ Become(c, [request[c] EXCEPT !.at = "record", !.version = version[request[c].area]])
    <3>1. request[c].kind = "link" BY <2>1 DEF TypeInv, Shaped
    <3>2. /\ request'[c].at = "record" /\ request'[c].kind = "link"
          /\ request'[c].area = request[c].area /\ request'[c].item = request[c].item
          /\ \A d \in Console \ {c} : request'[d] = request[d]
      BY <1>0, <2>3, <3>1 DEF Become, Req
    <3>3. Found(c)' BY <2>1, <2>3, <3>2 DEF Found, Linked, Exists
    <3>4. c \notin Recording(a) BY <2>1 DEF Recording, Is
    <3>5. (c \notin Recording(a))' \/ (c \in Recording(a) /\ Found(c))'
      BY <3>3
    <3> QED BY <1>a, <2>1, <3>2, <3>4, <3>5, TrailStays DEF Held, Goal
  <2> QED BY <1>3, <2>2, <2>3 DEF LookUp
<1>4. ASSUME NEW c \in Console, Change(c) PROVE Goal
  <2>1. Is(c, "change") /\ told' = told BY <1>4, Changes DEF Statement
  <2>2. CASE Refused(c) /\ Stays
    <3>1. Quiet(c) BY <2>1, <2>2, Going DEF Is, Refused, Asking
    <3> QED BY <1>1, <2>1, <2>2, <3>1 DEF Stays, table
  <2>3. ASSUME NEW b \in Area, NEW rec \in Rec \cup {None}, Commit(c, b, rec), Changed(c, b, rec)
        PROVE  Goal
    <3>1. Committed(c, b, rec) BY <2>1, <2>3, Commits
    <3>2. /\ \A d \in Area \ {b} : areas'[d] = areas[d]
          /\ request'[c].at = "record" /\ request'[c].area = b
          /\ \A d \in Console \ {c} : request'[d] = request[d]
      BY <1>0, <3>1 DEF Committed, Req
    <3>3. Held
      <4>1. a \notin crossed BY <3>1 DEF Committed
      <4> QED BY <1>a, <4>1
    <3>4. c \notin Recording(a) BY <2>1 DEF Recording, Is
    <3>5. CASE a # b
      <4>1. (c \notin Recording(a))' BY <3>2, <3>5 DEF Recording
      <4>2. areas'[a] = areas[a] BY <3>2, <3>5
      <4> QED BY <2>1, <3>2, <3>3, <3>4, <4>1, <4>2, TrailStays DEF Held, Goal
    <3>6. CASE a = b
      <4>1. \A d \in Console \ {c} : ~(request[d].at = "record" /\ request[d].area = a)
        BY <3>1, <3>6 DEF Committed
      <4>2. Recording(a) = {} BY <3>4, <4>1 DEF Recording, Is
      <4>3. told[a] = Now(a) BY <3>3, <4>2 DEF Held, Told, ToldWith
      <4>4. Replayed(request[c])' = Now(a)' BY <2>1, <2>3, <3>6, <4>3, StatementReplayed
      <4>5. (c \in Recording(a))' BY <3>2, <3>6 DEF Recording, Is
      <4>6. \A d \in Console \ {c} : (d \notin Recording(a))' BY <3>2, <4>1 DEF Recording, Is
      <4> QED BY <4>4, <4>5, <4>6 DEF Goal, ToldWith, Recording
    <3> QED BY <3>5, <3>6
  <2> QED BY <1>4, <2>2, <2>3, Changes
<1>5. ASSUME NEW c \in Console, Record(c) PROVE Goal
  <2>1. /\ request[c].at = "record" /\ request[c].area \in Area /\ request[c].kind \in Kind
        /\ UNCHANGED <<areas, crossed>>
        /\ told' = [told EXCEPT ![request[c].area] = Replayed(request[c])]
    BY <1>5, ReplayedTyped DEF Record, Is, table, TypeInv, Shaped
  <2>2. /\ request'[c].at # "record" /\ \A d \in Console \ {c} : request'[d] = request[d]
        /\ request' = [request EXCEPT ![c] = request'[c]]
    <3>1. PICK where \in {"done", "get"} : Go(c, where) BY <1>5 DEF Record
    <3>2. request'[c].at = where /\ \A d \in Console \ {c} : request'[d] = request[d]
      BY <3>1, Going DEF Asking
    <3>3. request' = [request EXCEPT ![c] = request'[c]] BY <1>0, <3>1 DEF Go, Become
    <3> QED BY <3>1, <3>2, <3>3
  <2>3. (c \notin Recording(a))' BY <2>2 DEF Recording, Is
  <2>4. CASE a # request[c].area
    <3>1. c \notin Recording(a) BY <2>4 DEF Recording
    <3>2. told'[a] = told[a] BY <1>0, <2>1, <2>4
    <3> QED BY <1>a, <2>1, <2>2, <2>3, <3>1, <3>2, TrailStays DEF Held, Goal
  <2>5. CASE a = request[c].area
    <3>1. Held /\ c \in Recording(a) BY <1>a, <2>1, <2>5 DEF Recording, Is
    <3>2. Now(a)' = Now(a) BY <2>1 DEF Now, Exists, Linked
    <3>3. told'[a] = Replayed(request[c]) BY <1>0, <2>1, <2>5
    <3>4. ASSUME NEW d \in Console \ {c}, d \in Recording(a) => Found(d)
          PROVE  (d \in Recording(a))' => Found(d)'
      <4>1. request'[d] = request[d] BY <2>2
      <4> QED BY <2>1, <3>4, <4>1 DEF Recording, Found, Linked, Exists, Is
    <3>5. Found(c) => request[c].item \in Item BY <2>1 DEF Found, TypeInv, Shaped
    <3>6. CASE Told(a)
      <4>1. told[a] = Now(a) /\ Found(c) BY <3>1, <3>6 DEF Told
      <4>2. Replayed(request[c]) = Now(a) BY <2>5, <3>5, <4>1, FoundReplayed
      <4>3. \A d \in Console \ {c} : (d \in Recording(a))' => Found(d)' BY <3>4, <3>6 DEF Told
      <4> QED BY <2>3, <3>2, <3>3, <4>2, <4>3 DEF Goal, Told, Recording
    <3>7. CASE ToldWith(a, c)
      <4>1. Replayed(request[c]) = Now(a) BY <3>7 DEF ToldWith
      <4>2. \A d \in Console \ {c} : (d \in Recording(a))' => Found(d)' BY <3>4, <3>7 DEF ToldWith
      <4> QED BY <2>3, <3>2, <3>3, <4>1, <4>2 DEF Goal, Told, Recording
    <3>8. ASSUME NEW e \in Console, e # c, ToldWith(a, e) PROVE Goal
      <4>1. /\ e \in Recording(a) /\ Replayed(request[e]) = Now(a) /\ Found(c)
            /\ request[e].at = "record" /\ request[e].area = a
        BY <3>1, <3>8 DEF ToldWith, Recording, Is
      <4>2. request[e].kind \in Kind BY <4>1 DEF TypeInv, Shaped
      <4>3. told' = [told EXCEPT ![a] = Replayed(request[c])] BY <2>1, <2>5
      <4>4. Replayed(request[e])' = Now(a)
        BY <2>2, <2>5, <3>5, <3>8, <4>1, <4>2, <4>3, FoundCommutes
      <4>5. (e \in Recording(a))' BY <2>2, <3>8, <4>1 DEF Recording, Is
      <4>6. \A d \in Console \ {c, e} : (d \in Recording(a))' => Found(d)'
        BY <3>4, <3>8 DEF ToldWith
      <4>7. ToldWith(a, e)' BY <2>3, <3>2, <4>4, <4>5, <4>6 DEF ToldWith, Recording
      <4> QED BY <4>7 DEF Goal
    <3> QED BY <3>1, <3>6, <3>7, <3>8 DEF Held
  <2> QED BY <2>4, <2>5
<1>6. ASSUME NEW c \in Console, RecordFails(c) PROVE Goal
  <2>1. /\ request[c].at = "record" /\ UNCHANGED <<areas, told>>
        /\ crossed' = crossed \cup {request[c].area} /\ Go(c, "refused")
    BY <1>6 DEF RecordFails, Is, table, Refused
  <2>2. a # request[c].area /\ a \notin crossed BY <2>1
  <2>3. request'[c].at = "refused" /\ \A d \in Console \ {c} : request'[d] = request[d]
    BY <2>1, Going DEF Asking
  <2>4. c \notin Recording(a) /\ (c \notin Recording(a))' BY <2>2, <2>3 DEF Recording, Is
  <2> QED BY <1>a, <2>1, <2>2, <2>3, <2>4, TrailStays DEF Held, Goal
<1>7. ASSUME NEW c \in Console, GetArea(c) PROVE Goal
  <2>1. request[c].at = "get" /\ UNCHANGED <<areas, told, crossed>>
    BY <1>7 DEF GetArea, Is, Unchanged, table
  <2>2. Quiet(c)
    <3>1. CASE Go(c, "refused") BY <2>1, <3>1, Going DEF Asking
    <3>2. CASE Become(c, [request[c] EXCEPT !.at = "done", !.view = Snapshot(request[c].area)])
      BY <1>0, <2>1, <3>2 DEF Become, Req
    <3> QED BY <1>7, <3>1, <3>2 DEF GetArea, Refused
  <2> QED BY <1>1, <2>1, <2>2
<1>8. ASSUME NEW c \in Console, Press(c) PROVE Goal
  <2>1. PICK r \in Req : /\ Is(c, "idle") /\ Become(c, r) /\ r.at = "find"
                         /\ UNCHANGED <<table, told, crossed>>
    BY <1>8, Clicks
  <2>2. Quiet(c) BY <1>0, <2>1 DEF Become, Is
  <2> QED BY <1>1, <2>1, <2>2 DEF table
<1>9. ASSUME NEW c \in Console, Answered(c) \/ Failed(c) PROVE Goal
  <2>1. /\ request[c].at \in {"done", "refused"} /\ Become(c, Idle)
        /\ UNCHANGED <<areas, told, crossed>>
    BY <1>9 DEF Answered, Failed, Is, Unchanged, table
  <2>2. Quiet(c) BY <1>0, <2>1 DEF Become, Idle
  <2> QED BY <1>1, <2>1, <2>2
<1>10. ASSUME UNCHANGED <<areas, told, request, crossed>> PROVE Goal
  BY <1>a, <1>10, TrailStays DEF Held, Goal
<1>11. ASSUME NEW c \in Console, FetchReads(c) \/ FetchLands(c) \/ FetchFails(c) PROVE Goal
  BY <1>10, <1>11 DEF FetchReads, FetchLands, FetchFails, table
<1>12. ASSUME NEW c \in Console, NEW b \in Area, Select(c, b) PROVE Goal
  BY <1>10, <1>12 DEF Select, table
<1>13. ASSUME NEW c \in Console, NEW n \in Name, NEW t \in Category, Type(c, n, t) PROVE Goal
  BY <1>10, <1>13 DEF Type, table
<1>14. ASSUME NEW b \in Area, NEW p \in Path, RunStarts(b, p) PROVE Goal
  BY <1>10, <1>14 DEF RunStarts, table
<1>15. ASSUME UNCHANGED vars PROVE Goal BY <1>10, <1>15 DEF vars, table
<1>16. Goal BY <1>2, <1>3, <1>4, <1>5, <1>6, <1>7, <1>8, <1>9, <1>11, <1>12, <1>13, <1>14, <1>15
            DEF Next
<1> QED BY <1>16 DEF Goal

-----------------------------------------------------------------------------
\* The theorems

(* What the service and the screens hold is what it should be.             *)
THEOREM TypeCorrect == Spec => []TypeOK
<1>1. TypeInv => TypeOK BY DEF TypeInv
<1> QED BY <1>1, TypeInit, TypeStep, PTL DEF Spec

(* The audit trail, replayed, gives the mapping that is in force           *)
(* (record in areaService.ts, after every statement).                      *)
THEOREM TrailTold == Spec => []TrailTellsTheMapping
<1>1. TrailInv => TrailTellsTheMapping
  BY DEF TrailInv, TrailTellsTheMapping, Recording, Now
<1> QED BY <1>1, TypeInit, TypeStep, TrailInit, TrailStep, PTL DEF Spec

(* A save writes what was typed, and otherwise what its area had been      *)
(* (the key of AreaDetailPanel).                                           *)
THEOREM SavesMeant == Spec => SaveWritesThisArea
<1>1. TypeInv /\ SeenInv /\ [Next]_vars =>
        [\A c \in Console :
           UpdateArea(c) /\ areas' # areas =>
             LET r == request[c] IN
             /\ "name" \in r.typed \/ r.name \in had[r.area].name
             /\ "category" \in r.typed \/ r.category \in had[r.area].category]_vars
  BY DEF SeenInv, Meant, UpdateArea, Is
<1> QED BY <1>1, TypeInit, TypeStep, SeenInit, SeenStep, PTL DEF Spec, SaveWritesThisArea

(* A screen at rest shows its own changes (onSuccess and refresh).         *)
THEOREM OwnShown == Spec => []OwnChangeIsShown
<1>1. OwnInv => OwnChangeIsShown BY DEF OwnInv, OwnChangeIsShown
<1> QED BY <1>1, TypeInit, TypeStep, OwnInit, OwnStep, PTL DEF Spec

================================================================================
