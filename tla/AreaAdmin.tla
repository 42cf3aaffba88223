------------------------------- MODULE AreaAdmin -------------------------------
(***************************************************************************)
(* The root account's screen and what is behind it (FA-11): areas, the     *)
(* paths mapped onto them and the groups entitled to them.                 *)
(*                                                                         *)
(* Every change is a look at the area, a statement, an audit record and    *)
(* another look, whose answer the screen puts in its list before it asks   *)
(* for the whole list again.  Several people hold the root account, each   *)
(* with a list of another age and a form that keeps what it was opened     *)
(* with.  The sweep over the sessions that follows a change of entitlement *)
(* is the subject of Sessions, and changes nothing here.                   *)
(***************************************************************************)
EXTENDS Naturals

CONSTANTS
  Console,          \* open screens, each of somebody who has the root account
  Area,             \* the ids areas may be given, each once
  Name, Category,   \* of an area; of the fields two, that stand for all three
  Group, Path,      \* what is linked to an area: groups and script paths
  None,             \* no area
  Initial,          \* the areas there are at first
  MaxEvents         \* clicks that ask for a change, edits of a field, failures

ASSUME NoneAssumption  == None \notin Area
ASSUME GroupAssumption == Group \cap Path = {}
ASSUME BoundAssumption == MaxEvents \in Nat

VARIABLES
  areas,     \* areas, script_sources and area_entitlements; a link is a row
             \* with an id of its own, and 0 means that there is none
  serial,    \* the id each link was given last
  ran,       \* the paths that a run refers to, through its script
  told,      \* what the audit trail says, replayed
  request,   \* the change each screen has asked for
  list, fetch,    \* the list each screen shows, and the one it is asking for
  loaded,         \* the screens that have had a list
  selected, form, \* the area whose panel is open, and its settings form
  version, had,   \* history: how often an area changed, and the values it had
  own, unsure,    \* history: the versions a screen's own changes made; whether
                  \* its last refetch failed
  joined,    \* history: <<screen, area>> of a change whose refetch was the first
             \* load, and that had been read before the change
  crossed,   \* history: areas where the trail need not agree
  events     \* how much of the bound is used up

table   == <<areas, serial, version, had>>
page    == <<list, fetch, loaded, selected, form, own, unsure, joined>>
vars    == <<table, ran, told, request, page, crossed, events>>

Item   == Group \cup Path
Field  == {"name", "category"}
Rec    == [name : Name, category : Category, link : [Item -> Nat]]
View   == [area : Rec \cup {None}, version : Nat]
Unseen == [area |-> None, version |-> 0]
Lists  == [Area -> View]
Blank  == [a \in Area |-> Unseen]
Entry  == [name : Name, category : Category, items : SUBSET Item]
ASSUME InitialAssumption == /\ None \notin Rec /\ None \notin Entry
                            /\ Initial \in [Area -> Rec \cup {None}]
Form   == [area : Area, name : Name, category : Category, typed : SUBSET Field]
NoForm == [area |-> None]

Kind == {"create", "update", "delete", "link", "unlink"}
Idle == [at |-> "idle", kind |-> None, area |-> None, version |-> 0, view |-> Unseen,
         name |-> None, category |-> None, typed |-> {}, item |-> None, id |-> 0]
Asked(kind, a) == [Idle EXCEPT !.at = "find", !.kind = kind, !.area = a]

Is(c, where)    == request[c].at = where
Become(c, r)    == request' = [request EXCEPT ![c] = r]
Go(c, where)    == Become(c, [request[c] EXCEPT !.at = where])
Refused(c)      == Go(c, "refused")
Event           == events < MaxEvents /\ events' = events + 1
Exists(a)       == areas[a] # None
Taken(name, a)  == \E b \in Area \ {a} : Exists(b) /\ areas[b].name = name
Linked(a, i)    == Exists(a) /\ areas[a].link[i] # 0
InUse(a, p)     == <<a, p>> \in ran   \* and then it is never unlinked
Snapshot(a)     == [area |-> areas[a], version |-> version[a]]

(* A statement that changes an area: it is recorded next, and somebody who *)
(* has changed it as well and not recorded that yet may come after.        *)
Commit(c, a, rec) ==
  /\ areas' = [areas EXCEPT ![a] = rec]
  /\ version' = [version EXCEPT ![a] = @ + 1]
  /\ had' = IF rec = None THEN had
            ELSE [had EXCEPT ![a] = [name |-> @.name \cup {rec.name},
                                     category |-> @.category \cup {rec.category}]]
  /\ Become(c, [request[c] EXCEPT !.at = "record", !.area = a, !.version = version[a] + 1])
  /\ crossed' = IF \E d \in Console \ {c} : Is(d, "record") /\ request[d].area = a
                THEN crossed \cup {a} ELSE crossed

Unchanged == UNCHANGED <<table, ran, told, page, crossed, events>>
Statement == UNCHANGED <<ran, told, page, events>>

-----------------------------------------------------------------------------
\* The services: find the area, change it, record it, answer with it

Find(c) ==
  LET r == request[c] IN
  /\ Is(c, "find")
  /\ IF \/ r.kind = "create"
        \/ r.kind \in {"update", "delete", "link"} /\ Exists(r.area)
        \/ r.kind = "unlink" /\ Exists(r.area) /\ areas[r.area].link[r.item] = r.id
     THEN Go(c, IF r.kind = "link" /\ r.item \in Group THEN "look" ELSE "change")
     ELSE Refused(c)
  /\ Unchanged

CreateArea(c) ==
  LET r == request[c] IN
  /\ Is(c, "change") /\ r.kind = "create"
  /\ IF Taken(r.name, None) THEN Refused(c) /\ UNCHANGED <<table, crossed>>
     ELSE /\ \E a \in Area : /\ version[a] = 0
                             /\ Commit(c, a, [name |-> r.name, category |-> r.category,
                                              link |-> [i \in Item |-> 0]])
          /\ UNCHANGED serial
  /\ Statement

UpdateArea(c) ==   \* the whole form, whichever fields were edited
  LET r == request[c] IN
  /\ Is(c, "change") /\ r.kind = "update"
  /\ IF Exists(r.area) /\ ~Taken(r.name, r.area)
     THEN /\ Commit(c, r.area, [areas[r.area] EXCEPT !.name = r.name, !.category = r.category])
          /\ UNCHANGED serial
     ELSE Refused(c) /\ UNCHANGED <<table, crossed>>
  /\ Statement

DeleteArea(c) ==   \* paths and groups go with it; runs hold on to it
  LET a == request[c].area IN
  /\ Is(c, "change") /\ request[c].kind = "delete"
  /\ IF Exists(a) /\ ~\E p \in Path : InUse(a, p)
     THEN Commit(c, a, None) /\ UNCHANGED serial
     ELSE Refused(c) /\ UNCHANGED <<table, crossed>>
  /\ Statement

LookUp(c) ==       \* a group that is entitled already has what was asked for
  LET r == request[c] IN
  /\ Is(c, "look")
  /\ IF Linked(r.area, r.item)
     THEN Become(c, [r EXCEPT !.at = "record", !.version = version[r.area]])
     ELSE Go(c, "change")
  /\ Unchanged

Link(c) ==         \* addSource, addEntitlement: a unique index, and a foreign key
  LET r == request[c] IN
  /\ Is(c, "change") /\ r.kind = "link"
  /\ IF Exists(r.area) /\ ~Linked(r.area, r.item)
     THEN /\ serial' = [serial EXCEPT ![r.area][r.item] = @ + 1]
          /\ Commit(c, r.area, [areas[r.area] EXCEPT !.link[r.item] = serial[r.area][r.item] + 1])
     ELSE Refused(c) /\ UNCHANGED <<table, crossed>>
  /\ Statement

UnlinkUnasked(c) == \* a slip: whether a row went is not looked at
  LET r == request[c] IN
  /\ Is(c, "change") /\ r.kind = "unlink"
  /\ IF Exists(r.area) /\ ~InUse(r.area, r.item)
     THEN /\ Commit(c, r.area, IF areas[r.area].link[r.item] = r.id
                               THEN [areas[r.area] EXCEPT !.link[r.item] = 0] ELSE areas[r.area])
          /\ UNCHANGED serial
     ELSE Refused(c) /\ UNCHANGED <<table, crossed>>
  /\ Statement

Unlink(c) ==       \* a path goes with its scripts, unless a run refers to one
  LET r == request[c] IN
  /\ Is(c, "change") /\ r.kind = "unlink"
  /\ IF Exists(r.area) /\ areas[r.area].link[r.item] = r.id /\ ~InUse(r.area, r.item)
     THEN Commit(c, r.area, [areas[r.area] EXCEPT !.link[r.item] = 0]) /\ UNCHANGED serial
     ELSE Refused(c) /\ UNCHANGED <<table, crossed>>
  /\ Statement

Change(c) == CreateArea(c) \/ UpdateArea(c) \/ DeleteArea(c) \/ Link(c) \/ Unlink(c)

(* What the trail says after one more record; a change of an area that it  *)
(* does not know of says nothing.                                          *)
Amended(e, r) ==
  CASE r.kind = "update" -> [e EXCEPT !.name = r.name, !.category = r.category]
    [] r.kind = "link"   -> [e EXCEPT !.items = @ \cup {r.item}]
    [] r.kind = "unlink" -> [e EXCEPT !.items = @ \ {r.item}]

Replayed(r) ==
  CASE r.kind = "create" -> [name |-> r.name, category |-> r.category, items |-> {}]
    [] r.kind = "delete" -> None
    [] OTHER -> IF told[r.area] = None THEN None ELSE Amended(told[r.area], r)

Record(c) ==       \* a record names its area, unless the area was deleted
  LET r == request[c] IN
  /\ Is(c, "record")
  /\ r.kind = "delete" \/ Exists(r.area)
  /\ told' = [told EXCEPT ![r.area] = Replayed(r)]
  /\ Go(c, IF r.kind = "delete" THEN "done" ELSE "get")
  /\ UNCHANGED <<table, ran, page, crossed, events>>

RecordFails(c) ==  \* the change stays, the caller is told of an error
  /\ Is(c, "record")
  /\ \/ Event
     \/ request[c].kind # "delete" /\ ~Exists(request[c].area) /\ UNCHANGED events
  /\ crossed' = crossed \cup {request[c].area}
  /\ Refused(c)
  /\ UNCHANGED <<table, ran, told, page>>

GetArea(c) ==
  LET r == request[c] IN
  /\ Is(c, "get")
  /\ IF Exists(r.area)
     THEN Become(c, [r EXCEPT !.at = "done", !.view = Snapshot(r.area)])
     ELSE Refused(c)
  /\ Unchanged

-----------------------------------------------------------------------------
\* The screen: the list, the panel keyed by its area, and the form in it

MountedOnce(old, a, views) ==  \* a slip: the panel has no key
  IF a = None THEN NoForm
  ELSE IF views[a].area = None THEN NoForm
  ELSE IF old.area # None THEN [old EXCEPT !.area = a]
  ELSE [area |-> a, name |-> views[a].area.name, category |-> views[a].area.category, typed |-> {}]

(* The form lives as long as the panel of one area does.                   *)
Mounted(old, a, views) ==
  IF a = None THEN NoForm
  ELSE IF views[a].area = None THEN NoForm
  ELSE IF old.area = a THEN old
  ELSE [area |-> a, name |-> views[a].area.name, category |-> views[a].area.category, typed |-> {}]

Display(c, views, a) ==
  /\ list' = [list EXCEPT ![c] = views]
  /\ selected' = [selected EXCEPT ![c] = a]
  /\ form' = [form EXCEPT ![c] = Mounted(@, a, views)]

RefetchJoins(c) ==  \* a slip: a refetch that is under way will do
  fetch' = [fetch EXCEPT ![c] = IF @.is # "none" THEN @ ELSE [is |-> "asked", views |-> Blank]]

Joins(c) == fetch[c].is # "none" /\ c \notin loaded

Refetch(c) ==       \* cancels one that is under way, but only joins the first load
  fetch' = [fetch EXCEPT ![c] = IF Joins(c) THEN @ ELSE [is |-> "asked", views |-> Blank]]

Select(c, a) ==
  /\ a # selected[c] /\ list[c][a].area # None
  /\ Display(c, list[c], a)
  /\ UNCHANGED <<table, ran, told, request, fetch, loaded, own, unsure, joined, crossed, events>>

Type(c, name, category) ==
  LET f == form[c] IN
  /\ f.area # None /\ Event
  /\ (name # f.name) # (category # f.category)
  /\ form' = [form EXCEPT ![c] = [f EXCEPT !.name = name, !.category = category,
                !.typed = @ \cup {IF name # f.name THEN "name" ELSE "category"}]]
  /\ UNCHANGED <<table, ran, told, request, list, fetch, loaded, selected, own, unsure, joined,
                 crossed>>

Dirty(c) == form[c].area # None /\ LET a == list[c][form[c].area].area IN
                                form[c].name # a.name \/ form[c].category # a.category

(* A click asks for a change, one at a time.                               *)
Click(c, r) ==
  /\ Is(c, "idle") /\ Event
  /\ Become(c, r)
  /\ UNCHANGED <<table, ran, told, fetch, loaded, own, unsure, joined, crossed>>

PressCreate(c) ==  \* its panel takes the place of any other
  /\ \E name \in Name, category \in Category :
       Click(c, [Asked("create", None) EXCEPT !.name = name, !.category = category])
  /\ Display(c, list[c], None)

PressSave(c) ==
  LET f == form[c] IN
  /\ Dirty(c)
  /\ Click(c, [Asked("update", f.area) EXCEPT !.name = f.name, !.category = f.category,
                                              !.typed = f.typed])
  /\ UNCHANGED <<list, selected, form>>

PressDelete(c) ==
  /\ form[c].area # None
  /\ Click(c, Asked("delete", form[c].area))
  /\ UNCHANGED <<list, selected, form>>

PressLink(c) ==    \* a path or a group, whatever the list says
  /\ form[c].area # None
  /\ \E i \in Item : Click(c, [Asked("link", form[c].area) EXCEPT !.item = i])
  /\ UNCHANGED <<list, selected, form>>

PressUnlink(c) ==  \* one that the list shows, by the id it has there
  /\ form[c].area # None
  /\ \E i \in Item :
       LET id == list[c][form[c].area].area.link[i] IN
       id # 0 /\ Click(c, [Asked("unlink", form[c].area) EXCEPT !.item = i, !.id = id])
  /\ UNCHANGED <<list, selected, form>>

Press(c) == PressCreate(c) \/ PressSave(c) \/ PressDelete(c) \/ PressLink(c) \/ PressUnlink(c)

Missed(p, c, r) == \* what was read, and is still to land, is older than the change
  p = <<c, r.area>> /\ fetch[c].is = "read" /\ fetch[c].views[r.area].version < r.version

Answered(c) ==     \* onSuccess: the answer first, then everything again
  LET r == request[c] IN
  /\ Is(c, "done")
  /\ CASE r.kind = "create" -> Display(c, list[c], r.area)
       [] r.kind = "delete" -> Display(c, list[c], None)
       [] OTHER -> Display(c, [list[c] EXCEPT ![r.area] = IF @.area = None THEN @ ELSE r.view],
                           selected[c])
  /\ own' = [own EXCEPT ![c][r.area] = r.version]
  /\ Refetch(c)
  /\ joined' = IF Joins(c) THEN joined \cup {p \in Console \X Area : Missed(p, c, r)}
               ELSE {p \in joined : p[1] # c}
  /\ Become(c, Idle)
  /\ UNCHANGED <<table, ran, told, loaded, unsure, crossed, events>>

Failed(c) ==       \* an error is shown, or nothing is
  /\ Is(c, "refused")
  /\ Become(c, Idle)
  /\ Unchanged

FetchReads(c) ==
  /\ fetch[c].is = "asked"
  /\ fetch' = [fetch EXCEPT ![c] = [is |-> "read", views |-> [a \in Area |-> Snapshot(a)]]]
  /\ UNCHANGED <<table, ran, told, request, list, loaded, selected, form, own, unsure, joined,
                 crossed, events>>

FetchLands(c) ==
  /\ fetch[c].is = "read"
  /\ Display(c, fetch[c].views, selected[c])
  /\ fetch' = [fetch EXCEPT ![c] = [is |-> "none", views |-> Blank]]
  /\ loaded' = loaded \cup {c} /\ unsure' = unsure \ {c}
  /\ UNCHANGED <<table, ran, told, request, own, joined, crossed, events>>

FetchFails(c) ==   \* the list stays as it is, and is not asked for again
  /\ fetch[c].is = "asked" /\ Event
  /\ fetch' = [fetch EXCEPT ![c].is = "none"]
  /\ unsure' = unsure \cup {c}
  /\ UNCHANGED <<table, ran, told, request, list, loaded, selected, form, own, joined, crossed>>

-----------------------------------------------------------------------------
(* Elsewhere, somebody starts a script of a path.                          *)
RunStarts(a, p) ==
  /\ Linked(a, p) /\ ~InUse(a, p) /\ Event
  /\ ran' = ran \cup {<<a, p>>}
  /\ UNCHANGED <<table, told, request, page, crossed>>

Init ==
  /\ areas = Initial /\ ran = {}
  /\ serial = [a \in Area |-> [i \in Item |-> IF Linked(a, i) THEN 1 ELSE 0]]
  /\ told = [a \in Area |-> IF Exists(a)
                            THEN [name |-> areas[a].name, category |-> areas[a].category,
                                  items |-> {i \in Item : Linked(a, i)}]
                            ELSE None]
  /\ request = [c \in Console |-> Idle]
  /\ list = [c \in Console |-> Blank]
  /\ fetch = [c \in Console |-> [is |-> "asked", views |-> Blank]]
  /\ selected = [c \in Console |-> None] /\ form = [c \in Console |-> NoForm]
  /\ version = [a \in Area |-> IF Exists(a) THEN 1 ELSE 0]
  /\ had = [a \in Area |-> [name |-> IF Exists(a) THEN {areas[a].name} ELSE {},
                            category |-> IF Exists(a) THEN {areas[a].category} ELSE {}]]
  /\ own = [c \in Console |-> [a \in Area |-> 0]] /\ unsure = {}
  /\ loaded = {} /\ joined = {}
  /\ crossed = {} /\ events = 0

Next ==
  \/ \E c \in Console :
       \/ Find(c) \/ LookUp(c) \/ Change(c) \/ Record(c) \/ RecordFails(c) \/ GetArea(c)
       \/ Press(c) \/ Answered(c) \/ Failed(c) \/ FetchReads(c) \/ FetchLands(c) \/ FetchFails(c)
       \/ \E a \in Area : Select(c, a)
       \/ \E name \in Name, category \in Category : Type(c, name, category)
  \/ \E a \in Area, p \in Path : RunStarts(a, p)

Spec == Init /\ [][Next]_vars

-----------------------------------------------------------------------------
(* What the variables hold.                                                *)
Asking  == {"idle", "find", "look", "change", "record", "get", "done", "refused"}
Req     == [at : Asking, kind : Kind \cup {None}, area : Area \cup {None}, version : Nat,
            view : View, name : Name \cup {None}, category : Category \cup {None},
            typed : SUBSET Field, item : Item \cup {None}, id : Nat]
Fetch   == [is : {"none", "asked", "read"}, views : Lists]
TypeOK ==
  /\ areas \in [Area -> Rec \cup {None}] /\ serial \in [Area -> [Item -> Nat]]
  /\ ran \subseteq Area \X Path /\ told \in [Area -> Entry \cup {None}]
  /\ request \in [Console -> Req]
  /\ list \in [Console -> Lists] /\ fetch \in [Console -> Fetch]
  /\ selected \in [Console -> Area \cup {None}] /\ form \in [Console -> Form \cup {NoForm}]
  /\ version \in [Area -> Nat]
  /\ had \in [Area -> [name : SUBSET Name, category : SUBSET Category]]
  /\ own \in [Console -> [Area -> Nat]] /\ unsure \subseteq Console
  /\ loaded \subseteq Console /\ joined \subseteq Console \X Area
  /\ crossed \subseteq Area /\ events \in 0..MaxEvents

(* FA-12.2: the audit trail, replayed, gives the mapping that is in force: *)
(* every change is in it and nothing else is, once its request is past the *)
(* record.  Two requests that changed one area at the same time may record *)
(* that in either order, and a record that failed is missing.              *)
TrailTellsTheMapping ==
  \A a \in Area \ crossed :
    (\A c \in Console : Is(c, "record") => request[c].area # a) =>
      told[a] = IF Exists(a)
                THEN [name |-> areas[a].name, category |-> areas[a].category,
                      items |-> {i \in Item : Linked(a, i)}]
                ELSE None

(* A save writes what the operator typed, and for the rest what this area  *)
(* had been: never what the form held of another one (AreaDetailPanel,     *)
(* "rather than holding the previous one's half-typed values").            *)
SaveWritesThisArea ==
  [][\A c \in Console :
       UpdateArea(c) /\ areas' # areas =>
         LET r == request[c] IN
         /\ "name" \in r.typed \/ r.name \in had[r.area].name
         /\ "category" \in r.typed \/ r.category \in had[r.area].category]_vars

(* When a screen has settled, it shows every area at least as new as this  *)
(* screen's own changes made it, whichever refetches were under way in the *)
(* meantime; unless the last one failed, or it was none: the first load,   *)
(* read before the change, that invalidateQueries joined (refresh in       *)
(* AdminAreasPage).                                                        *)
OwnChangeIsShown ==
  \A c \in Console \ unsure :
    Is(c, "idle") /\ fetch[c].is = "none" =>
      \A a \in Area : <<c, a>> \in joined \/ list[c][a].version >= own[c][a]
================================================================================
