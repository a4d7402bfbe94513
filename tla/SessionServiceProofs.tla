------------------------ MODULE SessionServiceProofs ------------------------
(***************************************************************************)
(* What holds of SessionService for any number of sessions and of          *)
(* incarnations of the service: the two maps of a service agree, a running *)
(* session is never lost from them, and the terminal shows the session     *)
(* that is marked as current.                                              *)
(*                                                                         *)
(* The sessions of a service are spoken of by Listed, what a handler makes *)
(* of the objects by Kept, so that a handler is described once for all the *)
(* invariants.                                                             *)
(***************************************************************************)
EXTENDS SessionService, TLAPS

USE BoundsAssumption

------------------------------------------------------------------------------
(* The operators *)

Objects == [id : Ids, state : {"created", "running", "killed", "exited"},
            command : Ids \cup {NoCommand}, service : 1..MaxServices]
Services == [sessions : SUBSET (1..MaxObjects), sessionList : SUBSET (Ids \cup {Webview}),
             currentSession : Ids \cup {Webview}]

\* The web view has no session.
LEMMA WebviewIsNoId == Webview \notin Ids /\ NoCommand \notin Ids
BY DEF Webview, NoCommand, Ids

\* What is appended to a sequence comes last, and what was there keeps its place.
LEMMA Appended ==
    ASSUME NEW S, NEW q \in Seq(S), NEW e \in S
    PROVE  /\ Append(q, e) \in Seq(S)
           /\ Len(q) \in Nat /\ Len(Append(q, e)) = Len(q) + 1
           /\ Append(q, e)[Len(q) + 1] = e
           /\ \A i \in 1..Len(q) : Append(q, e)[i] = q[i]
OBVIOUS

\* A sequence whose element changes.
LEMMA Changed ==
    ASSUME NEW S, NEW q \in Seq(S), NEW i \in 1..Len(q), NEW e \in S
    PROVE  /\ [q EXCEPT ![i] = e] \in Seq(S)
           /\ Len([q EXCEPT ![i] = e]) = Len(q)
           /\ [q EXCEPT ![i] = e][i] = e
           /\ \A j \in 1..Len(q) : j # i => [q EXCEPT ![i] = e][j] = q[j]
OBVIOUS

\* Every object is still there, with its id and in the map it was created in.
Kept(objs, after) ==
    /\ Len(objs) <= Len(after)
    /\ \A o \in 1..Len(objs) :
          after[o].id = objs[o].id /\ after[o].service = objs[o].service

\* finishIfRunning turns running sessions of a set into killed ones, and does
\* nothing else.
LEMMA FinishedIs ==
    ASSUME NEW objs \in Seq(Objects), NEW S
    PROVE  /\ Finished(objs, S) \in Seq(Objects)
           /\ Len(Finished(objs, S)) = Len(objs)
           /\ Kept(objs, Finished(objs, S))
           /\ \A o \in 1..Len(objs) :
                 Finished(objs, S)[o].state =
                    IF o \in S /\ objs[o].state = "running" THEN "killed" ELSE objs[o].state
<1>1. Len(objs) \in Nat /\ DOMAIN objs = 1..Len(objs) /\ \A o \in 1..Len(objs) : objs[o] \in Objects
  OBVIOUS
<1>2. \A o \in 1..Len(objs) :
         /\ Finished(objs, S)[o] = IF o \in S /\ objs[o].state = "running"
                                   THEN [objs[o] EXCEPT !.state = "killed"] ELSE objs[o]
         /\ Finished(objs, S)[o] \in Objects
  BY <1>1 DEF Finished, Objects
<1>3. Finished(objs, S) \in [1..Len(objs) -> Objects]
  BY <1>1, <1>2 DEF Finished
<1>4. Finished(objs, S) \in Seq(Objects) /\ Len(Finished(objs, S)) = Len(objs)
  <2>. DEFINE f == Finished(objs, S)
  <2>. HIDE DEF f
  <2>1. f \in [1..Len(objs) -> Objects]
    BY <1>3 DEF f
  <2>2. f \in Seq(Objects) /\ Len(f) = Len(objs)
    BY <1>1, <2>1
  <2>3. QED  BY <2>2 DEF f
<1>5. \A o \in 1..Len(objs) :
         /\ Finished(objs, S)[o].id = objs[o].id /\ Finished(objs, S)[o].service = objs[o].service
         /\ Finished(objs, S)[o].state =
               IF o \in S /\ objs[o].state = "running" THEN "killed" ELSE objs[o].state
  BY <1>1, <1>2 DEF Objects
<1>6. QED  BY <1>4, <1>5, <1>1 DEF Kept

\* A size makes a created session run, and does nothing else.
LEMMA SizedIs ==
    ASSUME NEW objs \in Seq(Objects), NEW v \in 1..Len(objs)
    PROVE  /\ Sized(objs, v) \in Seq(Objects)
           /\ Len(Sized(objs, v)) = Len(objs)
           /\ Kept(objs, Sized(objs, v))
           /\ \A o \in 1..Len(objs) :
                 Sized(objs, v)[o].state =
                    IF o = v /\ objs[o].state = "created" THEN "running" ELSE objs[o].state
<1>1. \A o \in 1..Len(objs) : objs[o] \in Objects
  OBVIOUS
<1>2. CASE objs[v].state = "created"
  <2>. DEFINE e == [objs[v] EXCEPT !.state = "running"]
  <2>1. e \in Objects /\ e.id = objs[v].id /\ e.service = objs[v].service /\ e.state = "running"
    BY <1>1 DEF Objects
  <2>2. Sized(objs, v) = [objs EXCEPT ![v] = e]
    BY <1>2 DEF Sized
  <2>. HIDE DEF e
  <2>3. QED  BY <1>2, <2>1, <2>2, Changed DEF Kept
<1>3. CASE objs[v].state # "created"
  BY <1>3 DEF Sized, Kept
<1>4. QED  BY <1>2, <1>3

\* The two maps of a service agree: every session has an id of its own, and the
\* list has the ids of the sessions.
Listed(r, objs) ==
    /\ r.sessions \subseteq 1..Len(objs)
    /\ r.sessionList \ {Webview} = {objs[o].id : o \in r.sessions}
    /\ \A o, p \in r.sessions : objs[o].id = objs[p].id => o = p

\* What keeps the objects keeps the agreement.
LEMMA ListedKept ==
    ASSUME NEW r, NEW objs, NEW after, Kept(objs, after), Listed(r, objs),
           Len(objs) \in Nat, Len(after) \in Nat
    PROVE  Listed(r, after)
BY DEF Kept, Listed

\* terminateSession takes a session out of both.
LEMMA WithoutIs ==
    ASSUME NEW r \in Services, NEW objs, Listed(r, objs), NEW id
    PROVE  /\ Without(r, objs, id) \in Services
           /\ Without(r, objs, id).currentSession = r.currentSession
           /\ Without(r, objs, id).sessions = {o \in r.sessions : objs[o].id # id}
           /\ Without(r, objs, id).sessionList = r.sessionList \ {id}
           /\ Listed(Without(r, objs, id), objs)
<1>1. /\ Without(r, objs, id) \in Services
      /\ Without(r, objs, id).currentSession = r.currentSession
      /\ Without(r, objs, id).sessions = r.sessions \ Named(r, objs, id)
      /\ Without(r, objs, id).sessionList = r.sessionList \ {id}
  BY DEF Without, Services
<1>2. Without(r, objs, id).sessions = {o \in r.sessions : objs[o].id # id}
  BY <1>1 DEF Named
<1>3. Listed(Without(r, objs, id), objs)
  BY <1>1, <1>2 DEF Listed
<1>4. QED  BY <1>1, <1>2, <1>3

\* createSession adds a session to both.
LEMMA WithNewIs ==
    ASSUME NEW r \in Services, NEW objs \in Seq(Objects), Listed(r, objs),
           NEW e \in Objects, Len(objs) < MaxObjects, Named(r, objs, e.id) = {}
    PROVE  /\ WithNew(r, objs, e.id) \in Services
           /\ WithNew(r, objs, e.id).currentSession = r.currentSession
           /\ WithNew(r, objs, e.id).sessions = r.sessions \cup {Len(objs) + 1}
           /\ Listed(WithNew(r, objs, e.id), Append(objs, e))
<1>. DEFINE n == Len(objs) + 1
            after == Append(objs, e)
            w == WithNew(r, objs, e.id)
<1>1. /\ after \in Seq(Objects) /\ Len(objs) \in Nat /\ Len(after) = n
      /\ after[n] = e
      /\ \A o \in 1..Len(objs) : after[o] = objs[o]
  BY Appended
<1>2. n \in 1..MaxObjects /\ e.id \in Ids
  BY <1>1 DEF Objects
<1>3. /\ w \in Services
      /\ w.currentSession = r.currentSession
      /\ w.sessions = r.sessions \cup {n}
      /\ w.sessionList = r.sessionList \cup {e.id}
  BY <1>2 DEF WithNew, Services
<1>4. Listed(w, after)
  <2>. HIDE DEF w, after
  <2>1. \A o \in r.sessions : o \in 1..Len(objs) /\ after[o] = objs[o] /\ objs[o].id # e.id
    BY <1>1 DEF Listed, Named
  <2>2. w.sessions \subseteq 1..Len(after)
    BY <1>1, <1>3, <2>1
  <2>3. w.sessionList \ {Webview} = {after[o].id : o \in w.sessions}
    BY <1>1, <1>2, <1>3, <2>1, WebviewIsNoId DEF Listed
  <2>4. \A o, p \in w.sessions : after[o].id = after[p].id => o = p
    BY <1>1, <1>3, <2>1 DEF Listed
  <2>5. QED  BY <2>2, <2>3, <2>4 DEF Listed
<1>5. QED  BY <1>3, <1>4

\* The current session is another matter than the maps.
LEMMA CurrentIs ==
    ASSUME NEW r \in Services, NEW id \in Ids \cup {Webview}
    PROVE  /\ [r EXCEPT !.currentSession = id] \in Services
           /\ [r EXCEPT !.currentSession = id].currentSession = id
           /\ [r EXCEPT !.currentSession = id].sessions = r.sessions
           /\ [r EXCEPT !.currentSession = id].sessionList = r.sessionList
           /\ \A objs : Listed(r, objs) => Listed([r EXCEPT !.currentSession = id], objs)
BY DEF Services, Listed

------------------------------------------------------------------------------
(* The invariants *)

TypeInv == TypeOK /\ Len(services) <= MaxServices

\* A bind request is answered by a service that the request keeps alive.  Who
\* has a terminal view or a timer has had an answer.  An incarnation that the
\* user interface does not work with yet, while it works with an older one, is
\* new.  Only the last one can exist.
BinderInv ==
    /\ connecting => live # 0 /\ serviceBound /\ ~isBound
    /\ timer = ThisActivity => sessionBinder # 0
    /\ view # 0 => sessionBinder # 0 /\ viewRef
    /\ live \in {0, Len(services)}
    /\ (sessionBinder \notin {0, live} /\ live # 0) =>
          services[live].sessions = {} /\ services[live].currentSession = Webview

\* The maps of every service agree, and its sessions were created in it.
ListInv ==
    \A i \in 1..Len(services) :
        /\ Listed(services[i], objects)
        /\ \A o \in services[i].sessions : objects[o].service = i

\* The view shows the current session, also while nobody can see it.
ShownInv ==
    (view # 0 /\ Service.currentSession # Webview) =>
        /\ objects[view].id = Service.currentSession
        /\ view \in Service.sessions

\* An object is in the map of the service it was created in.
Owned(o, objs, servs) == o \in servs[objs[o].service].sessions

\* A running session is, and so is one that the view would start.
OwnedInv ==
    /\ \A o \in 1..Len(objects) : objects[o].service <= Len(services)
    /\ \A o \in 1..Len(objects) :
          objects[o].state = "running" => Owned(o, objects, services)
    /\ view # 0 /\ objects[view].state = "created" => Owned(view, objects, services)

MapsInv == ListInv /\ ShownInv /\ OwnedInv

IInv == TypeInv /\ BinderInv /\ MapsInv

\* What the types say of the objects and the services.
LEMMA TypesAre ==
    ASSUME TypeInv
    PROVE  /\ objects \in Seq(Objects) /\ Len(objects) \in 0..MaxObjects
           /\ DOMAIN objects = 1..Len(objects)
           /\ services \in Seq(Services) /\ Len(services) \in 0..MaxServices
           /\ DOMAIN services = 1..Len(services)
           /\ \A o \in 1..Len(objects) : objects[o] \in Objects
           /\ \A i \in 1..Len(services) : services[i] \in Services
           /\ view \in 0..Len(objects)
           /\ live \in 0..Len(services) /\ sessionBinder \in 0..Len(services)
<1>1. /\ objects \in Seq(Objects) /\ Len(objects) <= MaxObjects
      /\ services \in Seq(Services) /\ Len(services) <= MaxServices
      /\ view \in 0..Len(objects)
      /\ live \in 0..Len(services) /\ sessionBinder \in 0..Len(services)
  BY DEF TypeInv, TypeOK, Objects, Services
<1>2. Len(objects) \in Nat /\ Len(services) \in Nat
  BY <1>1
<1>3. QED  BY <1>1, <1>2

\* The agreement of the maps is kept where the services do not change.
LEMMA MapsUnchanged ==
    ASSUME TypeInv, ListInv, UNCHANGED services,
           objects' \in Seq(Objects), Kept(objects, objects')
    PROVE  ListInv'
<1>1. Len(objects) \in Nat /\ Len(objects') \in Nat
  BY TypesAre
<1>2. ASSUME NEW i \in 1..Len(services)
      PROVE  /\ Listed(services[i], objects')
             /\ \A o \in services[i].sessions : objects'[o].service = i
  <2>1. Listed(services[i], objects) /\ \A o \in services[i].sessions : objects[o].service = i
    BY DEF ListInv
  <2>2. Listed(services[i], objects')
    BY <1>1, <2>1, ListedKept
  <2>3. \A o \in services[i].sessions : o \in 1..Len(objects)
    BY <2>1 DEF Listed
  <2>4. QED  BY <2>1, <2>2, <2>3 DEF Kept
<1>3. QED  BY <1>2 DEF ListInv

\* The same where one service changes.
LEMMA MapsChanged ==
    ASSUME TypeInv, ListInv, NEW b \in 1..Len(services), NEW r \in Services,
           services' = [services EXCEPT ![b] = r],
           objects' \in Seq(Objects), Kept(objects, objects'),
           Listed(r, objects'), \A o \in r.sessions : objects'[o].service = b
    PROVE  /\ services' \in Seq(Services) /\ Len(services') = Len(services)
           /\ services'[b] = r
           /\ \A i \in 1..Len(services) : i # b => services'[i] = services[i]
           /\ ListInv'
<1>1. Len(objects) \in Nat /\ Len(objects') \in Nat /\ services \in Seq(Services)
  BY TypesAre
<1>2. /\ services' \in Seq(Services) /\ Len(services') = Len(services)
      /\ services'[b] = r
      /\ \A i \in 1..Len(services) : i # b => services'[i] = services[i]
  BY <1>1, Changed
<1>3. ASSUME NEW i \in 1..Len(services)
      PROVE  /\ Listed(services'[i], objects')
             /\ \A o \in services'[i].sessions : objects'[o].service = i
  <2>1. Listed(services[i], objects) /\ \A o \in services[i].sessions : objects[o].service = i
    BY DEF ListInv
  <2>2. CASE i = b
    BY <1>2, <2>2
  <2>3. CASE i # b
    <3>1. services'[i] = services[i]
      BY <1>2, <2>3
    <3>2. Listed(services[i], objects')
      BY <1>1, <2>1, ListedKept
    <3>3. \A o \in services[i].sessions : o \in 1..Len(objects)
      BY <2>1 DEF Listed
    <3>4. QED  BY <2>1, <3>1, <3>2, <3>3 DEF Kept
  <2>4. QED  BY <2>2, <2>3
<1>4. QED  BY <1>2, <1>3 DEF ListInv

\* Running sessions keep their owner where no service loses one, and what
\* starts running has one.
LEMMA OwnedKept ==
    ASSUME TypeInv, OwnedInv, objects' \in Seq(Objects), Kept(objects, objects'),
           Len(services') \in Nat, Len(services) <= Len(services'),
           \A i \in 1..Len(services) : services[i].sessions \subseteq services'[i].sessions,
           \A o \in 1..Len(objects') :
              /\ o \in 1..Len(objects) \/ objects'[o].service <= Len(services')
              /\ objects'[o].state = "running" =>
                    \/ o \in 1..Len(objects) /\ objects[o].state = "running"
                    \/ o \in 1..Len(objects) /\ Owned(o, objects, services)
                    \/ Owned(o, objects', services'),
           view' # 0 /\ objects'[view'].state = "created" =>
              \/ view' = view /\ objects[view].state = "created"
              \/ Owned(view', objects', services')
    PROVE  OwnedInv'
<1>1. /\ Len(objects) \in Nat /\ Len(objects') \in Nat /\ Len(services) \in Nat
      /\ \A o \in 1..Len(objects) : objects[o].service \in 1..Len(services)
      /\ view \in 0..Len(objects)
  <2>1. \A o \in 1..Len(objects) : objects[o].service \in Nat \ {0}
    BY TypesAre DEF Objects
  <2>2. QED  BY <2>1, TypesAre DEF OwnedInv
<1>2. \A o \in 1..Len(objects) : o \in 1..Len(objects') /\ objects'[o].service = objects[o].service
  BY <1>1 DEF Kept
<1>3. \A o \in 1..Len(objects) : Owned(o, objects, services) => Owned(o, objects', services')
  BY <1>1, <1>2 DEF Owned
<1>4. \A o \in 1..Len(objects') : objects'[o].service <= Len(services')
  BY <1>1, <1>2
<1>5. \A o \in 1..Len(objects') :
         objects'[o].state = "running" => Owned(o, objects', services')
  BY <1>3 DEF OwnedInv
<1>6. view' # 0 /\ objects'[view'].state = "created" => Owned(view', objects', services')
  BY <1>1, <1>3 DEF OwnedInv
<1>7. QED  BY <1>4, <1>5, <1>6 DEF OwnedInv

------------------------------------------------------------------------------
(* A session by id *)

FoundObject(id) ==
    IF Named(Service, objects, id) = {} THEN Len(objects) + 1
    ELSE CHOOSE n \in Named(Service, objects, id) : TRUE
FoundObjects(id, command) ==
    IF Named(Service, objects, id) = {} THEN Append(objects, NewObject(id, command)) ELSE objects
FoundService(id) ==
    IF Named(Service, objects, id) = {} THEN WithNew(Service, objects, id) ELSE Service

\* The session is the service's own, of that id, and created if it was not
\* there; nothing else changes.
LEMMA FoundIs ==
    ASSUME TypeInv, ListInv, sessionBinder # 0,
           NEW id \in Ids, NEW command \in Ids \cup {NoCommand},
           Len(FoundObjects(id, command)) <= MaxObjects
    PROVE  /\ FoundObjects(id, command) \in Seq(Objects)
           /\ Kept(objects, FoundObjects(id, command))
           /\ FoundObject(id) \in 1..Len(FoundObjects(id, command))
           /\ FoundObjects(id, command)[FoundObject(id)].id = id
           /\ FoundService(id) \in Services
           /\ Listed(FoundService(id), FoundObjects(id, command))
           /\ \A o \in FoundService(id).sessions :
                 FoundObjects(id, command)[o].service = sessionBinder
           /\ FoundObject(id) \in FoundService(id).sessions
           /\ Service.sessions \subseteq FoundService(id).sessions
           /\ \A o \in 1..Len(FoundObjects(id, command)) :
                 \/ o \in 1..Len(objects) /\ FoundObjects(id, command)[o] = objects[o]
                 \/ o \in FoundService(id).sessions
<1>1. /\ objects \in Seq(Objects) /\ Len(objects) \in Nat /\ Service \in Services
      /\ sessionBinder \in 1..Len(services) /\ sessionBinder \in 1..MaxServices
  BY TypesAre DEF Service
<1>2. Listed(Service, objects) /\ \A o \in Service.sessions : objects[o].service = sessionBinder
  BY <1>1 DEF ListInv, Service
<1>3. CASE Named(Service, objects, id) = {}
  <2>. DEFINE e == NewObject(id, command)
              objs == Append(objects, e)
              r == WithNew(Service, objects, id)
  <2>1. e \in Objects /\ e.id = id /\ e.service = sessionBinder
    BY <1>1 DEF NewObject, Objects
  <2>2. /\ FoundObject(id) = Len(objects) + 1
        /\ FoundObjects(id, command) = objs
        /\ FoundService(id) = r
    BY <1>3 DEF FoundObject, FoundObjects, FoundService
  <2>3. /\ objs \in Seq(Objects) /\ Len(objs) = Len(objects) + 1
        /\ objs[Len(objects) + 1] = e
        /\ \A o \in 1..Len(objects) : objs[o] = objects[o]
    BY <1>1, <2>1, Appended
  <2>4. Len(objects) < MaxObjects
    BY <1>1, <2>2, <2>3
  <2>5. /\ r \in Services
        /\ r.sessions = Service.sessions \cup {Len(objects) + 1}
        /\ Listed(r, objs)
    <3>. HIDE DEF e
    <3>1. /\ WithNew(Service, objects, e.id) \in Services
          /\ WithNew(Service, objects, e.id).sessions = Service.sessions \cup {Len(objects) + 1}
          /\ Listed(WithNew(Service, objects, e.id), Append(objects, e))
      BY <1>1, <1>2, <1>3, <2>1, <2>4, WithNewIs
    <3>2. QED  BY <2>1, <3>1
  <2>. HIDE DEF e, objs, r
  <2>6. \A o \in r.sessions : objs[o].service = sessionBinder
    BY <1>1, <1>2, <2>1, <2>3, <2>5 DEF Listed
  <2>7. Kept(objects, objs)
    BY <1>1, <2>3 DEF Kept
  <2>8. \A o \in 1..Len(objs) : o \in 1..Len(objects) \/ o = Len(objects) + 1
    BY <1>1, <2>3
  <2>9. QED
    BY <1>1, <2>1, <2>2, <2>3, <2>5, <2>6, <2>7, <2>8
<1>4. CASE Named(Service, objects, id) # {}
  <2>1. /\ FoundObject(id) \in Named(Service, objects, id)
        /\ FoundObjects(id, command) = objects
        /\ FoundService(id) = Service
    BY <1>4 DEF FoundObject, FoundObjects, FoundService
  <2>2. FoundObject(id) \in Service.sessions /\ objects[FoundObject(id)].id = id
    BY <2>1 DEF Named
  <2>3. FoundObject(id) \in 1..Len(objects)
    BY <1>2, <2>2 DEF Listed
  <2>4. Kept(objects, objects)
    BY <1>1 DEF Kept
  <2>5. QED
    BY <1>1, <1>2, <2>1, <2>2, <2>3, <2>4
<1>5. QED  BY <1>3, <1>4

\* A session is opened: attached to a view or not, its view with a size or
\* not, and made current.
LEMMA OpenedKeeps ==
    ASSUME IInv, sessionBinder # 0,
           NEW id \in Ids, NEW command \in Ids \cup {NoCommand},
           Len(FoundObjects(id, command)) <= MaxObjects,
           \/ objects' = FoundObjects(id, command)
           \/ objects' = Sized(FoundObjects(id, command), FoundObject(id)),
           services' = [services EXCEPT ![sessionBinder] =
                           [FoundService(id) EXCEPT !.currentSession = id]],
           view' \in {0, FoundObject(id)},
           UNCHANGED sessionBinder
    PROVE  /\ objects' \in Seq(Objects) /\ Len(objects') <= MaxObjects
           /\ services' \in Seq(Services) /\ Len(services') = Len(services)
           /\ view' \in 0..Len(objects')
           /\ \A i \in 1..Len(services) : i # sessionBinder => services'[i] = services[i]
           /\ MapsInv'
<1>. DEFINE objs == FoundObjects(id, command)
            o == FoundObject(id)
            found == FoundService(id)
            r == [found EXCEPT !.currentSession = id]
<1>1. /\ objs \in Seq(Objects) /\ Kept(objects, objs)
      /\ o \in 1..Len(objs) /\ objs[o].id = id
      /\ found \in Services /\ Listed(found, objs)
      /\ \A p \in found.sessions : objs[p].service = sessionBinder
      /\ o \in found.sessions /\ Service.sessions \subseteq found.sessions
      /\ \A p \in 1..Len(objs) : \/ p \in 1..Len(objects) /\ objs[p] = objects[p]
                                 \/ p \in found.sessions
  BY FoundIs DEF IInv, MapsInv
<1>2. /\ r \in Services /\ r.currentSession = id
      /\ r.sessions = found.sessions
      /\ Listed(r, objs)
  BY <1>1, CurrentIs
<1>3. /\ sessionBinder \in 1..Len(services) /\ Len(objects) \in Nat /\ Len(services) \in Nat
  BY TypesAre DEF IInv
<1>4. /\ objects' \in Seq(Objects) /\ Len(objects') = Len(objs)
      /\ Kept(objs, objects')
      /\ \A p \in 1..Len(objs) : objects'[p].state = "running" => objs[p].state = "running" \/ p = o
  <2>1. CASE objects' = objs
    <3>1. Len(objs) \in Nat
      BY <1>1
    <3>2. QED  BY <1>1, <2>1, <3>1 DEF Kept
  <2>2. CASE objects' = Sized(objs, o)
    BY <1>1, <2>2, SizedIs
  <2>3. QED  BY <2>1, <2>2
<1>5. Len(objs) \in Nat /\ Len(objects') \in Nat
  BY <1>1, <1>4
<1>. HIDE DEF objs, o, found, r
<1>6. Kept(objects, objects')
  BY <1>1, <1>3, <1>4, <1>5 DEF Kept
<1>7. Listed(r, objects') /\ \A p \in r.sessions : objects'[p].service = sessionBinder
  BY <1>1, <1>2, <1>4, <1>5, ListedKept DEF Kept, Listed
<1>8. services' = [services EXCEPT ![sessionBinder] = r]
  BY DEF r, found
<1>9. /\ services' \in Seq(Services) /\ Len(services') = Len(services)
      /\ services'[sessionBinder] = r
      /\ \A i \in 1..Len(services) : i # sessionBinder => services'[i] = services[i]
      /\ ListInv'
  BY <1>2, <1>3, <1>4, <1>6, <1>7, <1>8, MapsChanged DEF IInv, MapsInv
<1>10. view' \in {0, o} /\ o \in r.sessions /\ objects'[o].id = id
  BY <1>1, <1>2, <1>4 DEF o, Kept
<1>11. ShownInv'
  BY <1>2, <1>9, <1>10 DEF ShownInv, Service
<1>12. \A p \in 1..Len(objs) : p \in r.sessions => Owned(p, objects', services')
  BY <1>7, <1>9 DEF Owned
<1>13. OwnedInv'
  <2>1. \A i \in 1..Len(services) : services[i].sessions \subseteq services'[i].sessions
    BY <1>1, <1>2, <1>9 DEF Service
  <2>2. \A p \in 1..Len(objects') :
           /\ p \in 1..Len(objects) \/ objects'[p].service <= Len(services')
           /\ objects'[p].state = "running" =>
                 \/ p \in 1..Len(objects) /\ objects[p].state = "running"
                 \/ Owned(p, objects', services')
    <3>1. SUFFICES ASSUME NEW p \in 1..Len(objs)
                   PROVE  /\ p \in 1..Len(objects) \/ objects'[p].service <= Len(services')
                          /\ objects'[p].state = "running" =>
                                \/ p \in 1..Len(objects) /\ objects[p].state = "running"
                                \/ Owned(p, objects', services')
      BY <1>4
    <3>2. CASE p \in r.sessions
      <4>1. Owned(p, objects', services')
        BY <1>12, <3>2
      <4>2. objects'[p].service = sessionBinder
        BY <1>7, <3>2
      <4>3. sessionBinder <= Len(services')
        BY <1>3, <1>9
      <4>4. QED  BY <4>1, <4>2, <4>3
    <3>3. CASE p \notin r.sessions
      <4>1. p \in 1..Len(objects) /\ objs[p] = objects[p] /\ p # o
        BY <1>1, <1>2, <1>10, <3>3
      <4>2. QED  BY <1>4, <4>1
    <3>4. QED  BY <3>2, <3>3
  <2>3. view' # 0 => Owned(view', objects', services')
    BY <1>1, <1>10, <1>12
  <2>. HIDE DEF Owned
  <2>4. QED
    <3>1. TypeInv /\ OwnedInv
      BY DEF IInv, MapsInv
    <3>2. /\ \A p \in 1..Len(objects') :
                /\ p \in 1..Len(objects) \/ objects'[p].service <= Len(services')
                /\ objects'[p].state = "running" =>
                      \/ p \in 1..Len(objects) /\ objects[p].state = "running"
                      \/ p \in 1..Len(objects) /\ Owned(p, objects, services)
                      \/ Owned(p, objects', services')
          /\ view' # 0 /\ objects'[view'].state = "created" =>
                \/ view' = view /\ objects[view].state = "created"
                \/ Owned(view', objects', services')
      BY <2>2, <2>3
    <3>3. Len(services') \in Nat /\ Len(services) <= Len(services')
      BY <1>3, <1>9
    <3>4. QED  BY <1>4, <1>6, <2>1, <3>1, <3>2, <3>3, OwnedKept
<1>14. QED
  BY <1>1, <1>4, <1>5, <1>9, <1>10, <1>11, <1>13 DEF MapsInv, objs, o

------------------------------------------------------------------------------
(* The handlers *)

\* What the invariants ask for after a step, other than of the maps.
LEMMA TypesAfter ==
    ASSUME /\ alive' \in BOOLEAN /\ connecting' \in BOOLEAN /\ isBound' \in BOOLEAN
           /\ serviceStarted' \in BOOLEAN /\ serviceBound' \in BOOLEAN
           /\ viewRef' \in BOOLEAN /\ viewSized' \in BOOLEAN
           /\ openTerminalForSetup' \in BOOLEAN,
           timer' \in {NoTimer, ThisActivity} \cup 1..Len(services'),
           activity' \in {"started", "stopped"},
           objects' \in Seq(Objects), Len(objects') <= MaxObjects,
           services' \in Seq(Services), Len(services') <= MaxServices,
           live' \in 0..Len(services'), sessionBinder' \in 0..Len(services'),
           view' \in 0..Len(objects'),
           pendingCommand' \in Ids \cup {NoCommand}
    PROVE  TypeInv'
<1>1. DOMAIN services' = 1..Len(services')
  OBVIOUS
<1>2. QED  BY <1>1 DEF TypeInv, TypeOK, Objects, Services

\* The scalars' types.
Scalars ==
    /\ alive \in BOOLEAN /\ connecting \in BOOLEAN /\ isBound \in BOOLEAN
    /\ serviceStarted \in BOOLEAN /\ serviceBound \in BOOLEAN
    /\ viewRef \in BOOLEAN /\ viewSized \in BOOLEAN
    /\ openTerminalForSetup \in BOOLEAN
    /\ timer \in {NoTimer, ThisActivity} \cup 1..Len(services)
    /\ activity \in {"started", "stopped"}
    /\ pendingCommand \in Ids \cup {NoCommand}

\* They hold with the others.
LEMMA ScalarsAre == ASSUME TypeInv PROVE Scalars
<1>1. DOMAIN services = 1..Len(services)
  BY TypesAre
<1>2. QED  BY <1>1 DEF TypeInv, TypeOK, Scalars

\* Ids that the handlers make up.
LEMMA FreshIs ==
    ASSUME TypeInv, NEW kind \in {"main", "server", "setup"}
    PROVE  Fresh(kind) \in Ids
<1>1. Len(objects) \in 0..MaxObjects
  BY TypesAre
<1>2. QED  BY <1>1 DEF Fresh, Ids

\* A service dies when nothing keeps it, and its sessions with it: of the maps
\* and the view only the objects' states change.
LEMMA SettledKeeps ==
    ASSUME IInv, NEW started \in BOOLEAN, NEW bound \in BOOLEAN, NEW S,
           Settle(started, bound, S), UNCHANGED services, UNCHANGED sessionBinder,
           view' = view
    PROVE  /\ objects' \in Seq(Objects) /\ Len(objects') = Len(objects)
           /\ alive' \in BOOLEAN /\ serviceStarted' = started /\ serviceBound' = bound
           /\ live' \in {0, live} /\ (bound => live' = live)
           /\ MapsInv'
<1>. DEFINE destroyed == live # 0 /\ ~started /\ ~bound
            doomed == S \cup IF destroyed THEN services[live].sessions ELSE {}
<1>1. /\ live' = IF destroyed THEN 0 ELSE live
      /\ serviceStarted' = started /\ serviceBound' = bound
      /\ objects' = Finished(objects, doomed)
      /\ alive' = Survives(doomed)
  BY DEF Settle
<1>2. alive' \in BOOLEAN
  BY <1>1 DEF Survives
<1>3. objects \in Seq(Objects) /\ Len(objects) \in Nat /\ Len(services) \in Nat
  BY TypesAre DEF IInv
<1>. HIDE DEF doomed
<1>4. /\ objects' \in Seq(Objects) /\ Len(objects') = Len(objects)
      /\ Kept(objects, objects')
      /\ \A o \in 1..Len(objects) :
            objects'[o].state = IF o \in doomed /\ objects[o].state = "running"
                                THEN "killed" ELSE objects[o].state
  BY <1>1, <1>3, FinishedIs
<1>5. ListInv'
  BY <1>4, MapsUnchanged DEF IInv, MapsInv
<1>6. ShownInv'
  <2>1. view \in 0..Len(objects)
    BY TypesAre DEF IInv
  <2>2. QED  BY <1>3, <1>4, <2>1 DEF IInv, MapsInv, ShownInv, Service, Kept
<1>7. OwnedInv'
  <2>1. /\ \A o \in 1..Len(objects') :
              objects'[o].state = "running" =>
                 o \in 1..Len(objects) /\ objects[o].state = "running"
        /\ view' # 0 /\ objects'[view'].state = "created" =>
              view' = view /\ objects[view].state = "created"
    <3>1. view \in 0..Len(objects)
      BY TypesAre DEF IInv
    <3>2. QED  BY <1>3, <1>4, <3>1
  <2>2. TypeInv /\ OwnedInv
    BY DEF IInv, MapsInv
  <2>3. QED  BY <1>3, <1>4, <2>1, <2>2, OwnedKept
<1>8. QED  BY <1>1, <1>2, <1>4, <1>5, <1>6, <1>7 DEF MapsInv

\* The maps where neither services nor objects change, and the view stays or goes.
LEMMA NothingKeeps ==
    ASSUME IInv, UNCHANGED <<services, objects>>,
           \/ view' = 0
           \/ view' = view /\ UNCHANGED sessionBinder
    PROVE  MapsInv'
<1>1. objects \in Seq(Objects) /\ Len(objects) \in Nat /\ Len(services) \in Nat
  BY TypesAre DEF IInv
<1>2. Kept(objects, objects')
  BY <1>1 DEF Kept
<1>3. ListInv'
  BY <1>1, <1>2, MapsUnchanged DEF IInv, MapsInv
<1>4. ShownInv'
  BY DEF IInv, MapsInv, ShownInv, Service
<1>5. OwnedInv'
  BY <1>1 DEF IInv, MapsInv, OwnedInv, Owned
<1>6. QED  BY <1>3, <1>4, <1>5 DEF MapsInv

\* The activity stops, or EXIT is pressed.
LEMMA LifecycleKeeps ==
    ASSUME IInv, onStop \/ onStartCommand_EXIT
    PROVE  IInv'
<1>1. TypeInv /\ BinderInv /\ Scalars
  BY ScalarsAre DEF IInv
<1>2. /\ Len(objects) \in 0..MaxObjects /\ services \in Seq(Services)
      /\ Len(services) \in 0..MaxServices
      /\ live \in 0..Len(services) /\ sessionBinder \in 0..Len(services)
      /\ view \in 0..Len(objects)
  BY <1>1, TypesAre
<1>3. /\ UNCHANGED <<services, connecting, sessionBinder, viewVars, pendingCommand,
                     openTerminalForSetup, timer>>
      /\ activity' \in {"started", "stopped"} /\ isBound' \in BOOLEAN
      /\ isBound' => isBound
  <2>1. CASE onStop
    <3>1. isBound' = FALSE /\ activity' = "stopped"
      BY <2>1 DEF onStop
    <3>2. QED  BY <2>1, <3>1 DEF onStop
  <2>2. CASE onStartCommand_EXIT
    BY <1>1, <2>2 DEF onStartCommand_EXIT, Scalars, activityVars
  <2>3. QED  BY <2>1, <2>2
<1>4. PICK started, bound, S :
         /\ started \in BOOLEAN /\ bound \in BOOLEAN
         /\ Settle(started, bound, S)
         /\ connecting => bound
  <2>1. CASE onStop
    <3>1. (serviceBound /\ ~isBound) \in BOOLEAN /\ serviceStarted \in BOOLEAN
      BY <1>1 DEF Scalars
    <3>2. connecting => (serviceBound /\ ~isBound)
      BY <1>1 DEF BinderInv
    <3>3. Settle(serviceStarted, serviceBound /\ ~isBound, {})
      BY <2>1 DEF onStop
    <3>4. QED  BY <3>1, <3>2, <3>3
  <2>2. CASE onStartCommand_EXIT
    BY <1>1, <2>2 DEF onStartCommand_EXIT, BinderInv, Scalars
  <2>3. QED  BY <2>1, <2>2
<1>5. /\ objects' \in Seq(Objects) /\ Len(objects') = Len(objects)
      /\ alive' \in BOOLEAN /\ serviceStarted' = started /\ serviceBound' = bound
      /\ live' \in {0, live} /\ (bound => live' = live)
      /\ MapsInv'
  <2>1. UNCHANGED services /\ UNCHANGED sessionBinder /\ view' = view
    BY <1>3 DEF viewVars
  <2>2. QED  BY <1>4, <2>1, SettledKeeps
<1>6. TypeInv'
  <2>1. /\ timer' \in {NoTimer, ThisActivity} \cup 1..Len(services')
        /\ connecting' \in BOOLEAN /\ viewRef' \in BOOLEAN /\ viewSized' \in BOOLEAN
        /\ openTerminalForSetup' \in BOOLEAN
        /\ pendingCommand' \in Ids \cup {NoCommand}
    BY <1>1, <1>3 DEF Scalars, viewVars
  <2>2. /\ Len(objects') <= MaxObjects
        /\ services' \in Seq(Services) /\ Len(services') <= MaxServices
        /\ live' \in 0..Len(services') /\ sessionBinder' \in 0..Len(services')
        /\ view' \in 0..Len(objects')
    BY <1>2, <1>3, <1>5 DEF viewVars
  <2>3. serviceStarted' \in BOOLEAN /\ serviceBound' \in BOOLEAN
    BY <1>4, <1>5
  <2>4. QED  BY <1>3, <1>5, <2>1, <2>2, <2>3, TypesAfter
<1>7. BinderInv'
  BY <1>1, <1>3, <1>4, <1>5 DEF BinderInv, viewVars
<1>8. QED  BY <1>5, <1>6, <1>7 DEF IInv

\* The activity is destroyed.
LEMMA RecreateKeeps ==
    ASSUME IInv, Recreate
    PROVE  IInv'
<1>1. TypeInv /\ BinderInv /\ Scalars
  BY ScalarsAre DEF IInv
<1>2. /\ objects \in Seq(Objects) /\ Len(objects) \in 0..MaxObjects
      /\ services \in Seq(Services) /\ Len(services) \in 0..MaxServices
      /\ live \in 0..Len(services) /\ sessionBinder \in 0..Len(services)
  BY <1>1, TypesAre
<1>3. /\ activity' = "stopped"
      /\ connecting' = FALSE /\ isBound' = FALSE /\ sessionBinder' = 0 /\ view' = 0
      /\ timer' = IF timer = ThisActivity THEN sessionBinder ELSE timer
      /\ UNCHANGED <<services, viewRef, viewSized, pendingCommand, openTerminalForSetup>>
      /\ Settle(serviceStarted, FALSE, {})
  BY DEF Recreate, Destroyed
<1>. DEFINE doomed == {} \cup IF live # 0 /\ ~serviceStarted /\ ~FALSE THEN services[live].sessions ELSE {}
<1>4. /\ live' \in {0, live} /\ serviceStarted' = serviceStarted /\ serviceBound' = FALSE
      /\ objects' = Finished(objects, doomed)
      /\ alive' = Survives(doomed)
  BY <1>3 DEF Settle
<1>5. alive' \in BOOLEAN
  BY <1>4 DEF Survives
<1>. HIDE DEF doomed
<1>6. /\ objects' \in Seq(Objects) /\ Len(objects') = Len(objects)
      /\ Kept(objects, objects')
      /\ \A o \in 1..Len(objects) : objects'[o].state = "running" => objects[o].state = "running"
  BY <1>2, <1>4, FinishedIs
<1>7. TypeInv'
  <2>1. /\ timer' \in {NoTimer, ThisActivity} \cup 1..Len(services')
        /\ connecting' \in BOOLEAN /\ isBound' \in BOOLEAN /\ viewRef' \in BOOLEAN
        /\ viewSized' \in BOOLEAN /\ openTerminalForSetup' \in BOOLEAN
        /\ pendingCommand' \in Ids \cup {NoCommand}
        /\ activity' \in {"started", "stopped"}
        /\ serviceStarted' \in BOOLEAN /\ serviceBound' \in BOOLEAN
    <3>1. timer' \in {NoTimer, ThisActivity} \cup 1..Len(services')
      <4>1. sessionBinder \in {NoTimer} \cup 1..Len(services)
        BY <1>2 DEF NoTimer
      <4>2. QED  BY <1>1, <1>3, <4>1 DEF Scalars
    <3>2. connecting' \in BOOLEAN /\ isBound' \in BOOLEAN
      BY <1>3
    <3>3. serviceStarted' \in BOOLEAN /\ serviceBound' \in BOOLEAN
      BY <1>1, <1>4 DEF Scalars
    <3>4. /\ viewRef' \in BOOLEAN /\ viewSized' \in BOOLEAN /\ openTerminalForSetup' \in BOOLEAN
          /\ pendingCommand' \in Ids \cup {NoCommand}
          /\ activity' \in {"started", "stopped"}
      BY <1>1, <1>3 DEF Scalars
    <3>5. QED  BY <3>1, <3>2, <3>3, <3>4
  <2>2. /\ Len(objects') <= MaxObjects
        /\ services' \in Seq(Services) /\ Len(services') <= MaxServices
        /\ live' \in 0..Len(services') /\ sessionBinder' \in 0..Len(services')
        /\ view' \in 0..Len(objects')
    BY <1>2, <1>3, <1>4, <1>6
  <2>3. QED  BY <1>5, <1>6, <2>1, <2>2, TypesAfter
<1>8. BinderInv'
  <2>1. timer' # ThisActivity
    BY <1>1, <1>2, <1>3 DEF BinderInv, ThisActivity, Scalars, NoTimer
  <2>2. QED  BY <1>1, <1>3, <1>4, <2>1 DEF BinderInv
<1>9. ListInv'
  BY <1>1, <1>3, <1>6, MapsUnchanged DEF IInv, MapsInv
<1>10. OwnedInv'
  <2>1. TypeInv /\ OwnedInv
    BY DEF IInv, MapsInv
  <2>2. Len(services') \in Nat /\ Len(services) <= Len(services')
    BY <1>2, <1>3
  <2>3. \A o \in 1..Len(objects') : o \in 1..Len(objects)
    BY <1>6
  <2>4. QED  BY <1>3, <1>6, <2>1, <2>2, <2>3, OwnedKept
<1>11. ShownInv'
  BY <1>3 DEF ShownInv
<1>12. QED  BY <1>7, <1>8, <1>9, <1>10, <1>11 DEF IInv, MapsInv

\* The activity starts the service and asks to be bound to it.
LEMMA StartKeeps ==
    ASSUME IInv, onStart
    PROVE  IInv'
<1>1. TypeInv /\ BinderInv /\ Scalars
  BY ScalarsAre DEF IInv
<1>2. /\ objects \in Seq(Objects) /\ Len(objects) \in 0..MaxObjects
      /\ services \in Seq(Services) /\ Len(services) \in 0..MaxServices
      /\ live \in 0..Len(services) /\ sessionBinder \in 0..Len(services)
      /\ view \in 0..Len(objects)
  BY <1>1, TypesAre
<1>3. /\ activity' = "started"
      /\ live = 0 => Len(services) < MaxServices
      /\ services' = IF live = 0 THEN Append(services, NewService) ELSE services
      /\ live' = IF live = 0 THEN Len(services') ELSE Len(services')
      /\ serviceStarted' = TRUE /\ serviceBound' = TRUE /\ connecting' = ~isBound
      /\ UNCHANGED <<alive, objects, isBound, sessionBinder, viewVars, pendingCommand,
                     openTerminalForSetup, timer>>
  BY DEF onStart
<1>4. NewService \in Services
  BY DEF NewService, Services
<1>5. /\ services' \in Seq(Services)
      /\ Len(services') \in Nat /\ Len(services) <= Len(services') /\ Len(services') <= MaxServices
      /\ \A i \in 1..Len(services) : services'[i] = services[i]
      /\ \A i \in 1..Len(services') : i \in 1..Len(services) \/ (i = Len(services') /\ services'[i] = NewService)
      /\ live' \in 1..Len(services')
  <2>1. CASE live = 0
    <3>1. /\ Append(services, NewService) \in Seq(Services)
          /\ Len(Append(services, NewService)) = Len(services) + 1
          /\ Append(services, NewService)[Len(services) + 1] = NewService
          /\ \A i \in 1..Len(services) : Append(services, NewService)[i] = services[i]
      BY <1>2, <1>4, Appended
    <3>2. services' = Append(services, NewService) /\ live' = Len(services') /\ Len(services) < MaxServices
      BY <1>3, <2>1
    <3>3. QED  BY <1>2, <3>1, <3>2
  <2>2. CASE live # 0
    BY <1>2, <1>3, <2>2
  <2>3. QED  BY <2>1, <2>2
<1>6. TypeInv'
  <2>1. /\ timer' \in {NoTimer, ThisActivity} \cup 1..Len(services')
        /\ alive' \in BOOLEAN /\ isBound' \in BOOLEAN /\ viewRef' \in BOOLEAN
        /\ viewSized' \in BOOLEAN /\ openTerminalForSetup' \in BOOLEAN
        /\ pendingCommand' \in Ids \cup {NoCommand}
        /\ activity' \in {"started", "stopped"}
        /\ serviceStarted' \in BOOLEAN /\ serviceBound' \in BOOLEAN
    BY <1>1, <1>2, <1>3, <1>5 DEF Scalars, viewVars
  <2>2. connecting' \in BOOLEAN
    BY <1>3
  <2>3. /\ objects' \in Seq(Objects) /\ Len(objects') <= MaxObjects
        /\ live' \in 0..Len(services') /\ sessionBinder' \in 0..Len(services')
        /\ view' \in 0..Len(objects')
    BY <1>2, <1>3, <1>5 DEF viewVars
  <2>4. QED  BY <1>5, <2>1, <2>2, <2>3, TypesAfter
<1>7. BinderInv'
  <2>1. connecting' => live' # 0 /\ serviceBound' /\ ~isBound'
    <3>1. live' # 0
      BY <1>2, <1>5
    <3>2. serviceBound' /\ (connecting' => ~isBound')
      BY <1>3
    <3>3. QED  BY <3>1, <3>2
  <2>2. ASSUME sessionBinder' \notin {0, live'}
        PROVE  services'[live'].sessions = {} /\ services'[live'].currentSession = Webview
    <3>1. CASE live = 0
      <4>1. live' = Len(services') /\ live' = Len(services) + 1
        BY <1>2, <1>3, <1>4, <3>1, Appended
      <4>2. services'[live'] = NewService
        BY <1>2, <1>5, <4>1
      <4>3. QED  BY <4>2 DEF NewService
    <3>2. CASE live # 0
      <4>1. live' = Len(services) /\ UNCHANGED services
        BY <1>3, <3>2
      <4>2. live = Len(services)
        BY <1>1, <3>2 DEF BinderInv
      <4>3. QED  BY <1>1, <1>3, <2>2, <3>2, <4>1, <4>2 DEF BinderInv
    <3>3. QED  BY <3>1, <3>2
  <2>3. live' = Len(services')
    BY <1>3
  <2>4. QED  BY <1>1, <1>3, <2>1, <2>2, <2>3 DEF BinderInv, viewVars
<1>8. Kept(objects, objects')
  BY <1>2, <1>3 DEF Kept
<1>9. ListInv'
  <2>1. ASSUME NEW i \in 1..Len(services')
        PROVE  /\ Listed(services'[i], objects')
               /\ \A o \in services'[i].sessions : objects'[o].service = i
    <3>1. CASE i \in 1..Len(services)
      BY <1>3, <1>5, <3>1 DEF IInv, MapsInv, ListInv
    <3>2. CASE services'[i] = NewService
      BY <3>2 DEF NewService, Listed
    <3>3. QED  BY <1>5, <3>1, <3>2
  <2>2. QED  BY <2>1 DEF ListInv
<1>10. ShownInv'
  <2>1. sessionBinder' = sessionBinder /\ view' = view /\ objects' = objects
    BY <1>3 DEF viewVars
  <2>2. view # 0 => services'[sessionBinder] = services[sessionBinder]
    BY <1>1, <1>2, <1>5 DEF BinderInv
  <2>3. QED  BY <2>1, <2>2 DEF IInv, MapsInv, ShownInv, Service
<1>11. OwnedInv'
  <2>1. TypeInv /\ OwnedInv /\ view' = view
    BY <1>3 DEF IInv, MapsInv, viewVars
  <2>2. \A i \in 1..Len(services) : services[i].sessions \subseteq services'[i].sessions
    BY <1>5
  <2>3. QED  BY <1>2, <1>3, <1>5, <1>8, <2>1, <2>2, OwnedKept
<1>12. QED  BY <1>6, <1>7, <1>9, <1>10, <1>11 DEF IInv, MapsInv

\* The service answers the bind request, and the content is set anew.
LEMMA ConnectedKeeps ==
    ASSUME IInv, onServiceConnected
    PROVE  IInv'
<1>1. TypeInv /\ BinderInv /\ Scalars
  BY ScalarsAre DEF IInv
<1>2. /\ objects \in Seq(Objects) /\ Len(objects) \in 0..MaxObjects
      /\ services \in Seq(Services) /\ Len(services) \in 0..MaxServices
      /\ live \in 0..Len(services) /\ sessionBinder \in 0..Len(services)
      /\ view \in 0..Len(objects)
  BY <1>1, TypesAre
<1>3. /\ connecting /\ connecting' = FALSE /\ isBound' = TRUE /\ sessionBinder' = live
      /\ view' \in {0, view}
      /\ UNCHANGED <<alive, objects, services, live, serviceStarted, serviceBound, activity,
                     viewRef, viewSized, pendingCommand, openTerminalForSetup, timer>>
  BY DEF onServiceConnected, serviceVars
<1>4. live # 0
  BY <1>1, <1>3 DEF BinderInv
<1>5. TypeInv'
  <2>1. /\ timer' \in {NoTimer, ThisActivity} \cup 1..Len(services')
        /\ alive' \in BOOLEAN /\ viewRef' \in BOOLEAN
        /\ viewSized' \in BOOLEAN /\ openTerminalForSetup' \in BOOLEAN
        /\ pendingCommand' \in Ids \cup {NoCommand}
        /\ activity' \in {"started", "stopped"}
        /\ serviceStarted' \in BOOLEAN /\ serviceBound' \in BOOLEAN
    BY <1>1, <1>3 DEF Scalars
  <2>2. connecting' \in BOOLEAN /\ isBound' \in BOOLEAN
    BY <1>3
  <2>3. /\ objects' \in Seq(Objects) /\ Len(objects') <= MaxObjects
        /\ services' \in Seq(Services) /\ Len(services') <= MaxServices
        /\ live' \in 0..Len(services') /\ sessionBinder' \in 0..Len(services')
        /\ view' \in 0..Len(objects')
    BY <1>2, <1>3
  <2>4. QED  BY <2>1, <2>2, <2>3, TypesAfter
<1>6. BinderInv'
  BY <1>1, <1>3, <1>4 DEF BinderInv
<1>7. MapsInv'
  <2>1. CASE view' = 0 \/ sessionBinder = live
    BY <1>3, <2>1, NothingKeeps
  <2>2. CASE view' # 0 /\ sessionBinder # live
    <3>1. view # 0 /\ view' = view
      BY <1>3, <2>2
    <3>2. services[live].currentSession = Webview
      BY <1>1, <1>4, <2>2, <3>1 DEF BinderInv
    <3>3. ShownInv'
      BY <1>3, <3>2 DEF ShownInv, Service
    <3>4. Kept(objects, objects')
      BY <1>2, <1>3 DEF Kept
    <3>5. ListInv'
      BY <1>1, <1>2, <1>3, <3>4, MapsUnchanged DEF IInv, MapsInv
    <3>6. OwnedInv'
      BY <1>3, <3>1 DEF IInv, MapsInv, OwnedInv, Owned
    <3>7. QED  BY <3>3, <3>5, <3>6 DEF MapsInv
  <2>3. QED  BY <2>1, <2>2
<1>8. QED  BY <1>5, <1>6, <1>7 DEF IInv

\* What is left of the invariants after a step of the user interface that keeps
\* the service, the activity and the binder, when the maps are in order.
LEMMA InterfaceKeeps ==
    ASSUME IInv, MapsInv',
           UNCHANGED <<alive, live, serviceBound, activity, connecting, isBound, sessionBinder>>,
           serviceStarted' \in BOOLEAN, viewRef' \in BOOLEAN, viewSized' \in BOOLEAN,
           openTerminalForSetup' \in BOOLEAN,
           objects' \in Seq(Objects), Len(objects') <= MaxObjects,
           services' \in Seq(Services), Len(services') = Len(services),
           view' \in 0..Len(objects'),
           pendingCommand' \in Ids \cup {NoCommand},
           timer' \in {NoTimer, timer} \/ (timer' = ThisActivity /\ sessionBinder # 0),
           view' # 0 => sessionBinder # 0 /\ viewRef',
           \A i \in 1..Len(services) :
              i # sessionBinder => \/ services'[i] = services[i]
                                   \/ services'[i] = [services[i] EXCEPT !.currentSession = Webview]
    PROVE  IInv'
<1>1. TypeInv /\ BinderInv /\ Scalars
  BY ScalarsAre DEF IInv
<1>2. /\ services \in Seq(Services) /\ Len(services) \in 0..MaxServices
      /\ live \in 0..Len(services) /\ sessionBinder \in 0..Len(services)
      /\ \A i \in 1..Len(services) : services[i] \in Services
  BY <1>1, TypesAre
<1>3. TypeInv'
  <2>1. timer' \in {NoTimer, ThisActivity} \cup 1..Len(services')
    BY <1>1 DEF Scalars
  <2>2. /\ alive' \in BOOLEAN /\ connecting' \in BOOLEAN /\ isBound' \in BOOLEAN
        /\ serviceBound' \in BOOLEAN /\ activity' \in {"started", "stopped"}
    BY <1>1 DEF Scalars
  <2>3. /\ Len(services') <= MaxServices
        /\ live' \in 0..Len(services') /\ sessionBinder' \in 0..Len(services')
    BY <1>2
  <2>4. QED  BY <2>1, <2>2, <2>3, TypesAfter
<1>4. BinderInv'
  <2>1. timer' = ThisActivity => sessionBinder' # 0
    BY <1>1 DEF BinderInv, NoTimer, ThisActivity
  <2>2. (sessionBinder \notin {0, live} /\ live # 0) =>
           services'[live].sessions = {} /\ services'[live].currentSession = Webview
    BY <1>1, <1>2 DEF BinderInv, Services
  <2>3. QED  BY <1>1, <2>1, <2>2 DEF BinderInv
<1>5. QED  BY <1>3, <1>4 DEF IInv

\* The current session of a service changes, and with a view only to the web view.
LEMMA CurrentChanged ==
    ASSUME IInv, NEW b \in 1..Len(services), NEW id \in Ids \cup {Webview},
           services' = [services EXCEPT ![b].currentSession = id],
           UNCHANGED <<objects, view, sessionBinder>>,
           view # 0 /\ b = sessionBinder => id = Webview
    PROVE  /\ objects' \in Seq(Objects) /\ Len(objects') <= MaxObjects
           /\ services' \in Seq(Services) /\ Len(services') = Len(services)
           /\ view' \in 0..Len(objects')
           /\ services'[b] = [services[b] EXCEPT !.currentSession = id]
           /\ \A i \in 1..Len(services) : i # b => services'[i] = services[i]
           /\ MapsInv'
<1>. DEFINE r == [services[b] EXCEPT !.currentSession = id]
<1>1. /\ TypeInv /\ ListInv
      /\ objects \in Seq(Objects) /\ Len(objects) \in 0..MaxObjects
      /\ services \in Seq(Services) /\ Len(services) \in Nat
      /\ services[b] \in Services
      /\ view \in 0..Len(objects) /\ sessionBinder \in 0..Len(services)
  BY TypesAre DEF IInv, MapsInv
<1>2. /\ r \in Services /\ r.currentSession = id /\ r.sessions = services[b].sessions
      /\ \A objs : Listed(services[b], objs) => Listed(r, objs)
  BY <1>1, CurrentIs
<1>3. services' = [services EXCEPT ![b] = r]
  BY <1>1
<1>. HIDE DEF r
<1>4. Kept(objects, objects')
  BY <1>1 DEF Kept
<1>5. Listed(r, objects') /\ \A o \in r.sessions : objects'[o].service = b
  BY <1>1, <1>2 DEF ListInv
<1>6. /\ services' \in Seq(Services) /\ Len(services') = Len(services)
      /\ services'[b] = r
      /\ \A i \in 1..Len(services) : i # b => services'[i] = services[i]
      /\ ListInv'
  BY <1>1, <1>2, <1>3, <1>4, <1>5, MapsChanged
<1>7. \A i \in 1..Len(services) : services'[i].sessions = services[i].sessions
  BY <1>2, <1>6
<1>8. ShownInv'
  <2>1. CASE view = 0
    BY <2>1 DEF ShownInv
  <2>2. CASE view # 0
    <3>1. sessionBinder \in 1..Len(services)
      BY <1>1, <2>2 DEF IInv, BinderInv
    <3>2. CASE b = sessionBinder
      BY <1>2, <1>6, <2>2, <3>2 DEF ShownInv, Service
    <3>3. CASE b # sessionBinder
      BY <1>6, <3>1, <3>3 DEF IInv, MapsInv, ShownInv, Service
    <3>4. QED  BY <3>2, <3>3
  <2>3. QED  BY <2>1, <2>2
<1>9. OwnedInv'
  <2>1. OwnedInv /\ \A i \in 1..Len(services) : services[i].sessions \subseteq services'[i].sessions
    BY <1>7 DEF IInv, MapsInv
  <2>2. Len(services') \in Nat /\ Len(services) <= Len(services')
    BY <1>1, <1>6
  <2>3. QED  BY <1>1, <1>4, <2>1, <2>2, OwnedKept
<1>10. QED  BY <1>1, <1>6, <1>8, <1>9 DEF MapsInv, r

\* A session is changed to: opened in the view, or left to the composition.
LEMMA ChangedKeeps ==
    ASSUME IInv, sessionBinder # 0, UNCHANGED sessionBinder,
           NEW id \in Ids \cup {Webview}, NEW command \in Ids \cup {NoCommand},
           changeSession(id, command),
           view # 0 => viewRef
    PROVE  /\ objects' \in Seq(Objects) /\ Len(objects') <= MaxObjects
           /\ services' \in Seq(Services) /\ Len(services') = Len(services)
           /\ view' \in 0..Len(objects') /\ (view' # 0 => view # 0)
           /\ pendingCommand' \in Ids \cup {NoCommand}
           /\ \A i \in 1..Len(services) : i # sessionBinder => services'[i] = services[i]
           /\ MapsInv'
<1>1. CASE id # Webview /\ viewRef
  <2>1. id \in Ids
    BY <1>1
  <2>2. Open(id, command)
    BY <1>1 DEF changeSession
  <2>3. /\ Len(FoundObjects(id, command)) <= MaxObjects
        /\ objects' = IF viewSized THEN Sized(FoundObjects(id, command), FoundObject(id))
                                   ELSE FoundObjects(id, command)
        /\ services' = [services EXCEPT ![sessionBinder] =
                           [FoundService(id) EXCEPT !.currentSession = id]]
        /\ pendingCommand' = IF Named(Service, objects, id) = {} THEN NoCommand ELSE command
        /\ view' = IF view = 0 THEN 0 ELSE FoundObject(id)
    BY <2>2 DEF Open, FoundObjects, FoundObject, FoundService
  <2>4. /\ objects' = FoundObjects(id, command) \/ objects' = Sized(FoundObjects(id, command), FoundObject(id))
        /\ view' \in {0, FoundObject(id)}
        /\ pendingCommand' \in Ids \cup {NoCommand}
        /\ (view' # 0 => view # 0)
    BY <2>3
  <2>5. /\ objects' \in Seq(Objects) /\ Len(objects') <= MaxObjects
        /\ services' \in Seq(Services) /\ Len(services') = Len(services)
        /\ view' \in 0..Len(objects')
        /\ \A i \in 1..Len(services) : i # sessionBinder => services'[i] = services[i]
        /\ MapsInv'
    BY <2>1, <2>3, <2>4, OpenedKeeps
  <2>6. QED  BY <2>4, <2>5
<1>2. CASE ~(id # Webview /\ viewRef)
  <2>1. /\ services' = [services EXCEPT ![sessionBinder].currentSession = id]
        /\ pendingCommand' = command
        /\ UNCHANGED <<objects, view>>
    BY <1>2 DEF changeSession
  <2>2. view # 0 => id = Webview
    BY <1>2
  <2>3. sessionBinder \in 1..Len(services)
    BY TypesAre DEF IInv
  <2>4. /\ objects' \in Seq(Objects) /\ Len(objects') <= MaxObjects
        /\ services' \in Seq(Services) /\ Len(services') = Len(services)
        /\ view' \in 0..Len(objects')
        /\ \A i \in 1..Len(services) : i # sessionBinder => services'[i] = services[i]
        /\ MapsInv'
    BY <2>1, <2>2, <2>3, CurrentChanged
  <2>5. QED  BY <2>1, <2>4
<1>3. QED  BY <1>1, <1>2

\* Sessions are added and selected in the drawer, or opened for the server.
LEMMA DrawerKeeps ==
    ASSUME IInv, AddSession \/ SelectSession \/ StartServer
    PROVE  IInv'
<1>1. TypeInv /\ BinderInv /\ Scalars
  BY ScalarsAre DEF IInv
<1>2. /\ sessionBinder # 0
      /\ UNCHANGED <<alive, live, serviceStarted, serviceBound, activity, connecting, isBound,
                     sessionBinder, viewRef, viewSized, openTerminalForSetup>>
      /\ timer' \in {timer, ThisActivity}
  BY DEF AddSession, SelectSession, StartServer, OnWebview, Interactive, activityVars
<1>3. PICK id \in Ids \cup {Webview}, command \in Ids \cup {NoCommand} :
         changeSession(id, command)
  <2>1. pendingCommand \in Ids \cup {NoCommand}
    BY <1>1 DEF Scalars
  <2>2. CASE AddSession
    <3>1. PICK n \in 1..MaxObjects : changeSession(<<"main", n>>, pendingCommand)
      BY <2>2 DEF AddSession
    <3>2. <<"main", n>> \in Ids
      BY DEF Ids
    <3>3. QED  BY <2>1, <3>1, <3>2
  <2>3. CASE SelectSession
    <3>1. PICK id \in Service.sessionList : changeSession(id, pendingCommand)
      BY <2>3 DEF SelectSession
    <3>2. Service \in Services
      BY <1>1, <1>2, TypesAre DEF Service
    <3>3. id \in Ids \cup {Webview}
      BY <3>2 DEF Services
    <3>4. QED  BY <2>1, <3>1, <3>3
  <2>4. CASE StartServer
    <3>1. changeSession(Fresh("server"), Fresh("server"))
      BY <2>4 DEF StartServer
    <3>2. Fresh("server") \in Ids
      BY <1>1, FreshIs
    <3>3. QED  BY <3>1, <3>2
  <2>5. QED  BY <2>2, <2>3, <2>4
<1>4. view # 0 => viewRef
  BY <1>1 DEF BinderInv
<1>5. /\ objects' \in Seq(Objects) /\ Len(objects') <= MaxObjects
      /\ services' \in Seq(Services) /\ Len(services') = Len(services)
      /\ view' \in 0..Len(objects') /\ (view' # 0 => view # 0)
      /\ pendingCommand' \in Ids \cup {NoCommand}
      /\ \A i \in 1..Len(services) : i # sessionBinder => services'[i] = services[i]
      /\ MapsInv'
  BY <1>2, <1>3, <1>4, ChangedKeeps
<1>6. /\ serviceStarted' \in BOOLEAN /\ viewRef' \in BOOLEAN /\ viewSized' \in BOOLEAN
      /\ openTerminalForSetup' \in BOOLEAN
  BY <1>1, <1>2 DEF Scalars
<1>7. view' # 0 => sessionBinder # 0 /\ viewRef'
  BY <1>2, <1>4, <1>5
<1>8. timer' \in {NoTimer, timer} \/ (timer' = ThisActivity /\ sessionBinder # 0)
  BY <1>2
<1>9. QED  BY <1>2, <1>5, <1>6, <1>7, <1>8, InterfaceKeeps

\* The web view becomes current, by itself, or is left for the setup.
LEMMA SwitchKeeps ==
    ASSUME IInv, TimerFires \/ installResources
    PROVE  IInv'
<1>1. TypeInv /\ BinderInv /\ Scalars
  BY ScalarsAre DEF IInv
<1>2. /\ UNCHANGED <<alive, live, serviceStarted, serviceBound, activity, connecting, isBound,
                     sessionBinder, view, viewRef, viewSized, objects, pendingCommand>>
      /\ timer' \in {timer, NoTimer}
      /\ openTerminalForSetup' \in BOOLEAN
  <2>1. CASE TimerFires
    BY <1>1, <2>1 DEF TimerFires, activityVars, viewVars, Scalars
  <2>2. CASE installResources
    BY <2>2 DEF installResources, activityVars, viewVars
  <2>3. QED  BY <2>1, <2>2
<1>3. PICK b \in 1..Len(services), id \in Ids \cup {Webview} :
         /\ services' = [services EXCEPT ![b].currentSession = id]
         /\ view # 0 /\ b = sessionBinder => id = Webview
         /\ b # sessionBinder => id = Webview
  <2>1. CASE TimerFires
    <3>. DEFINE b == IF timer = ThisActivity THEN sessionBinder ELSE timer
    <3>1. services' = [services EXCEPT ![b].currentSession = Webview] /\ timer # NoTimer
      BY <2>1 DEF TimerFires
    <3>2. b \in 1..Len(services)
      <4>1. CASE timer = ThisActivity
        <5>1. sessionBinder # 0
          BY <1>1, <4>1 DEF BinderInv
        <5>2. sessionBinder \in 1..Len(services)
          BY <1>1, <5>1, TypesAre
        <5>3. QED  BY <4>1, <5>2
      <4>2. CASE timer # ThisActivity
        BY <1>1, <3>1, <4>2 DEF Scalars
      <4>3. QED  BY <4>1, <4>2
    <3>. HIDE DEF b
    <3>3. QED  BY <3>1, <3>2
  <2>2. CASE installResources
    <3>1. /\ sessionBinder # 0 /\ view = 0
          /\ services' = [services EXCEPT ![sessionBinder].currentSession = Fresh("setup")]
      BY <2>2 DEF installResources, OnWebview, Interactive
    <3>2. sessionBinder \in 1..Len(services) /\ Fresh("setup") \in Ids
      BY <1>1, <3>1, TypesAre, FreshIs
    <3>3. QED  BY <3>1, <3>2
  <2>3. QED  BY <2>1, <2>2
<1>4. UNCHANGED <<objects, view, sessionBinder>>
  BY <1>2
<1>5. /\ objects' \in Seq(Objects) /\ Len(objects') <= MaxObjects
      /\ services' \in Seq(Services) /\ Len(services') = Len(services)
      /\ view' \in 0..Len(objects')
      /\ services'[b] = [services[b] EXCEPT !.currentSession = id]
      /\ \A i \in 1..Len(services) : i # b => services'[i] = services[i]
      /\ MapsInv'
  BY <1>3, <1>4, CurrentChanged
<1>6. \A i \in 1..Len(services) :
         i # sessionBinder => \/ services'[i] = services[i]
                              \/ services'[i] = [services[i] EXCEPT !.currentSession = Webview]
  BY <1>3, <1>5
<1>7. /\ serviceStarted' \in BOOLEAN /\ viewRef' \in BOOLEAN /\ viewSized' \in BOOLEAN
      /\ openTerminalForSetup' \in BOOLEAN /\ pendingCommand' \in Ids \cup {NoCommand}
  BY <1>1, <1>2 DEF Scalars
<1>8. view' # 0 => sessionBinder # 0 /\ viewRef'
  BY <1>1, <1>2 DEF BinderInv
<1>9. timer' \in {NoTimer, timer} \/ (timer' = ThisActivity /\ sessionBinder # 0)
  BY <1>2
<1>10. QED  BY <1>2, <1>5, <1>6, <1>7, <1>8, <1>9, InterfaceKeeps

\* The terminal view is composed, laid out, taken away and collected.
LEMMA ComposeKeeps ==
    ASSUME IInv, ComposeTerminal
    PROVE  IInv'
<1>1. TypeInv /\ BinderInv /\ Scalars
  BY ScalarsAre DEF IInv
<1>. DEFINE id == IF openTerminalForSetup THEN Fresh("setup")
                  ELSE IF pendingCommand # NoCommand THEN pendingCommand
                  ELSE Service.currentSession
<1>2. /\ sessionBinder # 0 /\ Service.currentSession # Webview
      /\ UNCHANGED <<alive, live, serviceStarted, serviceBound, activity, connecting, isBound,
                     sessionBinder, timer>>
      /\ openTerminalForSetup' = FALSE /\ viewRef' = TRUE
  BY DEF ComposeTerminal, Interactive, activityVars
<1>3. id \in Ids
  <2>1. Service \in Services
    BY <1>1, <1>2, TypesAre DEF Service
  <2>2. Service.currentSession \in Ids
    BY <1>2, <2>1 DEF Services
  <2>3. Fresh("setup") \in Ids
    BY <1>1, FreshIs
  <2>4. QED  BY <1>1, <2>2, <2>3 DEF Scalars
<1>4. PICK sized \in BOOLEAN :
         /\ Len(FoundObjects(id, pendingCommand)) <= MaxObjects
         /\ services' = [services EXCEPT ![sessionBinder] =
                            [FoundService(id) EXCEPT !.currentSession = id]]
         /\ pendingCommand' = IF Named(Service, objects, id) = {} THEN NoCommand
                                                                 ELSE pendingCommand
         /\ view' = FoundObject(id)
         /\ viewSized' = sized
         /\ objects' = IF sized THEN Sized(FoundObjects(id, pendingCommand), FoundObject(id))
                                ELSE FoundObjects(id, pendingCommand)
  BY DEF ComposeTerminal, FoundObjects, FoundObject, FoundService
<1>. HIDE DEF id
<1>5. /\ objects' = FoundObjects(id, pendingCommand) \/ objects' = Sized(FoundObjects(id, pendingCommand), FoundObject(id))
      /\ view' \in {0, FoundObject(id)}
      /\ pendingCommand \in Ids \cup {NoCommand} /\ pendingCommand' \in Ids \cup {NoCommand}
      /\ viewSized' \in BOOLEAN
  BY <1>1, <1>4 DEF Scalars
<1>6. /\ objects' \in Seq(Objects) /\ Len(objects') <= MaxObjects
      /\ services' \in Seq(Services) /\ Len(services') = Len(services)
      /\ view' \in 0..Len(objects')
      /\ \A i \in 1..Len(services) : i # sessionBinder => services'[i] = services[i]
      /\ MapsInv'
  BY <1>2, <1>3, <1>4, <1>5, OpenedKeeps
<1>7. serviceStarted' \in BOOLEAN /\ viewRef' \in BOOLEAN /\ openTerminalForSetup' \in BOOLEAN
  BY <1>1, <1>2 DEF Scalars
<1>8. QED  BY <1>2, <1>5, <1>6, <1>7, InterfaceKeeps

\* The view gets its size, and its session starts.
LEMMA LayoutKeeps ==
    ASSUME IInv, Layout
    PROVE  IInv'
<1>1. TypeInv /\ BinderInv /\ Scalars /\ ListInv /\ ShownInv /\ OwnedInv
  BY ScalarsAre DEF IInv, MapsInv
<1>2. /\ sessionBinder # 0 /\ view # 0
      /\ UNCHANGED <<alive, live, serviceStarted, serviceBound, activity, connecting, isBound,
                     sessionBinder, services, view, viewRef, pendingCommand,
                     openTerminalForSetup, timer>>
      /\ viewSized' = TRUE
      /\ objects' = Sized(objects, view)
  BY DEF Layout, Interactive, activityVars, serviceVars
<1>3. /\ objects \in Seq(Objects) /\ Len(objects) \in 0..MaxObjects
      /\ services \in Seq(Services) /\ Len(services) \in 0..MaxServices
      /\ view \in 1..Len(objects)
  BY <1>1, <1>2, TypesAre
<1>4. /\ objects' \in Seq(Objects) /\ Len(objects') = Len(objects)
      /\ Kept(objects, objects')
      /\ \A o \in 1..Len(objects) :
            objects'[o].state = IF o = view /\ objects[o].state = "created" THEN "running"
                                                                         ELSE objects[o].state
  BY <1>2, <1>3, SizedIs
<1>5. ListInv'
  BY <1>1, <1>2, <1>4, MapsUnchanged
<1>6. ShownInv'
  BY <1>1, <1>2, <1>3, <1>4 DEF ShownInv, Service, Kept
<1>7. OwnedInv'
  <2>1. \A o \in 1..Len(objects') :
           objects'[o].state = "running" =>
              \/ o \in 1..Len(objects) /\ objects[o].state = "running"
              \/ o \in 1..Len(objects) /\ Owned(o, objects, services)
    BY <1>1, <1>2, <1>4 DEF OwnedInv
  <2>2. \A o \in 1..Len(objects') : o \in 1..Len(objects)
    BY <1>4
  <2>3. objects'[view'].state # "created"
    BY <1>2, <1>3, <1>4
  <2>4. QED  BY <1>1, <1>2, <1>3, <1>4, <2>1, <2>2, <2>3, OwnedKept
<1>8. /\ serviceStarted' \in BOOLEAN /\ viewRef' \in BOOLEAN /\ viewSized' \in BOOLEAN
      /\ openTerminalForSetup' \in BOOLEAN /\ pendingCommand' \in Ids \cup {NoCommand}
      /\ view' \in 0..Len(objects') /\ Len(objects') <= MaxObjects
  BY <1>1, <1>2, <1>3, <1>4 DEF Scalars
<1>9. view' # 0 => sessionBinder # 0 /\ viewRef'
  BY <1>1, <1>2 DEF BinderInv
<1>10. QED
  BY <1>2, <1>3, <1>4, <1>5, <1>6, <1>7, <1>8, <1>9, InterfaceKeeps DEF MapsInv

\* The view goes, or the reference to it.
LEMMA DisposeKeeps ==
    ASSUME IInv, DisposeTerminal \/ CollectView
    PROVE  IInv'
<1>1. TypeInv /\ BinderInv /\ Scalars
  BY ScalarsAre DEF IInv
<1>2. /\ UNCHANGED <<alive, live, serviceStarted, serviceBound, activity, connecting, isBound,
                     sessionBinder, services, objects, pendingCommand, openTerminalForSetup,
                     timer>>
      /\ view' = 0 /\ viewRef' \in {FALSE, viewRef} /\ viewSized' \in {FALSE, viewSized}
  BY DEF DisposeTerminal, CollectView, activityVars, serviceVars
<1>3. /\ objects \in Seq(Objects) /\ Len(objects) \in 0..MaxObjects
      /\ services \in Seq(Services) /\ Len(services) \in 0..MaxServices
  BY <1>1, TypesAre
<1>4. MapsInv'
  BY <1>2, NothingKeeps
<1>5. /\ serviceStarted' \in BOOLEAN /\ viewRef' \in BOOLEAN /\ viewSized' \in BOOLEAN
      /\ openTerminalForSetup' \in BOOLEAN /\ pendingCommand' \in Ids \cup {NoCommand}
      /\ view' \in 0..Len(objects') /\ Len(objects') <= MaxObjects
  <2>1. viewRef \in BOOLEAN /\ viewSized \in BOOLEAN
    BY <1>1 DEF Scalars
  <2>2. viewRef' \in BOOLEAN /\ viewSized' \in BOOLEAN
    BY <1>2, <2>1, Zenon
  <2>3. QED  BY <1>1, <1>2, <1>3, <2>2 DEF Scalars
<1>6. QED  BY <1>2, <1>3, <1>4, <1>5, InterfaceKeeps

\* A shell has ended.
LEMMA ExitedKeeps ==
    ASSUME IInv, NEW p \in DOMAIN objects, ProcessExited(p)
    PROVE  IInv'
<1>1. TypeInv /\ BinderInv /\ Scalars /\ ListInv /\ ShownInv /\ OwnedInv
  BY ScalarsAre DEF IInv, MapsInv
<1>2. /\ UNCHANGED <<alive, live, serviceStarted, serviceBound, activity, connecting, isBound,
                     sessionBinder, services, view, viewRef, viewSized, pendingCommand,
                     openTerminalForSetup, timer>>
      /\ objects' = [objects EXCEPT ![p].state = "exited"]
  BY DEF ProcessExited, activityVars, serviceVars, viewVars
<1>3. /\ objects \in Seq(Objects) /\ Len(objects) \in 0..MaxObjects
      /\ services \in Seq(Services) /\ Len(services) \in 0..MaxServices
      /\ view \in 0..Len(objects) /\ p \in 1..Len(objects) /\ objects[p] \in Objects
  BY <1>1, <1>2, TypesAre
<1>. DEFINE e == [objects[p] EXCEPT !.state = "exited"]
<1>4. e \in Objects /\ e.id = objects[p].id /\ e.service = objects[p].service /\ e.state = "exited"
  BY <1>3 DEF Objects
<1>5. objects' = [objects EXCEPT ![p] = e]
  BY <1>2
<1>. HIDE DEF e
<1>6. /\ objects' \in Seq(Objects) /\ Len(objects') = Len(objects)
      /\ objects'[p] = e
      /\ \A o \in 1..Len(objects) : o # p => objects'[o] = objects[o]
  BY <1>3, <1>4, <1>5, Changed
<1>7. Kept(objects, objects')
  BY <1>3, <1>4, <1>6 DEF Kept
<1>8. \A o \in 1..Len(objects) :
         /\ objects'[o].state = "running" => objects[o].state = "running"
         /\ objects'[o].state = "created" => objects[o].state = "created"
  BY <1>4, <1>6
<1>9. ListInv'
  BY <1>1, <1>2, <1>6, <1>7, MapsUnchanged
<1>10. ShownInv'
  BY <1>1, <1>2, <1>3, <1>7 DEF ShownInv, Service, Kept
<1>11. OwnedInv'
  <2>1. \A o \in 1..Len(objects') : o \in 1..Len(objects)
    BY <1>6
  <2>2. view' # 0 /\ objects'[view'].state = "created" => view' = view /\ objects[view].state = "created"
    BY <1>2, <1>3, <1>8
  <2>3. QED  BY <1>1, <1>2, <1>3, <1>6, <1>7, <1>8, <2>1, <2>2, OwnedKept
<1>12. /\ serviceStarted' \in BOOLEAN /\ viewRef' \in BOOLEAN /\ viewSized' \in BOOLEAN
       /\ openTerminalForSetup' \in BOOLEAN /\ pendingCommand' \in Ids \cup {NoCommand}
       /\ view' \in 0..Len(objects') /\ Len(objects') <= MaxObjects
  BY <1>1, <1>2, <1>3, <1>6 DEF Scalars
<1>13. view' # 0 => sessionBinder # 0 /\ viewRef'
  BY <1>1, <1>2 DEF BinderInv
<1>14. QED
  BY <1>2, <1>3, <1>6, <1>9, <1>10, <1>11, <1>12, <1>13, InterfaceKeeps DEF MapsInv

\* A session is terminated and leaves the maps of the service: it is the only
\* one that they lose, and it does not run any more.  The view may be given
\* another session that is left.
LEMMA RemovedKeeps ==
    ASSUME IInv, sessionBinder # 0, NEW id, NEW q \in Services,
           q.sessions = {o \in Service.sessions : objects[o].id # id},
           Listed(q, objects),
           services' = [services EXCEPT ![sessionBinder] = q],
           objects' \in Seq(Objects), Len(objects') = Len(objects), Kept(objects, objects'),
           \A o \in 1..Len(objects) :
              objects'[o].state = "running" =>
                 \/ objects[o].state = "running" /\ o \notin Terminated(id)
                 \/ o \in q.sessions,
           \/ view' = 0
           \/ /\ UNCHANGED sessionBinder
              /\ view' \in 1..Len(objects)
              /\ view' \in q.sessions
              /\ q.currentSession = Webview \/ objects[view'].id = q.currentSession
           \/ /\ UNCHANGED sessionBinder
              /\ view' \in 1..Len(objects)
              /\ q.currentSession = Webview
              /\ objects'[view'].state # "created"
    PROVE  /\ services' \in Seq(Services) /\ Len(services') = Len(services)
           /\ view' \in 0..Len(objects')
           /\ services'[sessionBinder] = q
           /\ \A i \in 1..Len(services) : i # sessionBinder => services'[i] = services[i]
           /\ MapsInv'
<1>1. /\ TypeInv /\ ListInv /\ OwnedInv
      /\ objects \in Seq(Objects) /\ Len(objects) \in Nat
      /\ services \in Seq(Services) /\ Len(services) \in Nat
      /\ sessionBinder \in 1..Len(services)
  BY TypesAre DEF IInv, MapsInv
<1>2. \A o \in Service.sessions : o \in 1..Len(objects) /\ objects[o].service = sessionBinder
  BY <1>1 DEF ListInv, Listed, Service
<1>3. \A o \in 1..Len(objects) :
         objects'[o].id = objects[o].id /\ objects'[o].service = objects[o].service
  BY DEF Kept
<1>4. Listed(q, objects')
  BY <1>1, ListedKept
<1>5. \A o \in q.sessions : o \in 1..Len(objects) /\ objects'[o].service = sessionBinder
  BY <1>2, <1>3
<1>6. /\ services' \in Seq(Services) /\ Len(services') = Len(services)
      /\ services'[sessionBinder] = q
      /\ \A i \in 1..Len(services) : i # sessionBinder => services'[i] = services[i]
      /\ ListInv'
  BY <1>1, <1>4, <1>5, MapsChanged
<1>7. view' \in 0..Len(objects')
  BY <1>1
<1>8. ShownInv'
  BY <1>1, <1>3, <1>6 DEF ShownInv, Service
<1>9. \A o \in q.sessions : Owned(o, objects', services')
  BY <1>5, <1>6 DEF Owned
<1>10. \A o \in 1..Len(objects') : objects'[o].service <= Len(services')
  BY <1>1, <1>3, <1>6 DEF OwnedInv
<1>11. ASSUME NEW o \in 1..Len(objects), objects'[o].state = "running"
       PROVE  Owned(o, objects', services')
  <2>1. CASE o \in q.sessions
    BY <1>9, <2>1
  <2>2. CASE objects[o].state = "running" /\ o \notin Terminated(id) /\ o \notin q.sessions
    <3>1. o \in services[objects[o].service].sessions
      BY <1>1, <2>2 DEF OwnedInv, Owned
    <3>2. objects[o].service \in 1..Len(services)
      <4>1. objects[o].service \in Nat \ {0}
        BY <1>1, TypesAre DEF Objects
      <4>2. QED  BY <1>1, <4>1 DEF OwnedInv
    <3>3. o \notin Service.sessions
      BY <2>2 DEF Terminated, Named
    <3>4. objects[o].service # sessionBinder
      BY <3>1, <3>3 DEF Service
    <3>5. services'[objects[o].service] = services[objects[o].service]
      BY <1>6, <3>2, <3>4
    <3>6. QED  BY <1>3, <3>1, <3>5 DEF Owned
  <2>3. QED  BY <1>11, <2>1, <2>2
<1>12. view' # 0 /\ objects'[view'].state = "created" => Owned(view', objects', services')
  BY <1>9
<1>13. OwnedInv'
  BY <1>10, <1>11, <1>12 DEF OwnedInv
<1>14. QED  BY <1>6, <1>7, <1>8, <1>13 DEF MapsInv

\* What terminateSession makes of the service and of its objects.
LEMMA TerminatedIs ==
    ASSUME IInv, sessionBinder # 0, NEW id
    PROVE  /\ Without(Service, objects, id) \in Services
           /\ Without(Service, objects, id).currentSession = Service.currentSession
           /\ Without(Service, objects, id).sessions = {o \in Service.sessions : objects[o].id # id}
           /\ Without(Service, objects, id).sessionList = Service.sessionList \ {id}
           /\ Listed(Without(Service, objects, id), objects)
           /\ StillStarted(Without(Service, objects, id)) \in BOOLEAN
           /\ \A S : Terminated(id) \subseteq S =>
                 /\ Finished(objects, S) \in Seq(Objects)
                 /\ Len(Finished(objects, S)) = Len(objects)
                 /\ Kept(objects, Finished(objects, S))
                 /\ \A o \in 1..Len(objects) :
                       Finished(objects, S)[o].state = "running" =>
                          objects[o].state = "running" /\ o \notin Terminated(id)
<1>1. objects \in Seq(Objects) /\ Service \in Services /\ sessionBinder \in 1..Len(services)
  BY TypesAre DEF IInv, Service
<1>2. Listed(Service, objects)
  BY <1>1 DEF IInv, MapsInv, ListInv, Service
<1>3. /\ Without(Service, objects, id) \in Services
      /\ Without(Service, objects, id).currentSession = Service.currentSession
      /\ Without(Service, objects, id).sessions = {o \in Service.sessions : objects[o].id # id}
      /\ Without(Service, objects, id).sessionList = Service.sessionList \ {id}
      /\ Listed(Without(Service, objects, id), objects)
  BY <1>1, <1>2, WithoutIs
<1>4. StillStarted(Without(Service, objects, id)) \in BOOLEAN
  BY ScalarsAre DEF IInv, Scalars, StillStarted
<1>5. ASSUME NEW S, Terminated(id) \subseteq S
      PROVE  /\ Finished(objects, S) \in Seq(Objects)
             /\ Len(Finished(objects, S)) = Len(objects)
             /\ Kept(objects, Finished(objects, S))
             /\ \A o \in 1..Len(objects) :
                   Finished(objects, S)[o].state = "running" =>
                      objects[o].state = "running" /\ o \notin Terminated(id)
  BY <1>1, <1>5, FinishedIs
<1>6. QED  BY <1>3, <1>4, <1>5

\* A session is deleted in the drawer.
LEMMA DeleteKeeps ==
    ASSUME IInv, DeleteSession
    PROVE  IInv'
<1>1. TypeInv /\ BinderInv /\ Scalars /\ ShownInv
  BY ScalarsAre DEF IInv, MapsInv
<1>2. /\ sessionBinder # 0
      /\ (Service.currentSession # Webview) <=> (view # 0)
      /\ UNCHANGED <<alive, live, serviceBound, activity, connecting, isBound, sessionBinder,
                     view, viewRef, viewSized, pendingCommand, openTerminalForSetup, timer>>
  BY DEF DeleteSession, Interactive, Composed, activityVars, viewVars
<1>3. PICK id : /\ id # Service.currentSession
                /\ services' = [services EXCEPT ![sessionBinder] = Without(Service, objects, id)]
                /\ serviceStarted' = StillStarted(Without(Service, objects, id))
                /\ objects' = Finished(objects, Terminated(id))
  BY DEF DeleteSession
<1>. DEFINE q == Without(Service, objects, id)
<1>4. /\ q \in Services
      /\ q.currentSession = Service.currentSession
      /\ q.sessions = {o \in Service.sessions : objects[o].id # id}
      /\ Listed(q, objects)
      /\ serviceStarted' \in BOOLEAN
      /\ objects' \in Seq(Objects) /\ Len(objects') = Len(objects)
      /\ Kept(objects, objects')
      /\ \A o \in 1..Len(objects) :
            objects'[o].state = "running" => objects[o].state = "running" /\ o \notin Terminated(id)
  BY <1>2, <1>3, TerminatedIs
<1>. HIDE DEF q
<1>5. Len(objects) \in 0..MaxObjects /\ view \in 0..Len(objects)
  BY <1>1, TypesAre
<1>6. view # 0 => /\ view \in 1..Len(objects) /\ view \in q.sessions
                  /\ objects[view].id = q.currentSession
  BY <1>1, <1>2, <1>3, <1>4, <1>5 DEF ShownInv
<1>7. services' = [services EXCEPT ![sessionBinder] = q]
  BY <1>3 DEF q
<1>8. /\ services' \in Seq(Services) /\ Len(services') = Len(services)
      /\ view' \in 0..Len(objects')
      /\ \A i \in 1..Len(services) : i # sessionBinder => services'[i] = services[i]
      /\ MapsInv'
  BY <1>2, <1>4, <1>6, <1>7, RemovedKeeps
<1>9. /\ viewRef' \in BOOLEAN /\ viewSized' \in BOOLEAN /\ openTerminalForSetup' \in BOOLEAN
      /\ pendingCommand' \in Ids \cup {NoCommand} /\ Len(objects') <= MaxObjects
  BY <1>1, <1>2, <1>4, <1>5 DEF Scalars
<1>10. view' # 0 => sessionBinder # 0 /\ viewRef'
  BY <1>1, <1>2 DEF BinderInv
<1>11. QED  BY <1>2, <1>4, <1>8, <1>9, <1>10, InterfaceKeeps

\* ENTER in a finished session, which leaves the maps, goes to one that is left.
LEMMA EnterGoes ==
    ASSUME IInv, Enter, Without(Service, objects, Service.currentSession).sessionList # {}
    PROVE  IInv'
<1>. DEFINE id == Service.currentSession
            r == Without(Service, objects, id)
            objs == Finished(objects, Terminated(id))
<1>1. TypeInv /\ BinderInv /\ Scalars
  BY ScalarsAre DEF IInv
<1>2. /\ sessionBinder # 0 /\ view # 0 /\ objects[view].state = "exited"
      /\ UNCHANGED <<viewRef, viewSized, pendingCommand, openTerminalForSetup>>
  BY DEF Enter, Interactive
<1>3. PICK next \in r.sessionList :
         /\ services' = [services EXCEPT ![sessionBinder] = [r EXCEPT !.currentSession = next]]
         /\ IF next = Webview
            THEN objects' = objs /\ UNCHANGED view
            ELSE LET o == CHOOSE n \in Named(r, objs, next) : TRUE
                 IN /\ objects' = IF viewSized THEN Sized(objs, o) ELSE objs
                    /\ view' = o
         /\ serviceStarted' = StillStarted(r)
         /\ UNCHANGED <<alive, live, serviceBound, activityVars, timer>>
  BY DEF Enter
<1>4. /\ r \in Services
      /\ r.sessions = {o \in Service.sessions : objects[o].id # id}
      /\ Listed(r, objects)
      /\ StillStarted(r) \in BOOLEAN
      /\ objs \in Seq(Objects) /\ Len(objs) = Len(objects) /\ Kept(objects, objs)
      /\ \A o \in 1..Len(objects) :
            objs[o].state = "running" => objects[o].state = "running" /\ o \notin Terminated(id)
  BY <1>2, TerminatedIs
<1>5. /\ objects \in Seq(Objects) /\ Len(objects) \in 0..MaxObjects
      /\ view \in 1..Len(objects) /\ view \in 0..Len(objects)
  BY <1>1, <1>2, TypesAre
<1>6. objs[view].state = "exited"
  BY <1>2, <1>5, FinishedIs
<1>. DEFINE q == [r EXCEPT !.currentSession = next]
<1>7. next \in Ids \cup {Webview}
  BY <1>4 DEF Services
<1>. HIDE DEF r, objs
<1>8. /\ q \in Services /\ q.currentSession = next /\ q.sessions = r.sessions
      /\ Listed(q, objects)
  BY <1>4, <1>7, CurrentIs
<1>9. services' = [services EXCEPT ![sessionBinder] = q]
  BY <1>3
<1>. HIDE DEF q
<1>10. /\ objects' \in Seq(Objects) /\ Len(objects') = Len(objects) /\ Kept(objects, objects')
       /\ \A o \in 1..Len(objects) :
             objects'[o].state = "running" =>
                \/ objects[o].state = "running" /\ o \notin Terminated(id)
                \/ o \in q.sessions
       /\ view' \in 1..Len(objects)
       /\ \/ view' \in q.sessions /\ objects[view'].id = q.currentSession
          \/ q.currentSession = Webview /\ objects'[view'].state # "created"
  <2>1. CASE next = Webview
    BY <1>3, <1>4, <1>5, <1>6, <1>8, <2>1
  <2>2. CASE next # Webview
    <3>1. PICK p \in r.sessions : objects[p].id = next
      BY <1>3, <1>4, <2>2 DEF Listed
    <3>2. \A o \in r.sessions : o \in 1..Len(objects) /\ objs[o].id = objects[o].id
      BY <1>4 DEF Listed, Kept
    <3>3. p \in Named(r, objs, next)
      BY <3>1, <3>2 DEF Named
    <3>4. view' \in Named(r, objs, next)
      BY <1>3, <2>2, <3>3
    <3>5. view' \in r.sessions /\ view' \in 1..Len(objects) /\ objects[view'].id = next
      BY <3>2, <3>4 DEF Named
    <3>6. objects' = objs \/ objects' = Sized(objs, view')
      BY <1>3, <2>2
    <3>7. CASE objects' = objs
      BY <1>4, <1>8, <3>5, <3>7
    <3>8. CASE objects' = Sized(objs, view')
      <4>1. /\ objects' \in Seq(Objects) /\ Len(objects') = Len(objs) /\ Kept(objs, objects')
            /\ \A o \in 1..Len(objs) :
                  objects'[o].state = IF o = view' /\ objs[o].state = "created" THEN "running"
                                                                      ELSE objs[o].state
        BY <1>4, <3>5, <3>8, SizedIs
      <4>2. Kept(objects, objects')
        BY <1>4, <4>1 DEF Kept
      <4>3. QED  BY <1>4, <1>8, <3>5, <4>1, <4>2
    <3>9. QED  BY <3>6, <3>7, <3>8
  <2>3. QED  BY <2>1, <2>2
<1>11. UNCHANGED <<alive, live, serviceBound, activity, connecting, isBound, sessionBinder, timer>>
  BY <1>3 DEF activityVars
<1>12. /\ services' \in Seq(Services) /\ Len(services') = Len(services)
       /\ view' \in 0..Len(objects')
       /\ \A i \in 1..Len(services) : i # sessionBinder => services'[i] = services[i]
       /\ MapsInv'
  BY <1>2, <1>4, <1>8, <1>9, <1>10, <1>11, RemovedKeeps
<1>13. /\ serviceStarted' \in BOOLEAN /\ viewRef' \in BOOLEAN /\ viewSized' \in BOOLEAN
       /\ openTerminalForSetup' \in BOOLEAN
       /\ pendingCommand' \in Ids \cup {NoCommand} /\ Len(objects') <= MaxObjects
  BY <1>1, <1>2, <1>3, <1>4, <1>5, <1>10 DEF Scalars
<1>14. sessionBinder # 0 /\ viewRef'
  BY <1>1, <1>2 DEF BinderInv
<1>15. QED  BY <1>10, <1>11, <1>12, <1>13, <1>14, InterfaceKeeps

\* ENTER in a finished session when there is nowhere to go finishes the activity.
LEMMA EnterFinishes ==
    ASSUME IInv, Enter, Without(Service, objects, Service.currentSession).sessionList = {}
    PROVE  IInv'
<1>. DEFINE id == Service.currentSession
            q == Without(Service, objects, id)
            started == StillStarted(q)
            doomed == Terminated(id) \cup
                         IF live # 0 /\ ~started /\ ~FALSE THEN services[live].sessions ELSE {}
<1>1. TypeInv /\ BinderInv /\ Scalars
  BY ScalarsAre DEF IInv
<1>2. /\ sessionBinder # 0
      /\ UNCHANGED <<viewRef, viewSized, pendingCommand, openTerminalForSetup>>
      /\ services' = [services EXCEPT ![sessionBinder] = q]
      /\ Destroyed
      /\ Settle(started, FALSE, Terminated(id))
  BY DEF Enter, Interactive
<1>3. /\ activity' = "stopped"
      /\ connecting' = FALSE /\ isBound' = FALSE /\ sessionBinder' = 0 /\ view' = 0
      /\ timer' = IF timer = ThisActivity THEN sessionBinder ELSE timer
  BY <1>2 DEF Destroyed
<1>4. /\ live' \in {0, live} /\ serviceStarted' = started /\ serviceBound' = FALSE
      /\ objects' = Finished(objects, doomed)
      /\ alive' = Survives(doomed)
  BY <1>2 DEF Settle
<1>5. alive' \in BOOLEAN
  BY <1>4 DEF Survives
<1>6. /\ q \in Services
      /\ q.sessions = {o \in Service.sessions : objects[o].id # id}
      /\ Listed(q, objects)
      /\ started \in BOOLEAN
      /\ objects' \in Seq(Objects) /\ Len(objects') = Len(objects) /\ Kept(objects, objects')
      /\ \A o \in 1..Len(objects) :
            objects'[o].state = "running" => objects[o].state = "running" /\ o \notin Terminated(id)
  <2>1. Terminated(id) \subseteq doomed
    OBVIOUS
  <2>. HIDE DEF doomed
  <2>2. QED  BY <1>2, <1>4, <2>1, TerminatedIs
<1>. HIDE DEF q, started, doomed
<1>7. /\ services' \in Seq(Services) /\ Len(services') = Len(services)
      /\ view' \in 0..Len(objects') /\ MapsInv'
  BY <1>2, <1>3, <1>6, RemovedKeeps
<1>8. /\ Len(objects) \in 0..MaxObjects /\ Len(services) \in 0..MaxServices
      /\ live \in 0..Len(services) /\ sessionBinder \in 1..Len(services)
  BY <1>1, <1>2, TypesAre
<1>9. TypeInv'
  <2>1. timer' \in {NoTimer, ThisActivity} \cup 1..Len(services')
    BY <1>1, <1>3, <1>7, <1>8 DEF Scalars
  <2>2. connecting' \in BOOLEAN /\ isBound' \in BOOLEAN /\ activity' \in {"started", "stopped"}
    BY <1>3
  <2>3. serviceStarted' \in BOOLEAN /\ serviceBound' \in BOOLEAN
    BY <1>4, <1>6
  <2>4. /\ viewRef' \in BOOLEAN /\ viewSized' \in BOOLEAN /\ openTerminalForSetup' \in BOOLEAN
        /\ pendingCommand' \in Ids \cup {NoCommand}
    BY <1>1, <1>2 DEF Scalars
  <2>5. /\ Len(objects') <= MaxObjects /\ Len(services') <= MaxServices
        /\ live' \in 0..Len(services') /\ sessionBinder' \in 0..Len(services')
    BY <1>3, <1>4, <1>6, <1>7, <1>8
  <2>6. QED  BY <1>5, <1>6, <1>7, <2>1, <2>2, <2>3, <2>4, <2>5, TypesAfter
<1>10. BinderInv'
  <2>1. timer' # ThisActivity
    BY <1>3, <1>8 DEF ThisActivity
  <2>2. QED  BY <1>1, <1>3, <1>4, <1>7, <2>1 DEF BinderInv
<1>11. QED  BY <1>7, <1>9, <1>10 DEF IInv

------------------------------------------------------------------------------
(* The theorems *)

\* Every handler keeps the maps of the services in order, whatever the order in
\* which the main thread gets its messages.
THEOREM Invariant == Spec => []IInv
<1>1. Init => IInv
  <2>1. SUFFICES ASSUME Init PROVE IInv
    OBVIOUS
  <2>2. /\ objects = <<>> /\ services = <<>> /\ live = 0 /\ sessionBinder = 0 /\ view = 0
        /\ connecting = FALSE /\ timer = NoTimer
    BY <2>1 DEF Init
  <2>3. TypeOK
    <3>1. openTerminalForSetup \in BOOLEAN
      BY <2>1 DEF Init
    <3>2. /\ objects \in Seq(Objects) /\ services \in Seq(Services)
          /\ Len(objects) = 0 /\ Len(services) = 0
      BY <2>2
    <3>3. /\ alive \in BOOLEAN /\ connecting \in BOOLEAN /\ isBound \in BOOLEAN
          /\ serviceStarted \in BOOLEAN /\ serviceBound \in BOOLEAN
          /\ viewRef \in BOOLEAN /\ viewSized \in BOOLEAN
          /\ activity \in {"started", "stopped"} /\ pendingCommand \in Ids \cup {NoCommand}
      BY <2>1 DEF Init
    <3>4. Len(objects) <= MaxObjects /\ live \in 0..Len(services)
          /\ sessionBinder \in 0..Len(services) /\ view \in 0..Len(objects)
          /\ timer \in {NoTimer, ThisActivity} \cup DOMAIN services
      BY <2>2, <3>2
    <3>5. QED  BY <3>1, <3>2, <3>3, <3>4 DEF TypeOK, Objects, Services
  <2>4. TypeInv
    BY <2>2, <2>3 DEF TypeInv
  <2>5. BinderInv
    BY <2>2 DEF BinderInv, ThisActivity, NoTimer
  <2>6. MapsInv
    BY <2>2 DEF MapsInv, ListInv, ShownInv, OwnedInv
  <2>7. QED  BY <2>4, <2>5, <2>6 DEF IInv
<1>2. IInv /\ [Next]_vars => IInv'
  <2>1. SUFFICES ASSUME IInv, [Next]_vars PROVE IInv'
    OBVIOUS
  <2>2. CASE onStart
    BY <2>1, <2>2, StartKeeps
  <2>3. CASE onServiceConnected
    BY <2>1, <2>3, ConnectedKeeps
  <2>4. CASE onStop \/ onStartCommand_EXIT
    BY <2>1, <2>4, LifecycleKeeps
  <2>5. CASE Recreate
    BY <2>1, <2>5, RecreateKeeps
  <2>6. CASE AddSession \/ SelectSession \/ StartServer
    BY <2>1, <2>6, DrawerKeeps
  <2>7. CASE DeleteSession
    BY <2>1, <2>7, DeleteKeeps
  <2>8. CASE Enter
    BY <2>1, <2>8, EnterGoes, EnterFinishes
  <2>9. CASE TimerFires \/ installResources
    BY <2>1, <2>9, SwitchKeeps
  <2>10. CASE ComposeTerminal
    BY <2>1, <2>10, ComposeKeeps
  <2>11. CASE Layout
    BY <2>1, <2>11, LayoutKeeps
  <2>12. CASE DisposeTerminal \/ CollectView
    BY <2>1, <2>12, DisposeKeeps
  <2>13. ASSUME NEW o \in DOMAIN objects, ProcessExited(o) PROVE IInv'
    BY <2>1, <2>13, ExitedKeeps
  <2>14. CASE UNCHANGED vars
    <3>1. /\ UNCHANGED <<alive, objects, services, live, serviceStarted, serviceBound, activity,
                         connecting, isBound, sessionBinder, view, viewRef, viewSized,
                         pendingCommand, openTerminalForSetup, timer>>
      BY <2>14 DEF vars, serviceVars, activityVars, viewVars
    <3>2. TypeInv'
      BY <2>1, <3>1 DEF IInv, TypeInv, TypeOK
    <3>3. BinderInv'
      BY <2>1, <3>1 DEF IInv, BinderInv
    <3>4. MapsInv'
      BY <2>1, <3>1, NothingKeeps
    <3>5. QED  BY <3>2, <3>3, <3>4 DEF IInv
  <2>15. QED
    BY <2>1, <2>2, <2>3, <2>4, <2>5, <2>6, <2>7, <2>8, <2>9, <2>10, <2>11, <2>12, <2>13, <2>14
    DEF Next
<1>3. QED  BY <1>1, <1>2, PTL DEF Spec

\* Sessions, services and the user interface's references to them are always
\* what their types say: a reference is to something that was created.
THEOREM TypeCorrect == Spec => []TypeOK
<1>1. IInv => TypeOK
  BY DEF IInv, TypeInv
<1>2. QED  BY <1>1, Invariant, PTL

\* The drawer's list and the map of sessions never drift apart, in no
\* incarnation of the service.
THEOREM ListMatchesSessionsHolds == Spec => []ListMatchesSessions
<1>1. IInv => ListMatchesSessions
  <2>1. SUFFICES ASSUME IInv PROVE ListMatchesSessions
    OBVIOUS
  <2>2. DOMAIN services = 1..Len(services)
    BY <2>1, TypesAre DEF IInv
  <2>3. QED  BY <2>1, <2>2 DEF IInv, MapsInv, ListInv, Listed, ListMatchesSessions
<1>2. QED  BY <1>1, Invariant, PTL

\* The terminal on the screen shows the session that is marked as current,
\* which the service knows.
THEOREM ShownIsCurrentHolds == Spec => []ShownIsCurrent
<1>1. IInv => ShownIsCurrent
  BY DEF IInv, MapsInv, ShownInv, ShownIsCurrent
<1>2. QED  BY <1>1, Invariant, PTL

\* No handler loses a session that still runs.
THEOREM RunningIsOwnedHolds == Spec => []RunningIsOwned
<1>1. IInv => RunningIsOwned
  <2>1. SUFFICES ASSUME IInv PROVE RunningIsOwned
    OBVIOUS
  <2>2. DOMAIN objects = 1..Len(objects)
    BY <2>1, TypesAre DEF IInv
  <2>3. QED  BY <2>1, <2>2 DEF IInv, MapsInv, OwnedInv, Owned, RunningIsOwned
<1>2. QED  BY <1>1, Invariant, PTL

\* The current session does not run when the one on the screen has ended, and
\* if it is the last one, then no session of the live service does.
LEMMA ShownEnded ==
    ASSUME IInv, sessionBinder # 0, view # 0, objects[view].state = "exited"
    PROVE  /\ \A o \in Terminated(Service.currentSession) : objects[o].state # "running"
           /\ Without(Service, objects, Service.currentSession).sessionList = {} /\ live # 0 =>
                 \A o \in services[live].sessions : objects[o].state # "running"
<1>. DEFINE id == Service.currentSession
<1>1. /\ sessionBinder \in 1..Len(services) /\ Service \in Services
      /\ Listed(Service, objects) /\ ShownInv /\ BinderInv
      /\ \A o \in 1..Len(objects) : objects[o].id \in Ids
  <2>1. TypeInv /\ ListInv /\ ShownInv /\ BinderInv
    BY DEF IInv, MapsInv
  <2>2. sessionBinder \in 1..Len(services) /\ Service \in Services
    BY <2>1, TypesAre DEF Service
  <2>3. \A o \in 1..Len(objects) : objects[o].id \in Ids
    BY <2>1, TypesAre DEF Objects
  <2>4. QED  BY <2>1, <2>2, <2>3 DEF ListInv, Service
<1>2. ASSUME NEW o \in Service.sessions, objects[o].id = id
      PROVE  objects[o].state = "exited"
  <2>1. id # Webview
    BY <1>1, <1>2, WebviewIsNoId DEF Listed
  <2>2. objects[view].id = id /\ view \in Service.sessions
    BY <1>1, <2>1 DEF ShownInv
  <2>3. o = view
    BY <1>1, <1>2, <2>2 DEF Listed
  <2>4. QED  BY <2>3
<1>3. \A o \in Terminated(id) : objects[o].state # "running"
  BY <1>2 DEF Terminated, Named
<1>4. ASSUME Without(Service, objects, id).sessionList = {}, live # 0
      PROVE  \A o \in services[live].sessions : objects[o].state # "running"
  <2>1. CASE live = sessionBinder
    <3>1. Service.sessionList \subseteq {id}
      BY <1>1, <1>4, WithoutIs
    <3>2. \A o \in Service.sessions : objects[o].id \in Service.sessionList
      BY <1>1 DEF Listed
    <3>3. QED  BY <1>2, <2>1, <3>1, <3>2 DEF Service
  <2>2. CASE live # sessionBinder
    BY <1>1, <1>4, <2>2 DEF BinderInv
  <2>3. QED  BY <2>1, <2>2
<1>5. QED  BY <1>3, <1>4

\* ENTER in a finished session kills no other: the session it terminates is the
\* one on the screen, also when the service is destroyed with the activity.
THEOREM EnterKillsNothingHolds == Spec => EnterKillsNothing
<1>1. ASSUME IInv, Enter
      PROVE  \A o \in DOMAIN objects :
                objects[o].state = "running" => objects'[o].state = "running"
  <2>. DEFINE id == Service.currentSession
              r == Without(Service, objects, id)
              objs == Finished(objects, Terminated(id))
  <2>1. /\ sessionBinder # 0 /\ view # 0 /\ objects[view].state = "exited"
        /\ objects \in Seq(Objects) /\ Len(objects) \in Nat /\ DOMAIN objects = 1..Len(objects)
    BY <1>1, TypesAre DEF IInv, Enter, Interactive
  <2>2. /\ \A o \in Terminated(id) : objects[o].state # "running"
        /\ r.sessionList = {} /\ live # 0 =>
              \A o \in services[live].sessions : objects[o].state # "running"
    BY <1>1, <2>1, ShownEnded
  <2>3. ASSUME NEW S, \A o \in S : objects[o].state # "running",
               NEW o \in 1..Len(objects), objects[o].state = "running"
        PROVE  Finished(objects, S)[o].state = "running"
    BY <2>1, <2>3, FinishedIs
  <2>4. CASE r.sessionList # {}
    <3>1. PICK next \in r.sessionList :
             IF next = Webview
             THEN objects' = objs /\ UNCHANGED view
             ELSE LET o == CHOOSE n \in Named(r, objs, next) : TRUE
                  IN /\ objects' = IF viewSized THEN Sized(objs, o) ELSE objs
                     /\ view' = o
      BY <1>1, <2>4 DEF Enter
    <3>2. objects' = objs \/ \E v : objects' = Sized(objs, v)
      BY <3>1
    <3>3. /\ objs \in Seq(Objects) /\ Len(objs) = Len(objects)
          /\ \A o \in 1..Len(objects) :
                objects[o].state = "running" => objs[o].state = "running"
      BY <2>1, <2>2, <2>3, FinishedIs
    <3>. HIDE DEF objs
    <3>4. ASSUME NEW v, objects' = Sized(objs, v),
                 NEW o \in 1..Len(objects), objs[o].state = "running"
          PROVE  objects'[o].state = "running"
      BY <3>3, <3>4 DEF Sized, Objects
    <3>5. QED  BY <2>1, <3>2, <3>3, <3>4
  <2>5. CASE r.sessionList = {}
    <3>. DEFINE gone == live # 0 /\ ~StillStarted(r) /\ ~FALSE
                doomed == Terminated(id) \cup IF gone THEN services[live].sessions ELSE {}
    <3>1. objects' = Finished(objects, doomed)
      BY <1>1, <2>5 DEF Enter, Settle
    <3>2. \A o \in doomed : objects[o].state # "running"
      BY <2>2, <2>5
    <3>. HIDE DEF doomed
    <3>3. QED  BY <2>1, <2>3, <3>1, <3>2
  <2>6. QED  BY <2>4, <2>5
<1>2. IInv /\ [Next]_vars =>
         [Enter => \A o \in DOMAIN objects :
            objects[o].state = "running" => objects'[o].state = "running"]_vars
  BY <1>1
<1>3. QED  BY <1>2, Invariant, PTL DEF Spec, EnterKillsNothing

==============================================================================
