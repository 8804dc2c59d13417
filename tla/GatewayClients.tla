--------------------------- MODULE GatewayClients ---------------------------
(***************************************************************************)
(* Programs that use a typed client of the Gateway API, run side by side   *)
(* with the same programs on the fake clientset of the unit tests: every   *)
(* call goes to the API server and to the object tracker.                  *)
(*                                                                         *)
(* The tracker stores what it is given: it checks no resourceVersion,      *)
(* knows no subresource, and has no reaction to DeleteCollection.          *)
(* NewSimpleClientset puts the objects it is given under a resource name   *)
(* guessed from their kind.  Once a call has been made on which the two    *)
(* must differ, the history variable parted is TRUE and the tracker is     *)
(* left out.                                                               *)
(***************************************************************************)
EXTENDS GatewayAPI

CONSTANTS Callers, MaxVersions   \* changes on the server

(* The object that NewSimpleClientset is given takes the first version.    *)
VersionsAssumption == MaxVersions \in Nat \ {0}
ASSUME VersionsAssumption

VARIABLES kind,      \* the kind whose client is used
          log,       \* the changes the server made
          held,      \* the copy of an object each caller read last
          tracker,   \* the tracker's objects, by resource and key
          parted, agree

vars == <<kind, log, held, tracker, parted, agree>>

Keys   == KeysOf(kind)
Server == At(log, Len(log), Keys)

(* A call, its arguments filled with zero values.                          *)
NewCall(method) ==
  [method |-> method, name |-> NoName, sub |-> "", body |-> Absent, selector |-> "everything"]

NewObject(key, spec, status, label) ==
  [key |-> key, spec |-> spec, status |-> status, label |-> label, rv |-> 0]

-----------------------------------------------------------------------------
(* The fake clientset.                                                     *)

(* UnsafeGuessKindToResource: lower case, a final y becomes ies, a final s *)
(* ses, everything else gets an s.                                         *)
UnsafeGuessKindToResource ==
  [BackendPolicy |-> "backendpolicies", Gateway |-> "gatewaies",
   GatewayClass |-> "gatewayclasses", HTTPRoute |-> "httproutes",
   TCPRoute |-> "tcproutes", TLSRoute |-> "tlsroutes", UDPRoute |-> "udproutes"]

Resources(k) == {Plural[k], UnsafeGuessKindToResource[k]}

(* The tracker's copy: it has no use for the resourceVersion.              *)
Untracked(obj) == IF obj = Absent THEN Absent ELSE [obj EXCEPT !.rv = 0]

(* Mutation: List of a fake client does not filter by labels. *)
InvokeUnfiltered(resource, ns, call) ==
  [action |-> CASE call.method = "UpdateStatus" -> "Update"
                [] call.method # "UpdateStatus" -> call.method,
   resource |-> resource, ns |-> ns,
   name |-> IF call.method \in {"Create", "Update", "UpdateStatus"}
            THEN call.body.key[2] ELSE call.name,
   body |-> call.body, selector |-> "everything"]

(* The actions the methods of a fake client record and hand to Invokes.    *)
Invoke(resource, ns, call) ==
  [action |-> CASE call.method = "UpdateStatus" -> "Update"
                [] call.method # "UpdateStatus" -> call.method,
   resource |-> resource, ns |-> ns,
   name |-> IF call.method \in {"Create", "Update", "UpdateStatus"}
            THEN call.body.key[2] ELSE call.name,
   body |-> call.body, selector |-> call.selector]

FakeBackendPolicies(ns, call) == Invoke("backendpolicies", ns, call)
FakeGateways(ns, call)        == Invoke("gateways", ns, call)
FakeGatewayClasses(call)      == Invoke("gatewayclasses", AllNamespaces, call)
FakeHTTPRoutes(ns, call)      == Invoke("httproutes", ns, call)
FakeTCPRoutes(ns, call)       == Invoke("tcproutes", ns, call)
FakeTLSRoutes(ns, call)       == Invoke("tlsroutes", ns, call)
FakeUDPRoutes(ns, call)       == Invoke("udproutes", ns, call)

FakeNetworkingV1alpha1(k, ns, call) ==
  CASE k = "BackendPolicy" -> FakeBackendPolicies(ns, call)
    [] k = "Gateway"       -> FakeGateways(ns, call)
    [] k = "GatewayClass"  -> FakeGatewayClasses(call)
    [] k = "HTTPRoute"     -> FakeHTTPRoutes(ns, call)
    [] k = "TCPRoute"      -> FakeTCPRoutes(ns, call)
    [] k = "TLSRoute"      -> FakeTLSRoutes(ns, call)
    [] k = "UDPRoute"      -> FakeUDPRoutes(ns, call)

(* tracker.add stores the object as it is, if it may exist or must.        *)
Add(objects, key, obj, replaceExisting) ==
  CASE objects[key] # Absent /\ ~replaceExisting -> [objects |-> objects, answer |-> Refuse("AlreadyExists")]
    [] objects[key] = Absent /\ replaceExisting  -> [objects |-> objects, answer |-> Refuse("NotFound")]
    [] (objects[key] # Absent) <=> replaceExisting ->
         [objects |-> [objects EXCEPT ![key] = Untracked(obj)], answer |-> OK({Untracked(obj)})]

(* ObjectReaction, and the label filter that List applies to its answer.   *)
(* An action without a reaction returns the default object and no error.   *)
ObjectReaction(objects, act) ==
  LET key == <<act.ns, act.name>>
      unchanged(answer) == [objects |-> objects, answer |-> answer]
  IN
  CASE act.action = "Create" -> Add(objects, key, act.body, FALSE)
    [] act.action = "Update" -> Add(objects, key, act.body, TRUE)
    [] act.action = "List"   -> unchanged(OK(Selected(objects, act)))
    [] act.action = "DeleteCollection" -> unchanged(OK({}))
    [] act.action \in {"Get", "Delete", "Patch"} /\ objects[key] = Absent -> unchanged(Refuse("NotFound"))
    [] act.action = "Get" /\ objects[key] # Absent -> unchanged(OK({objects[key]}))
    [] act.action = "Delete" /\ objects[key] # Absent ->
         [objects |-> [objects EXCEPT ![key] = Absent], answer |-> OK({})]
    [] act.action = "Patch" /\ objects[key] # Absent ->
         Add(objects, key, Merge(objects[key], act.body), TRUE)

-----------------------------------------------------------------------------
(* The calls on which the tracker, as it is written, must part from the    *)
(* server: a PUT with an outdated copy, a write that reaches for the part  *)
(* its path excludes, a collection that is not empty.                      *)
OnlyOneKnows(ns, call) ==
  LET old(key) == Lookup(Server, key)
      stored   == old(<<ns, call.name>>)
  IN
  \/ /\ call.method \in {"Update", "UpdateStatus"}
     /\ old(call.body.key) # Absent
     /\ \/ call.body.rv # old(call.body.key).rv
        \/ call.method = "Update" /\ call.body.status # old(call.body.key).status
        \/ call.method = "UpdateStatus"
           /\ [call.body EXCEPT !.status = Empty] # [old(call.body.key) EXCEPT !.status = Empty]
  \/ call.method = "Create" /\ call.body.status # Empty
  \/ /\ call.method = "Patch"
     /\ stored # Absent
     /\ IF call.sub = "status" THEN [Merge(stored, call.body) EXCEPT !.status = Empty]
                                      # [stored EXCEPT !.status = Empty]
                               ELSE Merge(stored, call.body).status # stored.status
  \/ /\ call.method = "DeleteCollection"
     /\ \E k \in Keys : Server[k] # Absent /\ InNamespace(ns, k) /\ Matches(call.selector, Server[k])

(* Mutation: the argument is returned instead of the result. *)
IntoArgument(call, answer) ==
  IF call.method \in {"Create", "Update", "UpdateStatus"} THEN call.body
  ELSE CHOOSE o \in answer.objects : TRUE

(* What a method on one object returns: the server's answer.               *)
Into(call, answer) == CHOOSE o \in answer.objects : TRUE

SameAnswer(a, b) == a.code = b.code /\ {Untracked(o) : o \in a.objects} = b.objects

Exchange(c, ns, call) ==
  LET served == Serve(log, Keys, NetworkingV1alpha1(kind, ns, call))
      act    == FakeNetworkingV1alpha1(kind, ns, call)
      faked  == ObjectReaction(tracker[act.resource], act)
  IN
  /\ served.log # log => Len(log) < MaxVersions
  /\ log' = served.log
  /\ held' = IF call.method # "List" /\ served.answer.objects # {}
             THEN [held EXCEPT ![c] = Into(call, served.answer)] ELSE held
  /\ parted' = (parted \/ OnlyOneKnows(ns, call))
  /\ IF parted'
     THEN /\ tracker' = << >>
          /\ agree' = TRUE
     ELSE /\ tracker' = [tracker EXCEPT ![act.resource] = faked.objects]
          /\ agree' = SameAnswer(served.answer, faked.answer)
  /\ UNCHANGED kind

-----------------------------------------------------------------------------
(* What a program may call.                                                *)

Get(c) ==
  \E k \in Keys : Exchange(c, k[1], [NewCall("Get") EXCEPT !.name = k[2]])

List(c) ==
  \E ns \in ScopeOf(kind) \cup {AllNamespaces}, selector \in Selectors :
    Exchange(c, ns, [NewCall("List") EXCEPT !.selector = selector])

Create(c) ==
  \E k \in Keys, spec, status \in Contents, label \in BOOLEAN :
    Exchange(c, k[1], [NewCall("Create") EXCEPT !.body = NewObject(k, spec, status, label)])

(* Update and UpdateStatus send the caller's copy, changed anywhere.       *)
Write(c, method) ==
  /\ held[c] # Absent
  /\ \E spec, status \in Contents, label \in BOOLEAN :
       Exchange(c, held[c].key[1], [NewCall(method) EXCEPT !.body =
         [held[c] EXCEPT !.spec = spec, !.status = status, !.label = label]])

Update(c)       == Write(c, "Update")
UpdateStatus(c) == Write(c, "UpdateStatus")

Delete(c) ==
  \E k \in Keys : Exchange(c, k[1], [NewCall("Delete") EXCEPT !.name = k[2]])

DeleteCollection(c) ==
  \E ns \in ScopeOf(kind), selector \in Selectors :
    Exchange(c, ns, [NewCall("DeleteCollection") EXCEPT !.selector = selector])

Patches == [{"spec"} -> Contents] \cup [{"status"} -> Contents] \cup [{"label"} -> BOOLEAN]

PatchObject(c) ==
  \E k \in Keys, patch \in Patches, sub \in {"", "status"} :
    Exchange(c, k[1], [NewCall("Patch") EXCEPT !.name = k[2], !.body = patch, !.sub = sub])

(* NewSimpleClientset adds the objects it is given to the tracker; the     *)
(* server starts with the same objects.                                    *)
NewSimpleClientset(k, seeds) ==
  [r \in Resources(k) |->
     [key \in KeysOf(k) |-> IF key \in seeds /\ r = UnsafeGuessKindToResource[k]
                            THEN NewObject(key, Empty, Empty, FALSE) ELSE Absent]]

Init ==
  /\ kind \in Kinds
  /\ \E seed \in {{}} \cup {{k} : k \in KeysOf(kind)} :
       /\ log = SetToSeq({[key |-> k, obj |-> [NewObject(k, Empty, Empty, FALSE) EXCEPT !.rv = 1]] : k \in seed})
       /\ tracker = NewSimpleClientset(kind, seed)
       /\ parted = (seed # {} /\ UnsafeGuessKindToResource[kind] # Plural[kind])
  /\ held = [c \in Callers |-> Absent]
  /\ agree = TRUE

Next ==
  \E c \in Callers :
    \/ Get(c)
    \/ List(c)
    \/ Create(c)
    \/ Update(c)
    \/ UpdateStatus(c)
    \/ Delete(c)
    \/ DeleteCollection(c)
    \/ PatchObject(c)

Spec == Init /\ [][Next]_vars

-----------------------------------------------------------------------------
(* Properties.                                                             *)

LogEntries ==
  [key : Keys, obj : Objects(Keys, 1 .. MaxVersions) \cup {Absent}]

(* The type of every variable: the server's log holds versions of objects  *)
(* of this kind, and what a client method returned was one of them.        *)
TypeOK ==
  /\ kind \in Kinds
  /\ log \in Seq(LogEntries)
  /\ \A c \in Callers : held[c] = Absent \/ \E i \in DOMAIN log : log[i].obj = held[c]
  /\ parted \/ \A r \in Resources(kind), k \in Keys :
                  tracker[r][k] \in Objects(Keys, {0}) \cup {Absent}
  /\ parted \in BOOLEAN /\ agree \in BOOLEAN

(* A program that never writes from an outdated copy, never reaches past   *)
(* the part its call may write and deletes no collection cannot tell the   *)
(* fake clientset from the API server: every answer was the same and the   *)
(* same objects are stored.  OnlyOneKnows lists what such a program leaves *)
(* out.  Not covered are the objects handed to NewSimpleClientset, which   *)
(* stores Gateways under "gatewaies", where no client finds them.  To the  *)
(* Delete of a missing object both answer NotFound, though the tracker's   *)
(* interface promises no error (fixture.go:60-62).                         *)
FakeStandsIn ==
  parted \/ /\ agree
            /\ \A k \in Keys : tracker[Plural[kind]][k] = Untracked(Server[k])

(* With several writers of one object, none undoes another: a PUT that the *)
(* server accepts replaces the version its caller has read and no later    *)
(* one, UpdateStatus never changes the spec or the labels, and Update      *)
(* never the status, whatever the caller's copy holds in that part.        *)
NoWriteIsUndone ==
  [][\A c \in Callers, k \in Keys :
       Server[k] # Absent /\ Server'[k] # Server[k] /\ (Update(c) \/ UpdateStatus(c))
         => /\ held[c] = Server[k] /\ Server'[k] # Absent
            /\ Update(c) => Server'[k].status = Server[k].status
            /\ UpdateStatus(c) => /\ Server'[k].spec = Server[k].spec
                                  /\ Server'[k].label = Server[k].label]_vars

(* One call changes objects of one namespace only, the deletion of a       *)
(* collection included.                                                    *)
OneNamespacePerCall ==
  [][Cardinality({k[1] : k \in {k \in Keys : Server[k] # Server'[k]}}) <= 1]_vars
=============================================================================
