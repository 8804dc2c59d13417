----------------------------- MODULE GatewayAPI -----------------------------
(***************************************************************************)
(* The typed clients of the Gateway API and the API server they talk to.   *)
(*                                                                         *)
(* A call of a client method is a record: its method and its arguments.    *)
(* The clients of the seven kinds turn a call into an HTTP request; their  *)
(* files are one text up to the names, so each is Send with the names of   *)
(* its kind.  GatewayClass is the one kind without a namespace.            *)
(*                                                                         *)
(* The server keeps a log with one entry per change.  The position of an   *)
(* entry is the resourceVersion it gives the object, and the stored        *)
(* objects at any version are the last entries up to it.  The CRDs declare *)
(* the status a subresource.                                               *)
(***************************************************************************)
EXTENDS Naturals, Sequences, FiniteSets, SequencesExt

CONSTANTS Namespaces, Names,
          Contents,    \* values of a spec or a status
          Empty,       \* the one of them an object starts with
          Absent       \* no object

Kinds == {"BackendPolicy", "Gateway", "GatewayClass", "HTTPRoute",
          "TCPRoute", "TLSRoute", "UDPRoute"}

\* The empty namespace: cluster-scoped objects, and calls for all namespaces.
AllNamespaces == ""
NoName == ""

ScopeOf(kind) == IF kind = "GatewayClass" THEN {AllNamespaces} ELSE Namespaces
KeysOf(kind)  == ScopeOf(kind) \X Names

Objects(keys, versions) ==
  [key : keys, spec : Contents, status : Contents, label : BOOLEAN, rv : versions]

(* No namespace and no object has the empty name, and there are finitely   *)
(* many of them; what stands for no object is not one.                     *)
NamesAssumption ==
  /\ IsFiniteSet(Namespaces) /\ IsFiniteSet(Names)
  /\ AllNamespaces \notin Namespaces /\ NoName \notin Names
ContentsAssumption ==
  /\ Empty \in Contents
  /\ \A kind \in Kinds : Absent \notin Objects(KeysOf(kind), Nat)
ASSUME NamesAssumption
ASSUME ContentsAssumption

(* A selector is all of the objects or those that carry the label.         *)
Selectors == {"everything", "labelled"}
Matches(selector, obj) == selector = "everything" \/ obj.label
InNamespace(ns, key)   == ns = AllNamespaces \/ key[1] = ns

-----------------------------------------------------------------------------
(* The typed clients.                                                      *)

Request(verb, resource, ns, name, sub, call) ==
  [verb |-> verb, resource |-> resource, ns |-> ns, name |-> name, sub |-> sub,
   body |-> call.body, selector |-> call.selector]

(* Mutation: SubResource("status") is missing from UpdateStatus. *)
SendWithoutSubResource(resource, ns, call) ==
  CASE call.method \in {"Update", "UpdateStatus"} ->
         Request("PUT", resource, ns, call.body.key[2], "", call)
    [] call.method = "Create"           -> Request("POST", resource, ns, NoName, "", call)
    [] call.method = "Get"              -> Request("GET", resource, ns, call.name, "", call)
    [] call.method = "List"             -> Request("GET", resource, ns, NoName, "", call)
    [] call.method = "Delete"           -> Request("DELETE", resource, ns, call.name, "", call)
    [] call.method = "DeleteCollection" -> Request("DELETE", resource, ns, NoName, "", call)
    [] call.method = "Patch"            -> Request("PATCH", resource, ns, call.name, call.sub, call)

(* The methods of a typed client, for the paths they build.                *)
Send(resource, ns, call) ==
  CASE call.method = "Get"              -> Request("GET", resource, ns, call.name, "", call)
    [] call.method = "List"             -> Request("GET", resource, ns, NoName, "", call)
    [] call.method = "Watch"            -> Request("WATCH", resource, ns, NoName, "", call)
    [] call.method = "Create"           -> Request("POST", resource, ns, NoName, "", call)
    [] call.method = "Update"           -> Request("PUT", resource, ns, call.body.key[2], "", call)
    [] call.method = "UpdateStatus"     -> Request("PUT", resource, ns, call.body.key[2], "status", call)
    [] call.method = "Delete"           -> Request("DELETE", resource, ns, call.name, "", call)
    [] call.method = "DeleteCollection" -> Request("DELETE", resource, ns, NoName, "", call)
    [] call.method = "Patch"            -> Request("PATCH", resource, ns, call.name, call.sub, call)

BackendPolicies(ns, call) == Send("backendpolicies", ns, call)
(* Mutation: Namespace(c.ns) is missing from the requests. *)
GatewaysWithoutNamespace(ns, call) == Send("gateways", AllNamespaces, call)

Gateways(ns, call)        == Send("gateways", ns, call)
GatewayClasses(call)      == Send("gatewayclasses", AllNamespaces, call)
HTTPRoutes(ns, call)      == Send("httproutes", ns, call)
TCPRoutes(ns, call)       == Send("tcproutes", ns, call)
TLSRoutes(ns, call)       == Send("tlsroutes", ns, call)
UDPRoutes(ns, call)       == Send("udproutes", ns, call)

(* The getters of NetworkingV1alpha1Client.                                *)
NetworkingV1alpha1(kind, ns, call) ==
  CASE kind = "BackendPolicy" -> BackendPolicies(ns, call)
    [] kind = "Gateway"       -> Gateways(ns, call)
    [] kind = "GatewayClass"  -> GatewayClasses(call)
    [] kind = "HTTPRoute"     -> HTTPRoutes(ns, call)
    [] kind = "TCPRoute"      -> TCPRoutes(ns, call)
    [] kind = "TLSRoute"      -> TLSRoutes(ns, call)
    [] kind = "UDPRoute"      -> UDPRoutes(ns, call)

-----------------------------------------------------------------------------
(* The API server.                                                         *)

(* The plural under which each CRD of config/100-gateway-api.yaml is served. *)
Plural == [BackendPolicy |-> "backendpolicies", Gateway |-> "gateways",
           GatewayClass |-> "gatewayclasses", HTTPRoute |-> "httproutes",
           TCPRoute |-> "tcproutes", TLSRoute |-> "tlsroutes", UDPRoute |-> "udproutes"]

(* The objects at version v of a log: for each key, its last entry.        *)
At(log, v, keys) ==
  [k \in keys |-> LET entries == {i \in 1 .. v : log[i].key = k}
                  IN  IF entries = {} THEN Absent ELSE log[Max(entries)].obj]

Answer(code, objects) == [code |-> code, objects |-> objects]
OK(objects)  == Answer("OK", objects)
Refuse(code) == Answer(code, {})

(* A write that changes nothing makes no new version.                      *)
Store(log, old, new) ==
  IF new = old THEN log
  ELSE LET obj == [new EXCEPT !.rv = Len(log) + 1]
       IN  Append(log, [key |-> obj.key, obj |-> obj])

Selected(objects, req) ==
  {objects[k] : k \in {k \in DOMAIN objects :
     objects[k] # Absent /\ InNamespace(req.ns, k) /\ Matches(req.selector, objects[k])}}

(* A PUT is refused unless it carries the stored resourceVersion.  It      *)
(* replaces everything but the status, or the status alone.                *)
Put(old, req) ==
  IF req.sub = "status" THEN [old EXCEPT !.status = req.body.status]
                        ELSE [req.body EXCEPT !.status = old.status]

Merge(old, patch) == [f \in DOMAIN old |-> IF f \in DOMAIN patch THEN patch[f] ELSE old[f]]

(* A merge patch carries no resourceVersion and cannot conflict.           *)
Patch(old, req) ==
  LET new == Merge(old, req.body)
  IN  IF req.sub = "status" THEN [old EXCEPT !.status = new.status]
                            ELSE [new EXCEPT !.status = old.status]

Removals(objects) == SetToSeq({[key |-> o.key, obj |-> Absent] : o \in objects})

Lookup(objects, key) == IF key \in DOMAIN objects THEN objects[key] ELSE Absent

(* What a request does to the log and what is answered.                    *)
ServeCollection(log, objects, req) ==
  CASE req.verb = "GET"    -> [log |-> log, answer |-> OK(Selected(objects, req))]
    [] req.verb = "DELETE" -> [log |-> log \o Removals(Selected(objects, req)), answer |-> OK({})]

Refused(log, code) == [log |-> log, answer |-> Refuse(code)]

ServeCreate(log, objects, req) ==
  LET key == req.body.key
      obj == [req.body EXCEPT !.status = Empty, !.rv = Len(log) + 1]
  IN
  CASE ~InNamespace(req.ns, key) \/ key \notin DOMAIN objects -> Refused(log, "BadRequest")
    [] Lookup(objects, key) # Absent -> Refused(log, "AlreadyExists")
    [] OTHER -> [log |-> Append(log, [key |-> key, obj |-> obj]), answer |-> OK({obj})]

ServeObject(log, objects, req) ==
  LET old == Lookup(objects, <<req.ns, req.name>>)
      stored(new) == LET l == Store(log, old, new)
                     IN  [log |-> l, answer |-> OK({IF l = log THEN old ELSE Last(l).obj})]
  IN
  CASE old = Absent -> Refused(log, "NotFound")
    [] req.verb = "PUT" /\ old # Absent /\ req.body.rv # old.rv -> Refused(log, "Conflict")
    [] req.verb = "PUT" /\ old # Absent /\ req.body.rv = old.rv -> stored(Put(old, req))
    [] req.verb = "PATCH" /\ old # Absent  -> stored(Patch(old, req))
    [] req.verb = "GET" /\ old # Absent    -> [log |-> log, answer |-> OK({old})]
    [] req.verb = "DELETE" /\ old # Absent -> [log |-> log \o Removals({old}), answer |-> OK({})]

Serve(log, keys, req) ==
  LET objects == At(log, Len(log), keys)
  IN  IF req.verb = "POST"      THEN ServeCreate(log, objects, req)
      ELSE IF req.name = NoName THEN ServeCollection(log, objects, req)
      ELSE ServeObject(log, objects, req)
=============================================================================
