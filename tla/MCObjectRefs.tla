---------------------------- MODULE MCObjectRefs -------------------------------
(***************************************************************************)
(* Command lines of query, refs, refs --from-notify, context and monitor.  *)
(***************************************************************************)
EXTENDS ObjectRefs

Line(name) ==
  [name |-> name, kind |-> "process", pid |-> "", tid |-> "", path |-> "",
   volume |-> "", fileId |-> "", event |-> "", props |-> "", supported |-> "",
   fresh |-> FALSE, duplicate |-> FALSE, set |-> FALSE, enum |-> FALSE, wantsFo |-> FALSE,
   recipes |-> {}]

Recipe(e) == [event |-> e]

\* One line per kind and key form, good and bad.
KeyLines ==
  LET L == Line("refs") IN
  {[L EXCEPT !.kind = k, !.pid = p] : k \in {"process", "token"}, p \in {"ok", "bad"}}
  \cup {[L EXCEPT !.kind = k, !.tid = t] : k \in {"thread-token", "token"}, t \in {"ok", "bad"}}
  \cup {[L EXCEPT !.kind = "volume", !.volume = v] : v \in {"", "bad", "null", "ok"}}
  \cup {[L EXCEPT !.kind = "stream", !.fileId = f, !.volume = v] :
          f \in {"ok", "bad"}, v \in {"ok", "null"}}
  \cup {[L EXCEPT !.kind = "file", !.path = p] : p \in {"", "ok"}}
  \cup {[L EXCEPT !.kind = "event", !.event = e] : e \in {"ok", "null"}}
  \cup {[L EXCEPT !.kind = k] : k \in {"desktop", "bogus"}}

OpLines ==
  {[Line(n) EXCEPT !.duplicate = d, !.props = p, !.set = s, !.enum = e] :
     n \in {"query", "refs"}, d \in BOOLEAN, p \in {"", "ok", "bad"},
     s \in BOOLEAN, e \in BOOLEAN}

QueryLines ==
  {[Line("query") EXCEPT !.kind = k, !.props = p, !.supported = s] :
     k \in {"client", "ktm", "event", "bogus"}, p \in {"", "ok", "bad"}, s \in {"", "ok", "bad"}}

NotifyLines ==
  {[Line("notify") EXCEPT !.wantsFo = f, !.recipes = r] :
     f \in BOOLEAN, r \in {{}, {Recipe(0)}, {Recipe(1), Recipe(2)}}}

MonitorLines == {[Line("monitor") EXCEPT !.recipes = {Recipe(1)}, !.fresh = f] : f \in BOOLEAN}

AllLines ==
  MonitorLines \cup {[Line("query") EXCEPT !.kind = ""]} \cup KeyLines \cup OpLines
  \cup QueryLines \cup NotifyLines \cup {Line("context")}
QueryOnly == QueryLines \cup {[Line("query") EXCEPT !.kind = ""]}
ContextLine == {Line("context")}

\* A kind the query table sends to a create is one CreateReferenceForKind knows.
ASSUME KindsAgree ==
  \A k \in KindHasReferenceCreate :
    CreateReferenceForKind([Line("refs") EXCEPT
      !.kind = k, !.path = "ok", !.volume = "ok", !.event = "ok"])
================================================================================
