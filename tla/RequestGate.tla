----------------------------- MODULE RequestGate -----------------------------
(***************************************************************************)
(* The way of a request through the server: the JSON parser, the Host and  *)
(* Origin gate, the media type check, the route or the bench's own files,  *)
(* and the error handler (http.ts, same-origin.ts, json-body.ts,           *)
(* bench-serve.ts; bench/host.ts mounts the same chain).  Host names are   *)
(* abstract: what counts is whether a name is loopback, another address    *)
(* literal, a wildcard address or a DNS name, and which names are equal.   *)
(* A path is the sequence of its decoded segments.                         *)
(***************************************************************************)
EXTENDS Naturals, Sequences

CONSTANTS Loopback,   \* LOOPBACK_HOSTNAMES
          Wildcard,   \* WILDCARD_BINDS
          OtherIps,   \* other address literals
          DnsNames,   \* names that are not address literals
          Ports, Bodies,
          Unset,      \* no port in a header, no --host
          Absent,     \* the header was not sent
          Opaque,     \* a Host or an Origin that does not parse
          Dist,       \* the bench's dist directory, as a path
          Siblings,   \* directories whose name merely starts like dist's
          Segments, Files, Dirs

ASSUME GateAssumption ==
  /\ 80 \in Ports
  /\ Dist \in Seq(STRING) /\ Dist # <<>>

VARIABLES gaBound,   \* the --host the server was started with, or Unset
          gaMode,    \* BenchServeMode
          gaAsk,     \* the request being answered
          gaReply    \* what it was answered, and by which stage
gateVars == <<gaBound, gaMode, gaAsk, gaReply>>

Names == Loopback \cup Wildcard \cup OtherIps \cup DnsNames
PortOrNone == Ports \cup {Unset}
HostHeaders == [name : Names, port : PortOrNone] \cup {Absent, Opaque}
OriginHeaders ==
  [scheme : {"http", "https"}, name : Names, port : PortOrNone] \cup {Absent, Opaque}
PageHost == [name |-> CHOOSE n \in Loopback : TRUE, port |-> 80]

Paths == UNION {[1 .. n -> Segments] : n \in 0 .. 3}

\* Nothing on the way of a page or an upgrade reads what is fixed for it here.
Requests ==
  [kind : {"api"}, host : HostHeaders, origin : OriginHeaders, body : Bodies]
  \cup [kind : {"ws"}, host : HostHeaders, origin : OriginHeaders, body : {"none"}]
  \cup [kind : {"other-upgrade"}, host : {PageHost}, origin : {Absent}, body : {"none"}]
  \cup [kind : {"page"}, host : {PageHost}, origin : {Absent}, body : Bodies,
        path : Paths, spelled : {"plain"}]
  \cup [kind : {"page"}, host : {PageHost}, origin : {Absent}, body : {"none"},
        path : Paths \ {<<>>}, spelled : {"malformed", "backslash"}]

----------------------------------------------------------------------------
(* same-origin.ts                                                          *)

PortOf(h) == IF h.port = Unset THEN 80 ELSE h.port

\* isIpLiteral of a parsed hostname.
isIpLiteral(name) == name \notin DnsNames

\* Mutant: any name the request gives itself will do.
NamedAnything(host, bound) == host \notin {Absent, Opaque}

\* isAllowedHost: loopback always, any literal under a wildcard bind, else --host.
isAllowedHost(host, bound) ==
  /\ host \notin {Absent, Opaque}
  /\ \/ host.name \in Loopback
     \/ bound \in Wildcard /\ isIpLiteral(host.name)
     \/ bound # Unset /\ bound \notin Wildcard /\ host.name = bound

\* originMatchesHost: plain http, the same name, the same port.
originMatchesHost(origin, host) ==
  /\ origin # Opaque
  /\ origin.scheme = "http"
  /\ origin.name = host.name
  /\ PortOf(origin) = PortOf(host)

isSameOriginOrAbsent(origin, host, bound) ==
  /\ isAllowedHost(host, bound)
  /\ origin = Absent \/ originMatchesHost(origin, host)

----------------------------------------------------------------------------
(* json-body.ts and the error handler                                      *)

carriesBody(r) == r.body # "none"
isJson(r) == r.body \in {"json", "malformed", "too-large"}
refuseNonJsonBody(r) == carriesBody(r) /\ ~isJson(r)

\* The error handler: a parse error is 400, an error's own status is kept
\* (the parser's 413), anything else is 400.
errorReply(err) ==
  [status |-> IF err = "too-large" THEN 413 ELSE 400, by |-> "error-handler", file |-> Absent]

Reply(code, stage) == [status |-> code, by |-> stage, file |-> Absent]

----------------------------------------------------------------------------
(* bench-serve.ts                                                          *)

chooseBenchServeMode(distExists, hasDevServerUrl) ==
  IF distExists THEN "static" ELSE IF hasDevServerUrl THEN "proxy" ELSE "not-built"

\* path.resolve: '..' drops a segment, and stays at the root of the file system.
Resolve(base, path) ==
  LET Walk[i \in 0 .. Len(path)] ==
        IF i = 0 THEN base
        ELSE LET at == Walk[i - 1] IN
             IF path[i] # ".." THEN Append(at, path[i])
             ELSE IF at = <<>> THEN at ELSE SubSeq(at, 1, Len(at) - 1)
  IN Walk[Len(path)]

IsInside(file, dir) == Len(file) >= Len(dir) /\ SubSeq(file, 1, Len(dir)) = dir

\* Mutant: the containment check without its separator: a sibling that starts like dist passes.
LooseWithinDist(path) ==
  LET candidate == Resolve(Dist, path) IN
  IF \E d \in {Dist} \cup Siblings : IsInside(candidate, d) THEN candidate ELSE Absent

\* resolveWithinDist: dist itself or below it, else null.
resolveWithinDist(path) ==
  LET candidate == Resolve(Dist, path) IN
  IF IsInside(candidate, Dist) THEN candidate ELSE Absent

IndexHtml == Append(Dist, "index.html")

\* The page handler: a file of dist, the SPA fallback for what does not exist,
\* and the error handler for what readFile refuses (a directory).
ServeStatic(r) ==
  LET requested == IF r.path = <<>> THEN IndexHtml ELSE resolveWithinDist(r.path)
      file == IF requested \in Files \cup Dirs THEN requested ELSE IndexHtml
  IN IF r.spelled = "backslash" THEN Reply(400, "page")
     ELSE IF r.spelled = "malformed" \/ requested = Absent THEN Reply(403, "page")
     ELSE IF file \in Files THEN [status |-> 200, by |-> "page", file |-> file]
     ELSE errorReply("read-failed")

----------------------------------------------------------------------------
\* Mutant: the media type is looked at before the host.
MediaTypeFirst(r) ==
  IF r.body \in {"malformed", "too-large"} THEN errorReply(r.body)
  ELSE IF refuseNonJsonBody(r) THEN Reply(415, "media-type")
  ELSE IF isSameOriginOrAbsent(r.origin, r.host, gaBound)
  THEN Reply(200, "route") ELSE Reply(403, "origin-gate")

\* The order in which http.ts mounts its middleware, for a request under /api.
AnswerApi(r) ==
  IF r.body \in {"malformed", "too-large"} THEN errorReply(r.body)
  ELSE IF ~isAllowedHost(r.host, gaBound) THEN Reply(403, "host-gate")
  ELSE IF ~isSameOriginOrAbsent(r.origin, r.host, gaBound) THEN Reply(403, "origin-gate")
  ELSE IF refuseNonJsonBody(r) THEN Reply(415, "media-type")
  ELSE Reply(200, "route")

\* A request that is not under /api is not gated: it only ever reads the bench's files.
AnswerPage(r) ==
  IF r.body \in {"malformed", "too-large"} THEN errorReply(r.body)
  ELSE IF gaMode = "static" THEN ServeStatic(r)
  ELSE IF gaMode = "proxy" THEN Reply(200, "dev-server")
  ELSE Reply(200, "not-built-page")

\* The upgrade handler of the WebSocket.
AnswerUpgrade(r) ==
  IF r.kind = "ws" /\ isSameOriginOrAbsent(r.origin, r.host, gaBound)
  THEN Reply(101, "route") ELSE Reply(0, "destroyed")

NoRequest == [kind |-> "none"]

GateInit ==
  /\ gaBound \in Names \cup {Unset}
  /\ \E distExists, dev \in BOOLEAN : gaMode = chooseBenchServeMode(distExists, dev)
  /\ gaAsk = NoRequest /\ gaReply = Absent

Ask(r) ==
  /\ gaAsk = NoRequest
  /\ gaAsk' = r
  /\ gaReply' = IF r.kind = "api" THEN AnswerApi(r)
                ELSE IF r.kind = "page" THEN AnswerPage(r) ELSE AnswerUpgrade(r)
  /\ UNCHANGED <<gaBound, gaMode>>

GateNext == \E r \in Requests : Ask(r)

GateSpec == GateInit /\ [][GateNext]_gateVars

----------------------------------------------------------------------------
GateTypeOK ==
  /\ gaBound \in Names \cup {Unset}
  /\ gaMode \in {"static", "proxy", "not-built"}
  /\ gaAsk = NoRequest \/ gaAsk \in Requests
  /\ gaReply = Absent \/ gaReply.status \in {0, 101, 200, 400, 403, 413, 415}

\* A request that carries an Origin and reaches a route or the socket comes from the bench's
\* own page: loaded over http from the very name and port it now talks to, a name nobody can
\* re-point: loopback, the --host, or an address under a wildcard bind.  A name that can be
\* rebound reaches nothing, with an Origin or without.  What the gate does not stop, and this
\* does not claim, is a request without an Origin that uses such a name: a local tool's, or
\* that of a tag on any page (same-origin.ts:13-50, #18, #81).
NoForeignOrigin ==
  (gaReply # Absent /\ gaReply.by = "route") =>
    LET trusted == Loopback \cup {gaBound}
                   \cup IF gaBound \in Wildcard THEN OtherIps \cup Wildcard ELSE {}
    IN /\ gaAsk.host.name \in trusted
       /\ gaAsk.origin # Absent =>
            gaAsk.origin \in [scheme : {"http"}, name : {gaAsk.host.name},
                              port : {p \in PortOrNone :
                                        PortOf([port |-> p]) = PortOf(gaAsk.host)}]

\* A foreign page is refused as foreign: the media type check never answers it
\* (http.ts:245-248, json-body.ts:47).
ForeignLosesOnTheGate ==
  (gaReply # Absent /\ gaReply.by = "media-type")
    => isSameOriginOrAbsent(gaAsk.origin, gaAsk.host, gaBound)

\* Whatever the path, plain, encoded or climbing, a file that is sent lies in dist
\* (bench-serve.ts:76).
ServedInsideDist ==
  (gaReply # Absent /\ gaReply.file # Absent) => IsInside(gaReply.file, Dist)
=============================================================================
