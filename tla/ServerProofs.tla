---------------------------- MODULE ServerProofs -----------------------------
(***************************************************************************)
(* Proofs about the parts of the server that share no state, for every     *)
(* value of the constants: each part by itself, then the run that MCServer *)
(* makes of them.                                                          *)
(***************************************************************************)
EXTENDS MCServer, WellFoundedInduction, FiniteSetTheorems, SequenceTheorems, TLAPS

-----------------------------------------------------------------------------
(* RequestGate                                                             *)

GateInv == GateTypeOK /\ NoForeignOrigin /\ ForeignLosesOnTheGate /\ ServedInsideDist

LEMMA ReplyFields ==
  ASSUME NEW code, NEW stage
  PROVE  /\ Reply(code, stage).status = code /\ Reply(code, stage).by = stage
         /\ Reply(code, stage).file = Absent
BY DEF Reply

LEMMA ErrorFields ==
  ASSUME NEW err
  PROVE  /\ errorReply(err).status \in {400, 413} /\ errorReply(err).by = "error-handler"
         /\ errorReply(err).file = Absent
BY DEF errorReply

LEMMA IndexInside == IsInside(IndexHtml, Dist)
<1>1. /\ Dist \in Seq(STRING) /\ Len(Dist) \in Nat
      /\ Len(Append(Dist, "index.html")) = Len(Dist) + 1
  BY GateAssumption
<1>2. SubSeq(Append(Dist, "index.html"), 1, Len(Dist)) = Dist
  BY <1>1
<1> QED BY <1>1, <1>2 DEF IsInside, IndexHtml

\* What the page handler sends, for every path.
LEMMA StaticReply ==
  ASSUME NEW r
  PROVE  LET a == ServeStatic(r) IN
         /\ a.status \in {200, 400, 403, 413} /\ a.by \in {"page", "error-handler"}
         /\ a.file # Absent => IsInside(a.file, Dist)
<1> DEFINE requested == IF r.path = <<>> THEN IndexHtml ELSE resolveWithinDist(r.path)
           file == IF requested \in Files \cup Dirs THEN requested ELSE IndexHtml
           sent == [status |-> 200, by |-> "page", file |-> file]
<1>1. requested # Absent => IsInside(requested, Dist)
  BY IndexInside DEF resolveWithinDist
<1>2. requested # Absent => IsInside(file, Dist)
  BY <1>1, IndexInside
<1>3. sent.status = 200 /\ sent.by = "page" /\ sent.file = file
  OBVIOUS
<1>4. \/ ServeStatic(r) \in {Reply(400, "page"), Reply(403, "page"), errorReply("read-failed")}
      \/ requested # Absent /\ ServeStatic(r) = sent
  BY DEF ServeStatic
<1> HIDE DEF requested, file, sent
<1> QED BY <1>2, <1>3, <1>4, ReplyFields, ErrorFields

\* The origin of a page that passes the gate is the name and port it talks to.
LEMMA OwnPage ==
  ASSUME NEW host \in HostHeaders, NEW origin \in OriginHeaders,
         NEW bound \in Names \cup {Unset}, isSameOriginOrAbsent(origin, host, bound)
  PROVE  /\ host.name \in Loopback \cup {bound}
                          \cup IF bound \in Wildcard THEN OtherIps \cup Wildcard ELSE {}
         /\ origin # Absent =>
              origin \in [scheme : {"http"}, name : {host.name},
                          port : {p \in PortOrNone : PortOf([port |-> p]) = PortOf(host)}]
<1>1. host \in [name : Names, port : PortOrNone]
  BY DEF isSameOriginOrAbsent, isAllowedHost, HostHeaders
<1>2. host.name \in Loopback \cup {bound}
                    \cup IF bound \in Wildcard THEN OtherIps \cup Wildcard ELSE {}
  BY <1>1 DEF isSameOriginOrAbsent, isAllowedHost, isIpLiteral, Names
<1>3. ASSUME origin # Absent
      PROVE  origin \in [scheme : {"http"}, name : {host.name},
                         port : {p \in PortOrNone : PortOf([port |-> p]) = PortOf(host)}]
  <2>1. /\ origin \in [scheme : {"http", "https"}, name : Names, port : PortOrNone]
        /\ origin.scheme = "http" /\ origin.name = host.name /\ PortOf(origin) = PortOf(host)
    BY <1>3 DEF isSameOriginOrAbsent, originMatchesHost, OriginHeaders
  <2>2. PortOf([port |-> origin.port]) = PortOf(origin)
    BY DEF PortOf
  <2> QED BY <2>1, <2>2
<1> QED BY <1>2, <1>3

LEMMA GateStart == GateInit => GateInv
BY DEF GateInit, GateInv, GateTypeOK, NoForeignOrigin, ForeignLosesOnTheGate, ServedInsideDist,
       chooseBenchServeMode

LEMMA GateStep ==
  ASSUME GateInv, GateNext
  PROVE  GateInv'
<1> PICK r \in Requests : Ask(r)
  BY DEF GateNext
<1>1. /\ gaAsk' = r /\ gaBound' = gaBound /\ gaMode' = gaMode
      /\ gaBound \in Names \cup {Unset} /\ gaMode \in {"static", "proxy", "not-built"}
  BY DEF Ask, GateInv, GateTypeOK
<1>2. r.kind \in {"api", "ws"} => r.host \in HostHeaders /\ r.origin \in OriginHeaders
  BY DEF Requests
<1> DEFINE a == gaReply'
           Passed == isSameOriginOrAbsent(r.origin, r.host, gaBound)
<1>3. /\ a.status \in {0, 101, 200, 400, 403, 413, 415}
      /\ a.by = "route" => r.kind \in {"api", "ws"} /\ Passed
      /\ a.by = "media-type" => Passed
      /\ a.file # Absent => IsInside(a.file, Dist)
  <2>1. CASE r.kind = "api"
    <3>1. \/ a = errorReply(r.body)
          \/ a \in {Reply(403, "host-gate"), Reply(403, "origin-gate")}
          \/ Passed /\ a \in {Reply(415, "media-type"), Reply(200, "route")}
      BY <2>1 DEF Ask, AnswerApi
    <3> HIDE DEF a, Passed
    <3> QED BY <2>1, <3>1, ReplyFields, ErrorFields
  <2>2. CASE r.kind = "page"
    <3>1. \/ a = errorReply(r.body) \/ a = ServeStatic(r)
          \/ a \in {Reply(200, "dev-server"), Reply(200, "not-built-page")}
      BY <2>2 DEF Ask, AnswerPage
    <3> HIDE DEF a
    <3> QED BY <3>1, ReplyFields, ErrorFields, StaticReply
  <2>3. CASE r.kind \notin {"api", "page"}
    <3>1. \/ r.kind = "ws" /\ Passed /\ a = Reply(101, "route")
          \/ a = Reply(0, "destroyed")
      BY <2>3 DEF Ask, AnswerUpgrade
    <3> HIDE DEF a, Passed
    <3> QED BY <3>1, ReplyFields
  <2> QED BY <2>1, <2>2, <2>3
<1>4. GateTypeOK'
  BY <1>1, <1>3 DEF GateTypeOK
<1>5. NoForeignOrigin'
  BY <1>1, <1>2, <1>3, OwnPage DEF NoForeignOrigin
<1>6. ForeignLosesOnTheGate' /\ ServedInsideDist'
  BY <1>1, <1>3 DEF ForeignLosesOnTheGate, ServedInsideDist
<1> QED BY <1>4, <1>5, <1>6 DEF GateInv

-----------------------------------------------------------------------------
(* PathGuard                                                               *)

\* A place that realpath let through: it was there, and on no share.
Local == Directories \cup {"file"}

\* What each await has behind it: the spelling was local, then the place was, and unless
\* that place was replaced, each later call touched it and found a directory.
GuardInv ==
  /\ GuardTypeOK /\ SharesNeverRead /\ OneDirectoryListed /\ ClampOutsideJig
  /\ pgAt \in {"idle", "realpath"} => pgRead = [c \in FsCalls |-> Nowhere]
  /\ pgAt # "done" => pgReply = "none"
  /\ pgAt \notin {"idle", "done"} => pgRaw \in Spellings \ {"blank"} /\ ~isUncPath(Resolved(pgRaw))
  /\ pgAt \in {"idle", "realpath"} => pgReal = Nowhere
  /\ pgAt \in {"stat", "readdir", "attrib", "probe"} =>
       /\ pgReal \in Local /\ pgRead["realpath"] = pgReal
       /\ ~pgMoved => Reached(pgReal) = pgReal
                      /\ \A c \in FsCalls : pgRead[c] \in {pgReal, Nowhere}
  /\ pgAt \in {"readdir", "attrib", "probe"} /\ ~pgMoved => pgReal \in Directories

LEMMA GuardStart == GuardInit => GuardInv
<1> SUFFICES ASSUME GuardInit PROVE GuardInv
  OBVIOUS
<1>1. GuardTypeOK
  BY DEF GuardInit, GuardTypeOK, Places, Directories
<1>2. Nowhere # "share" /\ "share" \in Places
  BY NowhereAssumption DEF Places
<1>3. /\ pgRead = [c \in FsCalls |-> Nowhere] /\ pgRead["realpath"] = Nowhere
      /\ \A c \in FsCalls : pgRead[c] = Nowhere
  BY DEF GuardInit, FsCalls
<1>4. SharesNeverRead
  BY <1>2, <1>3 DEF SharesNeverRead
<1> QED BY <1>1, <1>3, <1>4 DEF GuardInit, GuardInv, OneDirectoryListed, ClampOutsideJig

\* A step that leaves request, spelling and world's working directory alone.
GuardFrame == UNCHANGED <<pgCwd, pgWin, pgOp, pgRaw>>

LEMMA ReachedIsPlace ==
  ASSUME GuardTypeOK, NEW place \in Places \cup {"link"}
  PROVE  /\ place # "link" => Reached(place) \in Places
         /\ Follow(place) \in Places
BY DEF GuardTypeOK, Reached, Follow, Places, Directories, Failing

\* What a call behind the check finds: the place it was told, if nobody replaced it.
LEMMA CallBehindTheCheck ==
  ASSUME GuardInv, pgAt \in {"stat", "readdir", "attrib", "probe"},
         NEW call \in {"stat", "readdir", "attrib", "probe"},
         GuardFrame, Touched(call, Reached(pgReal)), pgReal' = pgReal, pgMoved' = pgMoved,
         pgDirA' = pgDirA
  PROVE  /\ pgRead' \in [FsCalls -> Places \cup {Nowhere}]
         /\ pgRead'["realpath"] = pgReal /\ pgReal \in Local
         /\ ~pgMoved => /\ Reached(pgReal)' = pgReal
                        /\ \A c \in FsCalls : pgRead'[c] \in {pgReal, Nowhere}
                        /\ pgRead'[call] = pgReal
         /\ SharesNeverRead'
<1>1. /\ GuardTypeOK /\ pgReal \in Local /\ pgRead["realpath"] = pgReal
      /\ pgRead \in [FsCalls -> Places \cup {Nowhere}]
      /\ pgRaw \in Spellings \ {"blank"} /\ ~isUncPath(Resolved(pgRaw))
      /\ ~pgMoved => Reached(pgReal) = pgReal /\ \A c \in FsCalls : pgRead[c] \in {pgReal, Nowhere}
  BY DEF GuardInv, GuardTypeOK
<1>2. pgReal \in Places /\ pgReal # "share" /\ pgReal # "link"
  BY <1>1 DEF Local, Places, Directories, Failing
<1>3. Reached(pgReal) \in Places
  BY <1>1, <1>2, ReachedIsPlace
<1>4. pgRead' = [pgRead EXCEPT ![call] = Reached(pgReal)]
  BY DEF Touched
<1>5. call \in FsCalls /\ call # "realpath" /\ "realpath" \in FsCalls
  BY DEF FsCalls
<1>6. /\ pgRead' \in [FsCalls -> Places \cup {Nowhere}]
      /\ pgRead'["realpath"] = pgReal
      /\ \A c \in FsCalls : pgRead'[c] = IF c = call THEN Reached(pgReal) ELSE pgRead[c]
  BY <1>1, <1>3, <1>4, <1>5
<1>7. ~isUncPath(Resolved(pgRaw))'
  BY <1>1 DEF GuardFrame, Resolved, isUncPath
<1>8. Reached(pgReal)' = Reached(pgReal)
  BY DEF Reached
<1>9. ~pgMoved => /\ \A c \in FsCalls : pgRead'[c] \in {pgReal, Nowhere}
                  /\ pgRead'[call] = pgReal
  BY <1>1, <1>5, <1>6
<1>10. SharesNeverRead'
  <2>1. ~pgMoved => \A c \in FsCalls \ {"realpath"} : pgRead'[c] # "share"
    <3> SUFFICES ASSUME ~pgMoved, NEW c \in FsCalls \ {"realpath"}, pgRead'[c] = "share"
                 PROVE  FALSE
      OBVIOUS
    <3>1. c # call
      BY <1>2, <1>9
    <3>2. pgRead[c] = "share"
      BY <3>1, <1>6
    <3> QED BY <3>2 DEF GuardInv, SharesNeverRead
  <2> QED BY <1>2, <1>6, <1>7, <2>1 DEF SharesNeverRead
<1> QED BY <1>1, <1>6, <1>8, <1>9, <1>10

LEMMA GuardStep ==
  ASSUME GuardInv, GuardNext
  PROVE  GuardInv'
<1>0. GuardTypeOK
  BY DEF GuardInv
<1>f. GuardFrame => Resolved(pgRaw)' = Resolved(pgRaw)
  BY DEF GuardFrame, Resolved
<1>1. ASSUME NEW op \in {"list", "clamp"}, NEW raw \in Spellings, RequestPath(op, raw)
      PROVE  GuardInv'
  <2>1. /\ pgAt = "idle" /\ pgReply = "none" /\ pgReal = Nowhere
        /\ pgRead = [c \in FsCalls |-> Nowhere]
    BY <1>1 DEF RequestPath, GuardInv
  <2>2. /\ pgOp' = op /\ pgRaw' = raw /\ pgRead' = pgRead
        /\ UNCHANGED <<pgCwd, pgWin, pgLink, pgDirA, pgMoved, pgReal, pgNames>>
        /\ \/ pgAt' = "done" /\ pgReply' \in {"path-is-required", "unc-refused"}
           \/ pgAt' = "realpath" /\ pgReply' = "none" /\ ~isUncPath(Resolved(raw)) /\ raw # "blank"
    BY <1>1, <2>1 DEF RequestPath, Answer, worldVars
  <2>3. isUncPath(Resolved(pgRaw))' = isUncPath(Resolved(raw))
    BY <2>2 DEF Resolved, isUncPath
  <2>4. GuardTypeOK'
    BY <1>0, <2>2 DEF GuardTypeOK
  <2>5. SharesNeverRead'
    <3>1. /\ pgRead' = [c \in FsCalls |-> Nowhere]
          /\ \A c \in FsCalls : c \in FsCalls \ {"realpath"} => pgRead'[c] = pgRead[c]
          /\ pgRead'["realpath"] = pgRead["realpath"] /\ pgMoved' = pgMoved
      BY <2>1, <2>2
    <3>2. pgRead["realpath"] # "share"
      BY <2>1 DEF GuardInv, SharesNeverRead
    <3> QED BY <3>1, <3>2 DEF GuardInv, SharesNeverRead
  <2> QED BY <2>1, <2>2, <2>3, <2>4, <2>5 DEF GuardInv, OneDirectoryListed, ClampOutsideJig
<1>2. CASE RealpathAnswers
  <2> DEFINE place == Follow(Resolved(pgRaw))
  <2>1. /\ pgAt = "realpath" /\ pgReply = "none" /\ pgReal = Nowhere
        /\ pgRead = [c \in FsCalls |-> Nowhere]
        /\ pgRaw \in Spellings \ {"blank"} /\ ~isUncPath(Resolved(pgRaw))
    BY <1>2 DEF RealpathAnswers, GuardInv
  <2>2. Resolved(pgRaw) \in Places \cup {"link"}
    BY <2>1 DEF Resolved, Spellings, isUncPath, Places, Directories, Failing
  <2>3. place \in Places
    BY <1>0, <2>2, ReachedIsPlace
  <2>4. place = "dirA" => pgDirA = "dirA"
    BY DEF Follow, Reached
  <2>5. realpathFailureMessage(place) \notin {"ok", "listed", "none"}
    BY Zenon DEF realpathFailureMessage
  <2> HIDE DEF place
  <2>6. place \in Local \/ place \in Failing \/ isUncPath(place)
    BY <2>3 DEF isUncPath, Local, Places
  <2>7. /\ GuardFrame /\ UNCHANGED <<pgLink, pgDirA, pgMoved, pgNames>>
        /\ pgRead' = [pgRead EXCEPT !["realpath"] = place]
        /\ \/ /\ pgAt' = "done" /\ pgReply' \notin {"ok", "listed"} /\ pgReal' = pgReal
              /\ place = "share" => pgReply' = "unc-refused"
           \/ /\ pgAt' = "stat" /\ pgReply' = pgReply /\ pgReal' = place /\ place \in Local
              /\ place # "share"
    BY <1>2, <2>5, <2>6
       DEF RealpathAnswers, Answer, Touched, worldVars, GuardFrame, place, isUncPath, Failing
  <2>8. /\ pgRead' \in [FsCalls -> Places \cup {Nowhere}]
        /\ pgRead'["realpath"] = place
        /\ \A c \in FsCalls \ {"realpath"} : pgRead'[c] = pgRead[c] /\ pgRead'[c] = Nowhere
    BY <2>1, <2>3, <2>7 DEF FsCalls
  <2>9. GuardTypeOK'
    BY <1>0, <2>3, <2>7, <2>8 DEF GuardTypeOK, GuardFrame
  <2>10. SharesNeverRead'
    <3>1. ~isUncPath(Resolved(pgRaw))'
      BY <1>f, <2>1, <2>7 DEF GuardFrame, isUncPath
    <3>2. place = "share" => pgReply' = "unc-refused"
      BY <2>7
    <3>3. ~pgMoved' => \A c \in FsCalls \ {"realpath"} : pgRead'[c] # "share"
      BY <2>7, <2>8 DEF GuardInv, SharesNeverRead
    <3> QED BY <3>1, <3>2, <3>3, <2>8 DEF SharesNeverRead
  <2>11. ~pgMoved' /\ pgAt' = "stat" => Reached(pgReal)' = pgReal'
    BY <2>4, <2>7 DEF Reached
  <2>12. pgAt' = "stat" => \A c \in FsCalls : pgRead'[c] \in {pgReal', Nowhere}
    BY <2>7, <2>8
  <2>13. pgAt' # "done" => pgRaw' \in Spellings \ {"blank"} /\ ~isUncPath(Resolved(pgRaw))'
    BY <1>f, <2>1, <2>7 DEF GuardFrame, isUncPath
  <2> QED BY <2>1, <2>7, <2>8, <2>9, <2>10, <2>11, <2>12, <2>13
          DEF GuardInv, OneDirectoryListed, ClampOutsideJig
\* The four calls behind the check.
<1>b. ASSUME pgAt \in {"stat", "readdir", "attrib", "probe"}
      PROVE  /\ pgReply = "none" /\ pgReal \in Local /\ pgRead["realpath"] = pgReal
             /\ pgRaw \in Spellings \ {"blank"} /\ ~isUncPath(Resolved(pgRaw))
             /\ ~pgMoved => Reached(pgReal) = pgReal
                            /\ \A c \in FsCalls : pgRead[c] \in {pgReal, Nowhere}
             /\ pgAt # "stat" /\ ~pgMoved => pgReal \in Directories
  BY <1>b DEF GuardInv
<1>3. CASE StatAnswers
  <2>1. pgAt = "stat"
    BY <1>3 DEF StatAnswers
  <2>2. /\ GuardFrame /\ UNCHANGED <<pgLink, pgDirA, pgMoved, pgReal, pgNames>>
        /\ Touched("stat", Reached(pgReal))
        /\ \/ pgAt' = "done" /\ pgReply' \notin {"ok", "listed"}
           \/ pgAt' = "readdir" /\ pgReply' = "none" /\ IsDirectory(Reached(pgReal))
           \/ /\ pgAt' = "done" /\ pgReply' = "ok" /\ IsDirectory(Reached(pgReal))
              /\ pgReal # "in-.jig" /\ Resolved(pgRaw) # "in-.jig"
    BY <1>3, <1>b, <2>1 DEF StatAnswers, Answer, worldVars, GuardFrame, RefusesJig, namesJigDirectory
  <2>3. /\ pgRead' \in [FsCalls -> Places \cup {Nowhere}]
        /\ pgRead'["realpath"] = pgReal /\ pgReal \in Local
        /\ ~pgMoved => /\ Reached(pgReal)' = pgReal
                       /\ \A c \in FsCalls : pgRead'[c] \in {pgReal, Nowhere}
                       /\ pgRead'["stat"] = pgReal
        /\ SharesNeverRead'
    BY <2>1, <2>2, CallBehindTheCheck
  <2>4. ~pgMoved /\ IsDirectory(Reached(pgReal)) => pgReal \in Directories
    BY <1>b, <2>1 DEF IsDirectory, Local, Directories
  <2>5. GuardTypeOK'
    BY <1>0, <2>2, <2>3 DEF GuardTypeOK, GuardFrame
  <2> QED BY <1>b, <1>f, <2>1, <2>2, <2>3, <2>4, <2>5
          DEF GuardInv, GuardFrame, OneDirectoryListed, ClampOutsideJig, isUncPath
<1>4. CASE ReaddirAnswers
  <2>1. pgAt = "readdir"
    BY <1>4 DEF ReaddirAnswers
  <2>2. /\ GuardFrame /\ UNCHANGED <<pgLink, pgDirA, pgMoved, pgReal>>
        /\ Touched("readdir", Reached(pgReal))
        /\ pgNames' = pgNames \/ pgNames' = Entries \ Hidden
        /\ \/ pgAt' = "done" /\ pgReply' = "read-failed"
           \/ pgAt' = "attrib" /\ pgReply' = "none"
    BY <1>4, <1>b, <2>1 DEF ReaddirAnswers, Answer, worldVars, GuardFrame
  <2>3. /\ pgRead' \in [FsCalls -> Places \cup {Nowhere}]
        /\ pgRead'["realpath"] = pgReal /\ pgReal \in Local
        /\ ~pgMoved => /\ Reached(pgReal)' = pgReal
                       /\ \A c \in FsCalls : pgRead'[c] \in {pgReal, Nowhere}
        /\ SharesNeverRead'
    BY <2>1, <2>2, CallBehindTheCheck
  <2>4. GuardTypeOK'
    BY <1>0, <2>2, <2>3 DEF GuardTypeOK, GuardFrame
  <2> QED BY <1>b, <1>f, <2>1, <2>2, <2>3, <2>4
          DEF GuardInv, GuardFrame, OneDirectoryListed, ClampOutsideJig, isUncPath
<1>5. CASE ProbesAnswer
  <2>1. pgAt = "probe"
    BY <1>5 DEF ProbesAnswer
  <2>2. /\ GuardFrame /\ UNCHANGED <<pgLink, pgDirA, pgMoved, pgReal, pgNames>>
        /\ Touched("probe", Reached(pgReal)) /\ pgAt' = "done" /\ pgReply' = "listed"
    BY <1>5 DEF ProbesAnswer, Answer, worldVars, GuardFrame
  <2>3. /\ pgRead' \in [FsCalls -> Places \cup {Nowhere}]
        /\ pgRead'["realpath"] = pgReal /\ pgReal \in Local
        /\ ~pgMoved => /\ Reached(pgReal)' = pgReal
                       /\ \A c \in FsCalls : pgRead'[c] \in {pgReal, Nowhere}
        /\ SharesNeverRead'
    BY <2>1, <2>2, CallBehindTheCheck
  <2>4. GuardTypeOK'
    BY <1>0, <2>2, <2>3 DEF GuardTypeOK, GuardFrame
  <2>5. OneDirectoryListed'
    BY <1>b, <2>1, <2>2, <2>3 DEF OneDirectoryListed, FsCalls
  <2> QED BY <2>1, <2>2, <2>3, <2>4, <2>5 DEF GuardInv, ClampOutsideJig
<1>6. ASSUME NEW answered \in BOOLEAN, AttribAnswers(answered)
      PROVE  GuardInv'
  <2>1. pgAt = "attrib"
    BY <1>6 DEF AttribAnswers
  <2>2. /\ GuardFrame /\ UNCHANGED <<pgLink, pgDirA, pgMoved, pgReal>>
        /\ Touched("attrib", Reached(pgReal)) \/ pgRead' = pgRead
        /\ pgAt' = "probe" /\ pgReply' = "none" /\ pgNames' \subseteq pgNames
    BY <1>6, <1>b, <2>1 DEF AttribAnswers, worldVars, GuardFrame
  <2>3. /\ pgRead' \in [FsCalls -> Places \cup {Nowhere}]
        /\ pgRead'["realpath"] = pgReal /\ pgReal \in Local
        /\ ~pgMoved => /\ Reached(pgReal)' = pgReal
                       /\ \A c \in FsCalls : pgRead'[c] \in {pgReal, Nowhere}
        /\ SharesNeverRead'
    <3>1. CASE Touched("attrib", Reached(pgReal))
      BY <3>1, <2>1, <2>2, CallBehindTheCheck
    <3>2. CASE pgRead' = pgRead
      <4>1. Reached(pgReal)' = Reached(pgReal)
        BY <2>2 DEF Reached
      <4>2. isUncPath(Resolved(pgRaw))' = isUncPath(Resolved(pgRaw))
        BY <2>2 DEF GuardFrame, Resolved, isUncPath
      <4>3. pgRead["realpath"] # "share"
        BY <1>b, <2>1 DEF Local, Directories
      <4>4. SharesNeverRead'
        BY <3>2, <2>2, <4>2, <4>3, <1>b, <2>1 DEF GuardInv, SharesNeverRead
      <4> QED BY <3>2, <2>1, <2>2, <4>1, <4>4, <1>b, <1>0 DEF GuardTypeOK
    <3> QED BY <3>1, <3>2, <2>2
  <2>4. GuardTypeOK'
    BY <1>0, <2>2, <2>3 DEF GuardTypeOK, GuardFrame
  <2> QED BY <1>b, <1>f, <2>1, <2>2, <2>3, <2>4
          DEF GuardInv, GuardFrame, OneDirectoryListed, ClampOutsideJig, isUncPath
<1>7. ASSUME NEW place \in Places, Repoint(place) \/ Replace(place)
      PROVE  GuardInv'
  <2>1. /\ GuardFrame /\ UNCHANGED <<pgAt, pgReal, pgRead, pgNames, pgReply>>
        /\ pgLink' \in Places /\ pgDirA' \in Places /\ pgMoved' \in BOOLEAN
        /\ pgMoved => pgMoved'
        /\ pgAt # "done"
    BY <1>0, <1>7 DEF Repoint, Replace, GuardFrame, GuardTypeOK
  <2>2. GuardTypeOK'
    BY <1>0, <2>1 DEF GuardTypeOK, GuardFrame
  <2>3. ~pgMoved' => ~pgMoved /\ (Reached(pgReal) = pgReal => Reached(pgReal)' = pgReal)
    BY <1>0, <1>7 DEF Repoint, Replace, Reached, GuardTypeOK
  <2>4. SharesNeverRead'
    <3>1. isUncPath(Resolved(pgRaw))' = isUncPath(Resolved(pgRaw))
      BY <2>1 DEF GuardFrame, Resolved, isUncPath
    <3> QED BY <2>1, <2>3, <3>1 DEF GuardInv, SharesNeverRead
  <2>5. pgAt' \in {"stat", "readdir", "attrib", "probe"} /\ ~pgMoved' =>
          /\ Reached(pgReal)' = pgReal'
          /\ \A c \in FsCalls : pgRead'[c] \in {pgReal', Nowhere}
          /\ pgAt' # "stat" => pgReal' \in Directories
    BY <1>b, <2>1, <2>3
  <2>6. pgReply' = "none"
    BY <2>1 DEF GuardInv
  <2> QED BY <1>b, <1>f, <2>1, <2>2, <2>4, <2>5, <2>6
          DEF GuardInv, GuardFrame, OneDirectoryListed, ClampOutsideJig, isUncPath
<1>8. {"dirA", "dirB", "in-.jig", "missing", "share"} \subseteq Places
  BY DEF Places, Directories, Failing
<1> QED BY <1>1, <1>2, <1>3, <1>4, <1>5, <1>6, <1>7, <1>8 DEF GuardNext

-----------------------------------------------------------------------------
(* FixtureStore: a call that has written leaves a file behind, whatever is *)
(* written after it.                                                       *)

FixtureInv ==
  /\ FixtureTypeOK /\ LoadedIsLive /\ NeverOnlyInMemory
  /\ \A c \in FixtureCalls :
       fxCall[c] \in Pending /\ fxCall[c].at = "written" => fxDisk[fxCall[c].id] # "absent"

LEMMA ToldType ==
  ASSUME NEW map, NEW active \in FixtureIds \cup {NoFixture}
  PROVE  Told(map, active) \in [name : FixtureIds \cup {NoFixture}, wiring : {"wired", "stub", "none"}]
BY DEF Told

LEMMA FixtureStart == FixtureInit => FixtureInv
<1> SUFFICES ASSUME FixtureInit PROVE FixtureInv
  OBVIOUS
<1>1. fxSink \in [name : FixtureIds \cup {NoFixture}, wiring : {"wired", "stub", "none"}]
  BY ToldType DEF FixtureInit
<1>2. Unasked \notin Pending
  BY DEF Unasked, Pending
<1> QED BY <1>1, <1>2 DEF FixtureInit, FixtureInv, FixtureTypeOK, LoadedIsLive, NeverOnlyInMemory

LEMMA FixtureStep ==
  ASSUME FixtureInv, FixtureNext
  PROVE  FixtureInv'
<1>0. /\ FixtureTypeOK /\ LoadedIsLive /\ NeverOnlyInMemory
      /\ \A c \in FixtureCalls :
           fxCall[c] \in Pending /\ fxCall[c].at = "written" => fxDisk[fxCall[c].id] # "absent"
  BY DEF FixtureInv
<1>u. Unasked \notin Pending
  BY DEF Unasked, Pending
<1>p. \A call \in Pending : /\ call.op \in {"create", "scrap", "restore"} /\ call.id \in FixtureIds
                            /\ call.at \in {"writing", "written"}
  BY DEF Pending
<1> DEFINE Call == {Unasked} \cup Pending \cup Loading \cup [op : {"proved"}, id : FixtureIds, ok : BOOLEAN]
<1>t. /\ fxMap \in [FixtureIds -> FixtureStates] /\ fxDisk \in [FixtureIds -> FixtureStates]
      /\ fxActive \in FixtureIds \cup {NoFixture} /\ fxCall \in [FixtureCalls -> Call]
      /\ fxSink \in [name : FixtureIds \cup {NoFixture}, wiring : {"wired", "stub", "none"}]
  BY <1>0 DEF FixtureTypeOK
<1>a. \A op : After(op) \in FixtureStates \ {"absent"}
  BY DEF After, FixtureStates
\* Only the state of calls changes, and the changed one has not just written.
<1>c. ASSUME NEW c \in FixtureCalls, NEW new \in Call,
             fxCall' = [fxCall EXCEPT ![c] = new],
             ~(new \in Pending /\ new.at = "written"),
             UNCHANGED <<fxMap, fxDisk, fxActive, fxSink>>
      PROVE  FixtureInv'
  <2>1. FixtureTypeOK'
    BY <1>t, <1>c DEF FixtureTypeOK
  <2> HIDE DEF Call
  <2>2. \A d \in FixtureCalls :
          fxCall'[d] \in Pending /\ fxCall'[d].at = "written" => fxDisk'[fxCall'[d].id] # "absent"
    BY <1>0, <1>c, <1>t
  <2> QED BY <1>0, <1>c, <2>1, <2>2 DEF FixtureInv, LoadedIsLive, NeverOnlyInMemory
<1>1. ASSUME NEW c \in FixtureCalls, NEW op \in {"create", "scrap", "restore"},
             NEW id \in FixtureIds, AskFixture(c, op, id)
      PROVE  FixtureInv'
  <2> DEFINE new == [op |-> op, id |-> id, at |-> "writing"]
  <2>1. new \in Call /\ new.at = "writing"
    BY DEF Pending
  <2>2. fxCall' = [fxCall EXCEPT ![c] = new] /\ UNCHANGED <<fxMap, fxDisk, fxActive, fxSink>>
    BY <1>1 DEF AskFixture
  <2> HIDE DEF new, Call
  <2> QED BY <1>c, <2>1, <2>2
<1>2. ASSUME NEW c \in FixtureCalls, PersistFixture(c)
      PROVE  FixtureInv'
  <2> DEFINE call == fxCall[c]
             new == [call EXCEPT !.at = "written"]
  <2>1. call \in Pending /\ call.id \in FixtureIds /\ call.op \in {"create", "scrap", "restore"}
    BY <1>2, <1>p DEF PersistFixture
  <2>2. new \in Pending /\ new.id = call.id
    BY <2>1 DEF Pending
  <2>3. /\ fxCall' = [fxCall EXCEPT ![c] = new]
        /\ fxDisk' = [fxDisk EXCEPT ![call.id] = After(call.op)]
        /\ UNCHANGED <<fxMap, fxActive, fxSink>>
    BY <1>2, <1>t DEF PersistFixture
  <2> HIDE DEF call, new
  <2>4. \A id \in FixtureIds : fxDisk'[id] = fxDisk[id] \/ fxDisk'[id] # "absent"
    BY <1>a, <1>t, <2>1, <2>3
  <2>5. FixtureTypeOK'
    BY <1>t, <1>a, <2>1, <2>2, <2>3 DEF FixtureTypeOK
  <2>6. NeverOnlyInMemory'
    BY <1>0, <2>3, <2>4 DEF NeverOnlyInMemory
  <2>7. fxDisk'[new.id] # "absent"
    BY <1>a, <1>t, <2>1, <2>2, <2>3
  <2>8. \A d \in FixtureCalls :
          fxCall'[d] \in Pending /\ fxCall'[d].at = "written" => fxDisk'[fxCall'[d].id] # "absent"
    <3> HIDE DEF Call
    <3> QED BY <1>0, <1>p, <1>t, <2>3, <2>4, <2>7
  <2> QED BY <1>0, <2>3, <2>5, <2>6, <2>8 DEF FixtureInv, LoadedIsLive
<1>3. ASSUME NEW c \in FixtureCalls, PersistFails(c) \/ Reported(c)
      PROVE  FixtureInv'
  <2>1. fxCall' = [fxCall EXCEPT ![c] = Unasked] /\ UNCHANGED <<fxMap, fxDisk, fxActive, fxSink>>
    BY <1>3 DEF PersistFails, Reported
  <2> QED BY <1>c, <1>u, <2>1
<1>4. ASSUME NEW c \in FixtureCalls, Settle(c)
      PROVE  FixtureInv'
  <2> DEFINE call == fxCall[c]
             map == [fxMap EXCEPT ![call.id] = After(call.op)]
             active == IF call.op = "scrap" /\ fxActive = call.id THEN NoFixture ELSE fxActive
  <2>1. /\ call \in Pending /\ call.id \in FixtureIds /\ call.op \in {"create", "scrap", "restore"}
        /\ fxDisk[call.id] # "absent"
    BY <1>0, <1>4, <1>p DEF Settle
  <2>2. /\ fxCall' = [fxCall EXCEPT ![c] = Unasked] /\ fxDisk' = fxDisk
        /\ fxMap' = map /\ fxActive' = active /\ fxSink' = Told(map, active)
    BY <1>4 DEF Settle
  <2>3. /\ active \in FixtureIds \cup {NoFixture}
        /\ map \in [FixtureIds -> FixtureStates]
    BY <1>t, <1>a, <2>1
  <2>4. \A id \in FixtureIds : map[id] # "absent" => fxDisk[id] # "absent"
    BY <1>0, <1>t, <2>1 DEF NeverOnlyInMemory
  <2>5. active # NoFixture => map[active] = "live"
    BY <1>0, <1>t, <2>1 DEF LoadedIsLive, After
  <2> HIDE DEF call, map, active
  <2>6. FixtureTypeOK'
    BY <1>t, <2>2, <2>3, ToldType DEF FixtureTypeOK
  <2>7. LoadedIsLive' /\ NeverOnlyInMemory'
    BY <2>2, <2>4, <2>5 DEF LoadedIsLive, NeverOnlyInMemory, Told
  <2>8. \A d \in FixtureCalls :
          fxCall'[d] \in Pending /\ fxCall'[d].at = "written" => fxDisk'[fxCall'[d].id] # "absent"
    <3> HIDE DEF Call
    <3> QED BY <1>0, <1>t, <1>u, <2>2
  <2> QED BY <2>6, <2>7, <2>8 DEF FixtureInv
<1>5. ASSUME NEW c \in FixtureCalls, NEW id \in FixtureIds, LoadFixture(c, id)
      PROVE  FixtureInv'
  <2> DEFINE new == [op |-> "proof", id |-> id]
  <2>1. new \in Call /\ new \notin Pending
    BY DEF Loading, Pending
  <2>2. /\ fxMap[id] = "live" /\ fxActive' = id /\ fxSink' = Told(fxMap, id)
        /\ fxCall' = [fxCall EXCEPT ![c] = new] /\ UNCHANGED <<fxMap, fxDisk>>
    BY <1>5 DEF LoadFixture
  <2> HIDE DEF new
  <2>3. FixtureTypeOK'
    BY <1>t, <2>1, <2>2, ToldType DEF FixtureTypeOK
  <2>4. LoadedIsLive' /\ NeverOnlyInMemory'
    BY <1>0, <2>2 DEF LoadedIsLive, NeverOnlyInMemory, Told
  <2>5. \A d \in FixtureCalls :
          fxCall'[d] \in Pending /\ fxCall'[d].at = "written" => fxDisk'[fxCall'[d].id] # "absent"
    <3> HIDE DEF Call
    <3> QED BY <1>0, <1>t, <2>1, <2>2
  <2> QED BY <2>3, <2>4, <2>5 DEF FixtureInv
<1>6. ASSUME NEW c \in FixtureCalls, NEW reached \in BOOLEAN, ProbeLoaded(c, reached)
      PROVE  FixtureInv'
  <2> DEFINE new == [op |-> "proved", id |-> fxCall[c].id, ok |-> reached /\ fxActive = fxCall[c].id]
  <2>1. fxCall[c].id \in FixtureIds
    <3>1. fxCall[c] \in Call /\ fxCall[c].op = "proof"
      BY <1>6, <1>t DEF ProbeLoaded
    <3> QED BY <3>1 DEF Unasked, Pending, Loading
  <2>2. new \in Call /\ new \notin Pending
    BY <2>1 DEF Pending
  <2>3. fxCall' = [fxCall EXCEPT ![c] = new] /\ UNCHANGED <<fxMap, fxDisk, fxActive, fxSink>>
    BY <1>6 DEF ProbeLoaded
  <2> HIDE DEF new, Call
  <2> QED BY <1>c, <2>2, <2>3
<1>7. CASE UnloadFixture
  <2>1. FixtureTypeOK'
    BY <1>t, <1>7, ToldType DEF FixtureTypeOK, UnloadFixture
  <2> QED BY <1>0, <1>7, <2>1 DEF FixtureInv, LoadedIsLive, NeverOnlyInMemory, UnloadFixture, Told
<1>8. CASE ReopenFixtures
  <2>1. /\ fxMap' = fxDisk /\ fxActive' = NoFixture /\ fxSink' = Told(fxDisk, NoFixture)
        /\ fxCall' = [c \in FixtureCalls |-> Unasked] /\ fxDisk' = fxDisk
    BY <1>8 DEF ReopenFixtures
  <2>2. FixtureTypeOK'
    BY <1>t, <2>1, ToldType DEF FixtureTypeOK
  <2>3. LoadedIsLive' /\ NeverOnlyInMemory'
    BY <2>1 DEF LoadedIsLive, NeverOnlyInMemory, Told
  <2> QED BY <1>u, <2>1, <2>2, <2>3 DEF FixtureInv
<1> QED BY <1>1, <1>2, <1>3, <1>4, <1>5, <1>6, <1>7, <1>8 DEF FixtureNext

-----------------------------------------------------------------------------
(* Least elements, and induction over a set of numbers                     *)

LEMMA LeastOf ==
  ASSUME NEW S \in SUBSET Nat, S # {}
  PROVE  \E x \in S : \A y \in S : x <= y
<1> DEFINE R == OpToRel(<, Nat)
<1>1. \E x \in S : \A y \in S : <<y, x>> \notin R
  <2> HIDE DEF R
  <2>1. IsWellFoundedOn(R, Nat)
    BY NatLessThanWellFounded DEF R
  <2> QED BY <2>1, WFMin
<1>2. \A x, y \in Nat : <<y, x>> \notin R => x <= y
  BY DEF OpToRel
<1> QED BY <1>1, <1>2

LEMMA GreatestOf ==
  ASSUME NEW n \in Nat, NEW S \in SUBSET (1 .. n), S # {}
  PROVE  Max(S) \in S /\ \A y \in S : Max(S) >= y
<1> DEFINE below == {d \in Nat : \E x \in S : d = n - x}
<1>1. \A x \in S : x \in Int /\ n - x \in below
  OBVIOUS
<1>2. below \in SUBSET Nat /\ below # {}
  BY <1>1
<1>3. PICK d \in below : \A e \in below : d <= e
  BY <1>2, LeastOf
<1>4. PICK x \in S : d = n - x
  OBVIOUS
<1> HIDE DEF below
<1>5. \A y \in S : x >= y
  BY <1>1, <1>2, <1>3, <1>4
<1> QED BY <1>5 DEF Max

-----------------------------------------------------------------------------
(* SheetStore: two calls that are in flight together know of each other;   *)
(* unless they work on the same sheet, a file differs from memory only     *)
(* between the rename and the end of the one call that wrote it.           *)

On(c, i) == ssCall[c] \in Running /\ ssCall[c].id = i
Written(c, i) == On(c, i) /\ ssCall[c].at = "settle" /\ ssCall[c].doc = ssDisk[i]
Follows(i) ==
  /\ \A c, d \in SheetCalls : On(c, i) /\ On(d, i) => c = d
  /\ ssDisk[i] \in {ssMap[i], Garbled} \/ \E c \in SheetCalls : Written(c, i)
  /\ \A c \in SheetCalls : On(c, i) /\ ssCall[c].at = "settle" => Written(c, i)

MeetingsKnown ==
  /\ \A c \in SheetCalls : ssCall[c] = Fresh => ssMet[c] = {}
  /\ \A c, d \in SheetCalls : ssCall[c] \in Running /\ ssCall[d] \in Running /\ c # d => d \in ssMet[c]
DiskFollows == \A i \in SheetIds \ ssMixed : Follows(i)
PlaceFree ==
  \A c \in SheetCalls :
    ssCall[c] \in Running /\ ssCall[c].op = "create" /\ ssMap[ssCall[c].id] # NoSheet
    => \E d \in ssMet[c] : d # c
SheetInv == SheetTypeOK /\ MeetingsKnown /\ DiskFollows /\ PlaceFree

LEMMA NotRunning == Fresh \notin Running /\ Ended \notin Running /\ Fresh # Ended
BY DEF Fresh, Ended, Running

LEMMA SheetStart == SheetInit => SheetInv
<1> SUFFICES ASSUME SheetInit PROVE SheetInv
  OBVIOUS
<1>1. SheetTypeOK
  BY DEF SheetInit, SheetTypeOK
<1>2. \A c \in SheetCalls : ssCall[c] \notin Running
  BY NotRunning DEF SheetInit
<1> QED BY <1>1, <1>2 DEF SheetInit, SheetInv, MeetingsKnown, DiskFollows, Follows, On, Written, PlaceFree

LEMMA NewDocType ==
  ASSUME NEW c \in SheetCalls, NEW op \in SheetOps, NEW current,
         op # "create" => current \in Sheets
  PROVE  NewDoc(c, op, current) \in Sheets
BY DEF NewDoc, Sheets, SheetOps

\* nextFourDigitId gives a number that no sheet in memory has.
LEMMA NextIdFree == nextFourDigitId(InMemory) \notin InMemory
<1>1. MaxSheet \in Nat /\ InMemory \in SUBSET (1 .. MaxSheet)
  BY SheetAssumption DEF InMemory, SheetIds
<1>2. CASE InMemory # {}
  <2>1. Max(InMemory) \in InMemory /\ \A y \in InMemory : Max(InMemory) >= y
    BY <1>1, <1>2, GreatestOf
  <2>2. \A y \in InMemory : y \in Int
    BY <1>1
  <2> QED BY <1>2, <2>1, <2>2 DEF nextFourDigitId
<1> QED BY <1>2

LEMMA SheetStep ==
  ASSUME SheetInv, SheetNext
  PROVE  SheetInv'
<1>0. SheetTypeOK /\ MeetingsKnown /\ DiskFollows /\ PlaceFree
  BY DEF SheetInv
<1>t. /\ ssKind \in {"sketches", "toolpaths"}
      /\ ssMap \in [SheetIds -> Sheets \cup {NoSheet}]
      /\ ssDisk \in [SheetIds -> Sheets \cup {NoSheet, Garbled}]
      /\ ssCall \in [SheetCalls -> Running \cup {Fresh, Ended}]
      /\ ssMet \in [SheetCalls -> SUBSET SheetCalls] /\ ssMixed \subseteq SheetIds
  BY <1>0 DEF SheetTypeOK
<1>r. \A c \in SheetCalls : (c \in InFlight) = (ssCall[c] \in Running)
  BY <1>t, NotRunning DEF InFlight
<1>f. \A call \in Running : /\ call.op \in SheetOps /\ call.id \in SheetIds /\ call.doc \in Sheets
                            /\ call.at \in {"write", "rename", "settle"}
                            /\ call.tries \in 1 .. WriteTries + RenameTries
  BY DEF Running
\* A call that is in flight moves on or ends, before or at the rename; nothing else changes
\* but, at the rename, its file.
<1>m. ASSUME NEW c \in SheetCalls, NEW new \in Running \cup {Ended},
             ssCall[c] \in Running, ssCall[c].at \in {"write", "rename"},
             ssCall' = [ssCall EXCEPT ![c] = new],
             new # Ended => new.op = ssCall[c].op /\ new.id = ssCall[c].id /\ new.doc = ssCall[c].doc,
             \/ (new = Ended \/ new.at # "settle") /\ ssDisk' = ssDisk
             \/ new # Ended /\ new.at = "settle" /\ ssDisk' = [ssDisk EXCEPT ![new.id] = new.doc],
             UNCHANGED <<ssKind, ssMap, ssMet, ssMixed>>
      PROVE  SheetInv'
  <2>1. ssCall'[c] = new /\ \A d \in SheetCalls : d # c => ssCall'[d] = ssCall[d]
    BY <1>m, <1>t
  <2>2. new # Ended => new \in Running /\ new.id \in SheetIds /\ new.doc \in Sheets
    BY <1>f
  <2>3. SheetTypeOK'
    BY <1>m, <1>t, <2>2 DEF SheetTypeOK
  <2>4. MeetingsKnown'
    BY <1>0, <1>m, <2>1, NotRunning DEF MeetingsKnown
  <2>5. PlaceFree'
    BY <1>0, <1>m, <2>1, NotRunning DEF PlaceFree
  <2>6. ASSUME NEW i \in SheetIds \ ssMixed PROVE Follows(i)'
    <3>1. Follows(i) /\ ssMap' = ssMap
      BY <1>0, <1>m, <2>6 DEF DiskFollows
    <3>2. \A d \in SheetCalls : On(d, i)' => On(d, i)
      BY <1>m, <2>1, NotRunning DEF On
    <3>3. CASE ssCall[c].id # i
      <4>1. ssDisk'[i] = ssDisk[i]
        BY <1>m, <1>t, <3>3
      <4>2. \A d \in SheetCalls : /\ On(d, i)' => d # c
                                 /\ Written(d, i)' = Written(d, i)
        BY <1>m, <2>1, <3>3, <4>1, NotRunning DEF On, Written
      <4> QED BY <2>1, <3>1, <3>2, <4>1, <4>2 DEF Follows
    <3>4. CASE ssCall[c].id = i
      <4>1. On(c, i) /\ \A d \in SheetCalls : On(d, i) => d = c
        BY <1>m, <3>1, <3>4 DEF On, Follows
      <4>2. ssDisk[i] \in {ssMap[i], Garbled}
        BY <1>m, <3>1, <4>1 DEF Follows, Written
      <4>3. CASE (new = Ended \/ new.at # "settle") /\ ssDisk' = ssDisk
        <5>1. ~(On(c, i)' /\ ssCall'[c].at = "settle")
          BY <2>1, <4>3, NotRunning DEF On
        <5> QED BY <3>1, <3>2, <4>1, <4>2, <4>3, <5>1 DEF Follows
      <4>4. CASE new # Ended /\ new.at = "settle" /\ ssDisk' = [ssDisk EXCEPT ![new.id] = new.doc]
        <5>1. Written(c, i)'
          BY <1>m, <1>t, <2>1, <2>2, <3>4, <4>4 DEF Written, On
        <5> QED BY <3>2, <4>1, <5>1 DEF Follows
      <4> QED BY <1>m, <4>3, <4>4
    <3> QED BY <3>3, <3>4
  <2>8. DiskFollows'
    BY <1>m, <2>6 DEF DiskFollows
  <2> QED BY <2>3, <2>4, <2>5, <2>8 DEF SheetInv
<1>1. ASSUME NEW c \in SheetCalls, NEW op \in SheetOps, NEW id \in SheetIds, AskSheet(c, op, id)
      PROVE  SheetInv'
  <2> DEFINE doc == NewDoc(c, op, ssMap[id])
             new == [at |-> "write", op |-> op, id |-> id, doc |-> doc, tries |-> 1]
  <2>1. /\ ssCall[c] = Fresh /\ ssCall' = [ssCall EXCEPT ![c] = new]
        /\ ssMet' = [d \in SheetCalls |-> IF d = c THEN InFlight
                                          ELSE IF d \in InFlight THEN ssMet[d] \cup {c} ELSE ssMet[d]]
        /\ ssMixed' = IF \E d \in InFlight : ssCall[d].id = id THEN ssMixed \cup {id} ELSE ssMixed
        /\ ssKind' = ssKind /\ ssMap' = ssMap /\ ssDisk' = ssDisk
    BY <1>1 DEF AskSheet
  <2>2. op # "create" => ssMap[id] \in Sheets
    BY <1>1, <1>t DEF AskSheet, InMemory
  <2>3. op = "create" => ssMap[id] = NoSheet
    BY <1>1, NextIdFree DEF AskSheet, InMemory
  <2>4. new \in Running /\ new.at = "write" /\ new.op = op /\ new.id = id
    BY <2>2, NewDocType, SheetAssumption DEF Running
  <2> HIDE DEF new, doc
  <2>5. ssCall'[c] = new /\ \A d \in SheetCalls : d # c => ssCall'[d] = ssCall[d]
    BY <1>t, <2>1
  <2>6. /\ ssMet'[c] = InFlight /\ InFlight \subseteq SheetCalls
        /\ \A d \in SheetCalls : d # c =>
             ssMet'[d] = IF ssCall[d] \in Running THEN ssMet[d] \cup {c} ELSE ssMet[d]
    BY <1>r, <2>1 DEF InFlight
  <2>7. SheetTypeOK'
    <3>1. ssMixed' \subseteq SheetIds
      BY <1>t, <2>1
    <3> QED BY <1>t, <2>1, <2>4, <2>6, <3>1 DEF SheetTypeOK
  <2>8. MeetingsKnown'
    <3>1. \A d \in SheetCalls : ssCall'[d] = Fresh => ssMet'[d] = {}
      BY <1>0, <2>4, <2>5, <2>6, NotRunning DEF MeetingsKnown
    <3>2. ASSUME NEW d \in SheetCalls, NEW e \in SheetCalls, d # e,
                 ssCall'[d] \in Running, ssCall'[e] \in Running
          PROVE  e \in ssMet'[d]
      <4>1. CASE d = c
        BY <1>r, <2>5, <2>6, <3>2, <4>1
      <4>2. CASE d # c
        BY <1>0, <2>5, <2>6, <3>2, <4>2 DEF MeetingsKnown
      <4> QED BY <4>1, <4>2
    <3> QED BY <3>1, <3>2 DEF MeetingsKnown
  <2>9. PlaceFree'
    BY <1>0, <2>1, <2>3, <2>4, <2>5, <2>6 DEF PlaceFree
  <2>10. ASSUME NEW i \in SheetIds \ ssMixed' PROVE Follows(i)'
    <3>1. i \in SheetIds \ ssMixed /\ Follows(i)
      BY <1>0, <2>1, <2>10 DEF DiskFollows
    <3>2. id = i => \A d \in SheetCalls : ~On(d, i)
      BY <1>r, <2>1, <2>10 DEF On, InFlight
    <3>3. ASSUME NEW d \in SheetCalls, d # c
          PROVE  /\ On(d, i)' <=> On(d, i)
                 /\ Written(d, i)' <=> Written(d, i)
                 /\ ssCall'[d] = ssCall[d]
      BY <2>1, <2>5, <3>3 DEF Written, On
    <3>4. (On(c, i)' => id = i) /\ ssCall'[c].at # "settle" /\ ~Written(c, i) /\ ~Written(c, i)'
      BY <2>1, <2>4, <2>5, NotRunning DEF Written, On
    <3>6. ASSUME NEW d \in SheetCalls, NEW e \in SheetCalls, On(d, i)', On(e, i)'
          PROVE  d = e
      <4>1. CASE d = c \/ e = c
        BY <3>2, <3>3, <3>4, <3>6, <4>1
      <4>2. CASE d # c /\ e # c
        BY <3>1, <3>3, <3>6, <4>2 DEF Follows
      <4> QED BY <4>1, <4>2
    <3>7. ssDisk'[i] \in {ssMap'[i], Garbled} \/ \E d \in SheetCalls : Written(d, i)'
      BY <2>1, <3>1, <3>3, <3>4 DEF Follows
    <3>8. ASSUME NEW d \in SheetCalls, On(d, i)', ssCall'[d].at = "settle" PROVE Written(d, i)'
      BY <3>1, <3>3, <3>4, <3>8 DEF Follows
    <3> QED BY <3>6, <3>7, <3>8 DEF Follows
  <2>11. DiskFollows'
    BY <2>10 DEF DiskFollows
  <2> QED BY <2>7, <2>8, <2>9, <2>11 DEF SheetInv
<1>2. ASSUME NEW c \in SheetCalls, WriteTemp(c)
      PROVE  SheetInv'
  <2> DEFINE call == ssCall[c]
             new == [[call EXCEPT !.at = "rename"] EXCEPT !.tries = 1]
  <2>1. call \in Running /\ call.at = "write"
    BY <1>2, <1>t DEF WriteTemp
  <2>2. new \in Running /\ new.op = call.op /\ new.id = call.id /\ new.doc = call.doc /\ new.at = "rename"
    <3> DEFINE moved == [call EXCEPT !.at = "rename"]
    <3>1. moved \in Running /\ moved.op = call.op /\ moved.id = call.id /\ moved.doc = call.doc
          /\ moved.at = "rename"
      BY <2>1 DEF Running
    <3>2. 1 \in 1 .. WriteTries + RenameTries
      BY SheetAssumption
    <3> HIDE DEF moved
    <3>3. LET again == [moved EXCEPT !.tries = 1]
          IN again \in Running /\ again.op = moved.op /\ again.id = moved.id /\ again.doc = moved.doc
             /\ again.at = moved.at
      BY <3>1, <3>2 DEF Running
    <3> QED BY <3>1, <3>3 DEF moved
  <2>3. ssCall' = [ssCall EXCEPT ![c] = new] /\ UNCHANGED <<ssKind, ssMap, ssDisk, ssMet, ssMixed>>
    BY <1>2, <1>t DEF WriteTemp
  <2> HIDE DEF new
  <2> QED BY <1>m, <2>1, <2>2, <2>3
<1>3. ASSUME NEW c \in SheetCalls, RenameOver(c)
      PROVE  SheetInv'
  <2> DEFINE call == ssCall[c]
             new == [call EXCEPT !.at = "settle"]
  <2>1. call \in Running /\ call.at = "rename"
    BY <1>3, <1>t DEF RenameOver
  <2>2. new \in Running /\ new.op = call.op /\ new.id = call.id /\ new.doc = call.doc /\ new.at = "settle"
    BY <2>1 DEF Running
  <2>3. /\ ssCall' = [ssCall EXCEPT ![c] = new] /\ UNCHANGED <<ssKind, ssMap, ssMet, ssMixed>>
        /\ ssDisk' = [ssDisk EXCEPT ![call.id] = call.doc]
    BY <1>3, <1>t DEF RenameOver
  <2> HIDE DEF new
  <2> QED BY <1>m, <2>1, <2>2, <2>3, NotRunning
<1>4. ASSUME NEW c \in SheetCalls, NEW transient \in BOOLEAN, StepFails(c, transient)
      PROVE  SheetInv'
  <2> DEFINE call == ssCall[c]
             limit == IF call.at = "write" THEN WriteTries ELSE RenameTries
             more == [call EXCEPT !.tries = call.tries + 1]
             new == IF transient /\ call.tries < limit THEN more ELSE Ended
  <2>1. call \in Running /\ call.at \in {"write", "rename"}
    BY <1>4, <1>t DEF StepFails
  <2>2. call.tries < limit => more \in Running
    BY <2>1, SheetAssumption DEF Running
  <2>3. more.op = call.op /\ more.id = call.id /\ more.doc = call.doc /\ more.at = call.at
    BY <2>1 DEF Running
  <2>4. ssCall' = [ssCall EXCEPT ![c] = new] /\ UNCHANGED <<ssKind, ssMap, ssDisk, ssMet, ssMixed>>
    BY <1>4 DEF StepFails
  <2> HIDE DEF more, limit
  <2>5. new \in Running \cup {Ended} /\ (new # Ended => new = more)
    BY <2>2
  <2> HIDE DEF new
  <2> QED BY <1>m, <2>1, <2>3, <2>4, <2>5
<1>5. ASSUME NEW c \in SheetCalls, SettleSheet(c)
      PROVE  SheetInv'
  <2> DEFINE call == ssCall[c]
  <2>1. call \in Running /\ call.at = "settle" /\ call.id \in SheetIds /\ call.doc \in Sheets
    BY <1>5, <1>t, <1>f DEF SettleSheet
  <2>2. /\ ssCall' = [ssCall EXCEPT ![c] = Ended] /\ UNCHANGED <<ssKind, ssDisk, ssMet, ssMixed>>
        /\ ssMap' = [ssMap EXCEPT ![call.id] = call.doc]
    BY <1>5 DEF SettleSheet
  <2> HIDE DEF call
  <2>3. ssCall'[c] = Ended /\ \A d \in SheetCalls : d # c => ssCall'[d] = ssCall[d]
    BY <1>t, <2>2
  <2>4. \A i \in SheetIds : ssMap'[i] = IF i = call.id THEN call.doc ELSE ssMap[i]
    BY <1>t, <2>1, <2>2
  <2>5. SheetTypeOK'
    BY <1>t, <2>1, <2>2 DEF SheetTypeOK
  <2>6. MeetingsKnown'
    BY <1>0, <2>2, <2>3, NotRunning DEF MeetingsKnown
  \* Two creates of one place overlapped.
  <2>7. PlaceFree'
    <3>1. \A d \in SheetCalls : ssCall'[d] \in Running => d # c /\ ssCall'[d] = ssCall[d] /\ c \in ssMet[d]
      BY <1>0, <2>1, <2>3, NotRunning DEF MeetingsKnown, call
    <3> QED BY <2>2, <3>1 DEF PlaceFree
  <2>8. ASSUME NEW i \in SheetIds \ ssMixed PROVE Follows(i)'
    <3>1. Follows(i) /\ ssDisk' = ssDisk
      BY <1>0, <2>2, <2>8 DEF DiskFollows
    <3>2. \A d \in SheetCalls : On(d, i)' = (On(d, i) /\ d # c)
      BY <2>3, NotRunning DEF On
    <3>3. \A d \in SheetCalls : d # c => Written(d, i)' = Written(d, i)
      BY <2>3, <3>1, <3>2 DEF Written
    <3>4. CASE i # call.id
      <4>1. ~Written(c, i) /\ ssMap'[i] = ssMap[i]
        BY <2>4, <2>8, <3>4 DEF Written, On, call
      <4> QED BY <2>3, <3>1, <3>2, <3>3, <4>1 DEF Follows
    <3>5. CASE i = call.id
      <4>1. On(c, i) /\ Written(c, i)
        BY <2>1, <3>1, <3>5 DEF Follows, On, call
      <4>2. \A d \in SheetCalls : ~On(d, i)'
        BY <3>1, <3>2, <4>1 DEF Follows
      <4>3. ssDisk[i] = call.doc
        BY <4>1 DEF Written, call
      <4>4. ssDisk'[i] = ssMap'[i]
        BY <2>4, <2>8, <3>1, <3>5, <4>3
      <4> QED BY <4>2, <4>4 DEF Follows
    <3> QED BY <3>4, <3>5
  <2>10. DiskFollows'
    BY <2>2, <2>8 DEF DiskFollows
  <2> QED BY <2>5, <2>6, <2>7, <2>10 DEF SheetInv
<1>6. ASSUME NEW spoilt \in {{}} \cup {{i} : i \in SheetIds}, RestartSheets(spoilt)
      PROVE  SheetInv'
  <2>1. /\ ssDisk' = [i \in SheetIds |-> IF i \in spoilt THEN Garbled ELSE ssDisk[i]]
        /\ ssMap' = [i \in SheetIds |-> IF ssDisk'[i] = Garbled THEN NoSheet ELSE ssDisk'[i]]
        /\ ssCall' = [c \in SheetCalls |-> IF c \in InFlight THEN Ended ELSE ssCall[c]]
        /\ ssKind' = ssKind /\ ssMet' = ssMet /\ ssMixed' = {}
    BY <1>6 DEF RestartSheets
  <2>2. \A c \in SheetCalls : ssCall'[c] \in {Fresh, Ended} /\ (ssCall'[c] = Fresh => ssCall[c] = Fresh)
    BY <1>t, <1>r, <2>1, NotRunning
  <2>3. \A i \in SheetIds : ssDisk'[i] \in Sheets \cup {NoSheet, Garbled}
    BY <1>t, <2>1
  <2>4. SheetTypeOK'
    BY <1>t, <2>1, <2>2, <2>3 DEF SheetTypeOK
  <2>5. \A c \in SheetCalls : ssCall'[c] \notin Running
    BY <2>2, NotRunning
  <2>6. \A i \in SheetIds : ssDisk'[i] \in {ssMap'[i], Garbled}
    BY <2>1
  <2>7. DiskFollows'
    BY <2>5, <2>6 DEF DiskFollows, Follows, On
  <2> QED BY <1>0, <2>1, <2>2, <2>4, <2>5, <2>7 DEF SheetInv, MeetingsKnown, PlaceFree
<1> QED BY <1>1, <1>2, <1>3, <1>4, <1>5, <1>6 DEF SheetNext

LEMMA SheetAgrees == SheetInv => SheetTypeOK /\ MemoryIsDisk
<1> SUFFICES ASSUME SheetInv, NEW i \in SheetIds \ ssMixed,
                    \A c \in InFlight : ssCall[c].id = i => ssCall[c].at # "settle"
             PROVE  ssDisk[i] \in {ssMap[i], Garbled}
  BY DEF SheetInv, MemoryIsDisk
<1>1. \A c \in SheetCalls : ~Written(c, i)
  BY NotRunning DEF InFlight, Written, On
<1> QED BY <1>1 DEF SheetInv, DiskFollows, Follows

-----------------------------------------------------------------------------
(* RecentBenches: every list that was read is as well formed as the file.  *)

LEMMA CountingUp ==
  ASSUME NEW S \in SUBSET Nat, 0 \in S, \A n \in Nat : n \in S => n + 1 \in S
  PROVE  S = Nat
<1> SUFFICES ASSUME Nat \ S # {} PROVE FALSE
  OBVIOUS
<1>1. Nat \ S \in SUBSET Nat
  OBVIOUS
<1>2. PICK x \in Nat \ S : \A y \in Nat \ S : x <= y
  BY <1>1, LeastOf
<1>3. x # 0 /\ x - 1 \in Nat /\ (x - 1) + 1 = x
  OBVIOUS
<1> QED BY <1>2, <1>3

NoRepeat(list) == \A i, j \in DOMAIN list : list[i].repo = list[j].repo => i = j
WellFormed == {list \in Seq(Entry) : Len(list) <= MaxRecent /\ NoRepeat(list)}

\* The filter of recordRecentBench leaves no more entries than there were, each of them one
\* of the list's, none twice and none of the repo it drops.
LEMMA OthersKept ==
  ASSUME NEW repo, NEW list \in Seq(Entry), NoRepeat(list)
  PROVE  /\ Others(repo, list) \in Seq(Entry) /\ Len(Others(repo, list)) <= Len(list)
         /\ NoRepeat(Others(repo, list))
         /\ \A i \in DOMAIN Others(repo, list) : Others(repo, list)[i].repo # repo
<1> DEFINE Body(f, n) == IF n = 0 THEN <<>>
                         ELSE IF list[n].repo = repo THEN f[n - 1] ELSE Append(f[n - 1], list[n])
           kept == CHOOSE f : f = [n \in 0 .. Len(list) |-> Body(f, n)]
           Started == {m \in Nat : \E f : f = [n \in 0 .. m |-> Body(f, n)]}
<1>0. Len(list) \in Nat /\ \A n \in 1 .. Len(list) : list[n] \in Entry
  OBVIOUS
<1>1. 0 \in Started
  <2> DEFINE f == [n \in 0 .. 0 |-> <<>>]
  <2>1. f = [n \in 0 .. 0 |-> Body(f, n)]
    OBVIOUS
  <2> QED BY <2>1
<1>2. ASSUME NEW m \in Nat, m \in Started PROVE m + 1 \in Started
  <2> PICK f : f = [n \in 0 .. m |-> Body(f, n)]
    BY <1>2
  <2> DEFINE g == [n \in 0 .. m + 1 |-> IF n = m + 1 THEN Body(f, m + 1) ELSE f[n]]
  <2>1. \A n \in 0 .. m + 1 : g[n] = Body(g, n)
    <3> SUFFICES ASSUME NEW n \in 0 .. m + 1 PROVE g[n] = Body(g, n)
      OBVIOUS
    <3>1. CASE n = 0
      BY <3>1
    <3>2. CASE n # 0
      <4>1. n - 1 \in 0 .. m /\ n - 1 # m + 1 /\ n - 1 \in 0 .. m + 1
        BY <3>2
      <4>2. g[n - 1] = f[n - 1]
        BY <4>1
      <4>3. Body(g, n) = Body(f, n)
        BY <4>2
      <4>4. n # m + 1 => n \in 0 .. m /\ f[n] = Body(f, n)
        <5> HIDE DEF Body
        <5> QED BY <3>2
      <4> HIDE DEF Body
      <4> QED BY <4>3, <4>4
    <3> QED BY <3>1, <3>2
  <2>2. g = [n \in 0 .. m + 1 |-> Body(g, n)]
    <3> HIDE DEF Body
    <3> QED BY <2>1
  <2> HIDE DEF g, Body
  <2> QED BY <2>2
<1>3. Len(list) \in Started
  <2> HIDE DEF Started
  <2> QED BY <1>0, <1>1, <1>2, CountingUp, Started \in SUBSET Nat DEF Started
<1>4. kept = [n \in 0 .. Len(list) |-> Body(kept, n)]
  <2> HIDE DEF Body
  <2> QED BY <1>3
<1>5. Others(repo, list) = kept[Len(list)]
  BY DEF Others
<1>6. /\ kept[0] = <<>>
      /\ \A n \in 0 .. Len(list) : n + 1 <= Len(list) =>
           kept[n + 1] = IF list[n + 1].repo = repo THEN kept[n] ELSE Append(kept[n], list[n + 1])
  <2>1. \A n \in 0 .. Len(list) : kept[n] = Body(kept, n)
    <3> HIDE DEF Body, kept
    <3> QED BY <1>4
  <2> HIDE DEF kept
  <2>2. 0 \in 0 .. Len(list) /\ Body(kept, 0) = <<>>
    BY <1>0
  <2>3. \A n \in 0 .. Len(list) : n + 1 <= Len(list) =>
          /\ n + 1 \in 0 .. Len(list) /\ n + 1 # 0 /\ (n + 1) - 1 = n
    BY <1>0
  <2>4. \A n \in 0 .. Len(list) : n + 1 <= Len(list) =>
          Body(kept, n + 1) = IF list[n + 1].repo = repo THEN kept[n] ELSE Append(kept[n], list[n + 1])
    BY <2>3
  <2> HIDE DEF Body
  <2> QED BY <2>1, <2>2, <2>3, <2>4
<1> HIDE DEF kept, Body
<1> DEFINE Good(k, n) == /\ k \in Seq(Entry) /\ Len(k) <= n
                         /\ \A i \in 1 .. Len(k) : /\ k[i].repo # repo
                                                   /\ \E j \in 1 .. n : k[i] = list[j]
                         /\ NoRepeat(k)
           Fine == {n \in Nat : n <= Len(list) => Good(kept[n], n)}
<1>7. 0 \in Fine
  <2>1. Good(<<>>, 0)
    BY DEF NoRepeat
  <2> HIDE DEF Good
  <2> QED BY <1>6, <2>1
<1>8. ASSUME NEW n \in Nat, n \in Fine PROVE n + 1 \in Fine
  <2> SUFFICES ASSUME n + 1 <= Len(list) PROVE Good(kept[n + 1], n + 1)
    OBVIOUS
  <2> DEFINE k == kept[n]
             new == list[n + 1]
  <2>1. Good(k, n) /\ n \in 0 .. Len(list)
    BY <1>0, <1>8
  <2>2. kept[n + 1] = IF new.repo = repo THEN k ELSE Append(k, new)
    BY <1>6, <2>1
  <2>3. new \in Entry /\ n + 1 \in 1 .. Len(list) /\ new = list[n + 1]
    BY <1>0
  <2> HIDE DEF k, new
  <2>4. Good(k, n + 1)
    BY <2>1
  <2>5. CASE new.repo # repo
    <3> DEFINE a == Append(k, new)
    <3>1. /\ a \in Seq(Entry) /\ Len(a) = Len(k) + 1 /\ a[Len(k) + 1] = new
          /\ \A i \in 1 .. Len(k) : a[i] = k[i]
      BY <2>1, <2>3
    <3> HIDE DEF a
    <3>2. \A i \in 1 .. Len(a) : i \in 1 .. Len(k) \/ i = Len(k) + 1
      BY <2>1, <3>1
    <3>3. Len(a) <= n + 1
      BY <2>1, <3>1
    <3>4. \A i \in 1 .. Len(a) : a[i].repo # repo /\ \E j \in 1 .. n + 1 : a[i] = list[j]
      BY <2>3, <2>4, <2>5, <3>1, <3>2
    \* An entry that is kept stands before the new one in the list.
    <3>5. \A i \in 1 .. Len(k) : k[i].repo # new.repo
      BY <1>0, <2>1, <2>3 DEF NoRepeat
    <3>6. NoRepeat(a)
      BY <2>1, <3>1, <3>2, <3>5 DEF NoRepeat
    <3> QED BY <2>2, <2>5, <3>1, <3>3, <3>4, <3>6 DEF a
  <2> QED BY <2>2, <2>4, <2>5
<1>9. Good(kept[Len(list)], Len(list))
  <2>1. Fine \in SUBSET Nat
    OBVIOUS
  <2> HIDE DEF Fine
  <2>2. Fine = Nat
    BY <1>7, <1>8, <2>1, CountingUp
  <2> QED BY <1>0, <2>2 DEF Fine
<1>10. kept[Len(list)] \in Seq(Entry) => DOMAIN kept[Len(list)] = 1 .. Len(kept[Len(list)])
  OBVIOUS
<1> QED BY <1>5, <1>9, <1>10

LEMMA ListsAre == Lists = {list \in Seq(Entry) : Len(list) <= MaxRecent}
<1>1. ASSUME NEW list \in Lists PROVE list \in Seq(Entry) /\ Len(list) <= MaxRecent
  <2>1. PICK n \in 0 .. MaxRecent : list \in [1 .. n -> Entry]
    BY DEF Lists
  <2>2. n \in Nat /\ n <= MaxRecent
    BY RecentAssumption
  <2>3. list \in Seq(Entry) /\ Len(list) = n
    BY <2>1, <2>2
  <2> QED BY <2>2, <2>3
<1>2. ASSUME NEW list \in Seq(Entry), Len(list) <= MaxRecent PROVE list \in Lists
  <2>1. Len(list) \in 0 .. MaxRecent /\ list \in [1 .. Len(list) -> Entry]
    BY <1>2, RecentAssumption
  <2> QED BY <2>1 DEF Lists
<1> QED BY <1>1, <1>2

LEMMA RecordedWell ==
  ASSUME NEW entry \in Entry, NEW list \in WellFormed
  PROVE  Recorded(entry, list) \in WellFormed
<1> DEFINE rest == Others(entry.repo, list)
           all == <<entry>> \o rest
<1>1. /\ rest \in Seq(Entry) /\ NoRepeat(rest) /\ Len(rest) \in Nat /\ DOMAIN rest = 1 .. Len(rest)
      /\ \A i \in DOMAIN rest : rest[i].repo # entry.repo
  BY OthersKept DEF WellFormed
<1> HIDE DEF rest
<1>2. /\ all \in Seq(Entry) /\ Len(all) = Len(rest) + 1 /\ all[1] = entry
      /\ \A i \in 2 .. Len(rest) + 1 : all[i] = rest[i - 1]
  BY <1>1
<1> HIDE DEF all
<1>3. \A i \in 1 .. Len(all) : i # 1 => i \in 2 .. Len(rest) + 1 /\ i - 1 \in DOMAIN rest
  BY <1>1, <1>2
<1>4. ASSUME NEW i \in 1 .. Len(all), NEW j \in 1 .. Len(all), all[i].repo = all[j].repo
      PROVE  i = j
  <2>1. i # 1 => i - 1 \in DOMAIN rest /\ all[i] = rest[i - 1]
    BY <1>2, <1>3
  <2>2. j # 1 => j - 1 \in DOMAIN rest /\ all[j] = rest[j - 1]
    BY <1>2, <1>3
  <2>3. i # 1 /\ j # 1 => i - 1 = j - 1
    BY <1>1, <1>4, <2>1, <2>2 DEF NoRepeat
  <2>4. i = 1 /\ j # 1 => FALSE
    BY <1>1, <1>2, <1>4, <2>2
  <2>5. i # 1 /\ j = 1 => FALSE
    BY <1>1, <1>2, <1>4, <2>1
  <2> QED BY <1>1, <1>2, <2>3, <2>4, <2>5
<1>5. CASE Len(all) <= MaxRecent
  <2>1. Recorded(entry, list) = all
    BY <1>5 DEF Recorded, First, all, rest
  <2>2. DOMAIN all = 1 .. Len(all)
    BY <1>2
  <2>3. NoRepeat(all)
    BY <1>4, <2>2 DEF NoRepeat
  <2> QED BY <1>2, <1>5, <2>1, <2>3 DEF WellFormed
<1>6. CASE ~(Len(all) <= MaxRecent)
  <2> DEFINE cut == SubSeq(all, 1, MaxRecent)
  <2>1. /\ cut \in Seq(Entry) /\ Len(cut) = MaxRecent /\ DOMAIN cut = 1 .. MaxRecent
        /\ \A i \in 1 .. MaxRecent : cut[i] = all[i] /\ i \in 1 .. Len(all)
    BY <1>1, <1>2, <1>6, RecentAssumption
  <2>2. Recorded(entry, list) = cut
    BY <1>6 DEF Recorded, First, all, rest
  <2> HIDE DEF cut
  <2>3. NoRepeat(cut)
    BY <1>4, <2>1 DEF NoRepeat
  <2> QED BY <2>1, <2>2, <2>3, RecentAssumption DEF WellFormed
<1> QED BY <1>5, <1>6

LEMMA PatchedWell ==
  ASSUME NEW entry \in Entry, NEW list \in WellFormed
  PROVE  Patched(entry, list) \in WellFormed
<1> DEFINE new == Patched(entry, list)
<1>1. list \in Seq(Entry) /\ DOMAIN list = 1 .. Len(list) /\ Len(list) \in Nat
  BY DEF WellFormed
<1>2. new \in [1 .. Len(list) -> Entry] /\ \A i \in 1 .. Len(list) : new[i].repo = list[i].repo
  BY <1>1 DEF Patched
<1> HIDE DEF new
<1>3. new \in Seq(Entry) /\ Len(new) = Len(list) /\ DOMAIN new = 1 .. Len(list)
  BY <1>1, <1>2
<1>4. NoRepeat(new)
  BY <1>1, <1>2, <1>3 DEF NoRepeat, WellFormed
<1> QED BY <1>3, <1>4 DEF WellFormed, new

RecentInv ==
  /\ rcFile \in WellFormed
  /\ rcCall \in [Calls -> Asked \cup {Idle0, Done0}]
  /\ rcRead \in [Calls -> WellFormed]

LEMMA RecentStart == RecentInit => RecentInv
<1>1. <<>> \in WellFormed
  BY RecentAssumption DEF WellFormed, NoRepeat
<1> QED BY <1>1 DEF RecentInit, RecentInv

LEMMA RecentStep ==
  ASSUME RecentInv, RecentNext
  PROVE  RecentInv'
<1> PICK c \in Calls : \/ \E op \in {"record", "update"}, entry \in Entry : ReadRecent(c, op, entry)
                       \/ WriteRecent(c)
  BY DEF RecentNext
<1>1. ASSUME NEW op \in {"record", "update"}, NEW entry \in Entry, ReadRecent(c, op, entry)
      PROVE  RecentInv'
  <2>1. [op |-> op, entry |-> entry] \in Asked
    BY DEF Asked
  <2> QED BY <1>1, <2>1 DEF ReadRecent, RecentInv
<1>2. CASE WriteRecent(c)
  <2> DEFINE call == rcCall[c]
  <2>1. call \in Asked /\ call.entry \in Entry /\ rcRead[c] \in WellFormed
    BY <1>2 DEF WriteRecent, RecentInv, Asked
  <2>2. rcFile' \in {Recorded(call.entry, rcRead[c]), Patched(call.entry, rcRead[c]), rcFile}
    BY <1>2 DEF WriteRecent
  <2>3. rcFile' \in WellFormed
    BY <2>1, <2>2, RecordedWell, PatchedWell DEF RecentInv
  <2> QED BY <1>2, <2>3 DEF WriteRecent, RecentInv
<1> QED BY <1>1, <1>2

LEMMA RecentAgrees == RecentInv => RecentTypeOK /\ RecentWellFormed
<1>1. WellFormed \subseteq Lists
  BY ListsAre DEF WellFormed
<1> QED BY <1>1 DEF RecentInv, RecentTypeOK, RecentWellFormed, WellFormed, NoRepeat

-----------------------------------------------------------------------------
(* SetupWrite: what a call read at rest is what will be in the file when   *)
(* all calls rest again; what the page will call written is in it then.    *)

Calling == [pc : {"idle", "read", "merge", "fill", "ignore", "answered", "done"},
            apply : BOOLEAN, read : McpJson, wrote : BOOLEAN]

ReadIsLatest ==
  ~crossed =>
    /\ AtRest => mcpJson.others = left.others
    /\ \A w \in Writers : Committed(w) => writer[w].read.others = left.others
PageWrote == writer[Page].pc \in {"ignore", "answered"} /\ MayWrite(Page)
JigStays == (mcpPhase = "written" \/ PageWrote) /\ AtRest => mcpJson.jig \/ wiped
ToldBefore ==
  \A w \in Writers : (writer[w].apply => everTold) /\ (writer[w].pc = "fill" => writer[w].apply)
SetupInv ==
  /\ SetupTypeOK /\ edits \in Nat
  /\ ReadIsLatest /\ JigStays /\ ToldBefore

LEMMA JsonFields ==
  /\ NoJson \in McpJson /\ NoJson.jig = FALSE
  /\ \A j \in McpJson : /\ j.jig \in BOOLEAN /\ mergeMcpJson(j) \in McpJson
                        /\ mergeMcpJson(j).jig = TRUE /\ mergeMcpJson(j).others = j.others
<1>1. NoJson \in McpJson /\ NoJson.jig = FALSE /\ NoJson.others = {}
  BY DEF NoJson, McpJson
<1>2. ASSUME NEW j \in McpJson PROVE j.jig \in BOOLEAN /\ j.others \in SUBSET Servers
  <2>1. CASE j = NoJson
    BY <1>1, <2>1
  <2>2. CASE j \in [json : {TRUE}, jig : BOOLEAN, others : SUBSET Servers]
    BY <2>2
  <2> QED BY <2>1, <2>2 DEF McpJson
<1>3. ASSUME NEW j, j.others \in SUBSET Servers
      PROVE  /\ mergeMcpJson(j) \in McpJson
             /\ mergeMcpJson(j).jig = TRUE /\ mergeMcpJson(j).others = j.others
  BY <1>3 DEF mergeMcpJson, McpJson
<1> QED BY <1>1, <1>2, <1>3

LEMMA SetupStart == SetupInit => SetupInv
<1> SUFFICES ASSUME SetupInit PROVE SetupInv
  OBVIOUS
<1>1. /\ Resting \in Calling /\ Resting.pc = "idle" /\ Resting.apply = FALSE
  BY JsonFields DEF Resting, Calling
<1>2. \A w \in Writers : writer[w] = Resting
  BY DEF SetupInit
<1>3. SetupTypeOK
  BY <1>1 DEF SetupInit, SetupTypeOK, Calling
<1> QED BY <1>1, <1>2, <1>3, WriteAssumption
        DEF SetupInit, SetupInv, ReadIsLatest, JigStays, ToldBefore, PageWrote, AtRest, Committed

LEMMA SetupStep ==
  ASSUME SetupInv, SetupNext
  PROVE  SetupInv'
<1>0. /\ SetupTypeOK /\ edits \in Nat
      /\ ReadIsLatest /\ JigStays /\ ToldBefore
  BY DEF SetupInv
<1>t. /\ mcpJson \in McpJson /\ ignored \in BOOLEAN /\ busyMcp \in BOOLEAN /\ everTold \in BOOLEAN
      /\ writer \in [Writers -> Calling] /\ mcpPhase \in {"idle", "shown", "written", "already"}
      /\ wiped \in BOOLEAN /\ crossed \in BOOLEAN
      /\ mcpJson.jig \in BOOLEAN /\ \A w \in Writers : writer[w].read.jig \in BOOLEAN
  BY <1>0, JsonFields DEF SetupTypeOK, Calling
<1>p. Page \in Writers
  BY WriteAssumption
\* One call changes.
<1>w. ASSUME NEW w \in Writers, NEW new, writer' = [writer EXCEPT ![w] = new]
      PROVE  /\ writer'[w] = new /\ \A v \in Writers : v # w => writer'[v] = writer[v]
             /\ new \in Calling => writer' \in [Writers -> Calling]
  BY <1>t, <1>w
<1>c. \A call \in Calling : /\ call.apply \in BOOLEAN /\ call.read \in McpJson
                            /\ \A pc \in {"idle", "read", "merge", "fill", "ignore", "answered", "done"} :
                                 LET new == [call EXCEPT !.pc = pc]
                                 IN new \in Calling /\ new.pc = pc /\ new.apply = call.apply
                                    /\ new.read = call.read
  BY DEF Calling
\* StepTo
<1>s. ASSUME NEW w \in Writers,
             NEW pc \in {"idle", "read", "merge", "fill", "ignore", "answered", "done"},
             StepTo(w, pc)
      PROVE  /\ writer' \in [Writers -> Calling]
             /\ writer'[w].pc = pc /\ writer'[w].apply = writer[w].apply
             /\ writer'[w].read = writer[w].read
             /\ \A v \in Writers : v # w => writer'[v] = writer[v]
  <2> DEFINE new == [writer[w] EXCEPT !.pc = pc]
  <2>1. writer' = [writer EXCEPT ![w] = new]
    BY <1>s, <1>t DEF StepTo
  <2>2. /\ new \in Calling /\ new.pc = pc /\ new.apply = writer[w].apply
        /\ new.read = writer[w].read
    BY <1>c, <1>t
  <2> HIDE DEF new
  <2> QED BY <1>w, <2>1, <2>2
<1>r. ASSUME NEW told \in BOOLEAN
      PROVE  LET new == [Resting EXCEPT !.pc = "read", !.apply = told]
             IN new \in Calling /\ new.pc = "read" /\ new.apply = told
  BY JsonFields DEF Resting, Calling
<1>1. CASE ClickMcp
  <2> DEFINE new == [Resting EXCEPT !.pc = "read", !.apply = (mcpPhase = "shown")]
  <2>1. new \in Calling /\ new.pc = "read" /\ new.apply = (mcpPhase = "shown")
    BY <1>r
  <2>2. /\ writer' = [writer EXCEPT ![Page] = new] /\ busyMcp' = TRUE
        /\ everTold' = (everTold \/ mcpPhase = "shown") /\ writer[Page].pc = "idle"
        /\ UNCHANGED <<mcpJson, ignored, mcpPhase, edits, left, wiped, crossed>>
    BY <1>1 DEF ClickMcp
  <2> HIDE DEF new
  <2>3. /\ writer'[Page] = new /\ \A v \in Writers : v # Page => writer'[v] = writer[v]
        /\ writer' \in [Writers -> Calling]
    BY <1>p, <1>w, <2>1, <2>2
  <2>4. SetupTypeOK'
    BY <1>t, <2>2, <2>3 DEF SetupTypeOK, Calling
  <2>5. AtRest' = AtRest
    BY <1>p, <2>1, <2>2, <2>3 DEF AtRest
  <2>6. ReadIsLatest' /\ JigStays' /\ ToldBefore'
    BY <1>0, <1>t, <2>1, <2>2, <2>3, <2>5 DEF ReadIsLatest, JigStays, PageWrote, ToldBefore, Committed, MayWrite, McpChanged
  <2> QED BY <1>0, <2>2, <2>4, <2>6 DEF SetupInv
<1>2. ASSUME NEW ok \in BOOLEAN, PageHears(ok) PROVE SetupInv'
  <2>1. /\ writer[Page].pc = "answered" /\ busyMcp' = FALSE /\ StepTo(Page, "idle")
        /\ mcpPhase' \in {mcpPhase, "already", "written", "shown"}
        /\ mcpPhase' = "written" => mcpPhase = "written" \/ MayWrite(Page)
        /\ UNCHANGED <<mcpJson, ignored, edits, everTold, left, wiped, crossed>>
    BY <1>2 DEF PageHears, MayWrite
  <2>2. /\ writer' \in [Writers -> Calling] /\ writer'[Page].pc = "idle"
        /\ writer'[Page].apply = writer[Page].apply
        /\ \A v \in Writers : v # Page => writer'[v] = writer[v]
    BY <1>p, <1>s, <2>1
  <2>3. SetupTypeOK'
    BY <1>t, <2>1, <2>2 DEF SetupTypeOK, Calling
  <2>4. AtRest' = AtRest
    BY <1>p, <2>1, <2>2 DEF AtRest
  <2>5. ReadIsLatest' /\ JigStays' /\ ToldBefore'
    BY <1>0, <1>t, <2>1, <2>2, <2>4 DEF ReadIsLatest, JigStays, PageWrote, ToldBefore, Committed, MayWrite, McpChanged
  <2> QED BY <1>0, <2>1, <2>3, <2>5 DEF SetupInv
<1>3. ASSUME NEW w \in Writers, RunInit(w) PROVE SetupInv'
  <2> DEFINE new == [Resting EXCEPT !.pc = "read", !.apply = TRUE]
  <2>1. new \in Calling /\ new.pc = "read" /\ new.apply = TRUE
    BY <1>r
  <2>2. /\ writer' = [writer EXCEPT ![w] = new] /\ everTold' = TRUE
        /\ w # Page /\ writer[w].pc = "idle"
        /\ UNCHANGED <<mcpJson, ignored, mcpPhase, busyMcp, edits, left, wiped, crossed>>
    BY <1>3 DEF RunInit
  <2> HIDE DEF new
  <2>3. /\ writer'[w] = new /\ \A v \in Writers : v # w => writer'[v] = writer[v]
        /\ writer' \in [Writers -> Calling]
    BY <1>w, <2>1, <2>2
  <2>4. SetupTypeOK'
    BY <1>t, <2>2, <2>3 DEF SetupTypeOK, Calling
  <2>5. AtRest' = AtRest /\ writer'[Page] = writer[Page]
    BY <1>p, <2>1, <2>2, <2>3 DEF AtRest
  <2>6. ReadIsLatest' /\ JigStays' /\ ToldBefore'
    BY <1>0, <1>t, <2>1, <2>2, <2>3, <2>5
       DEF ReadIsLatest, JigStays, PageWrote, MayWrite, McpChanged, ToldBefore, Committed
  <2> QED BY <1>0, <2>2, <2>4, <2>6 DEF SetupInv
<1>4. ASSUME NEW w \in Writers, ReadConfig(w) PROVE SetupInv'
  <2> DEFINE call == writer[w]
             new == [[call EXCEPT !.pc = "merge"] EXCEPT !.read = mcpJson]
  <2>1. new \in Calling /\ new.pc = "merge" /\ new.apply = call.apply /\ new.read = mcpJson
    <3> DEFINE moved == [call EXCEPT !.pc = "merge"]
    <3>1. moved \in Calling /\ moved.pc = "merge" /\ moved.apply = call.apply
      BY <1>c, <1>t
    <3> HIDE DEF moved
    <3>2. LET n == [moved EXCEPT !.read = mcpJson]
          IN n \in Calling /\ n.pc = moved.pc /\ n.apply = moved.apply /\ n.read = mcpJson
      BY <1>t, <3>1 DEF Calling
    <3> QED BY <3>1, <3>2 DEF moved
  <2>2. /\ writer' = [writer EXCEPT ![w] = new] /\ writer[w].pc = "read"
        /\ crossed' = (crossed \/ ~AtRest)
        /\ UNCHANGED <<mcpJson, ignored, mcpPhase, busyMcp, edits, everTold, left, wiped>>
    BY <1>4, <1>t DEF ReadConfig
  <2> HIDE DEF new
  <2>3. /\ writer'[w] = new /\ \A v \in Writers : v # w => writer'[v] = writer[v]
        /\ writer' \in [Writers -> Calling]
    BY <1>w, <2>1, <2>2
  <2>4. SetupTypeOK'
    BY <1>t, <2>2, <2>3 DEF SetupTypeOK, Calling
  <2>5. AtRest' = AtRest
    BY <2>1, <2>2, <2>3 DEF AtRest
  <2>6. ReadIsLatest'
    BY <1>0, <2>1, <2>2, <2>3, <2>5 DEF ReadIsLatest, Committed, MayWrite, McpChanged
  <2>7. JigStays'
    BY <1>0, <1>p, <2>1, <2>2, <2>3, <2>5 DEF JigStays, PageWrote, MayWrite, McpChanged
  <2>8. ToldBefore'
    BY <1>0, <2>1, <2>2, <2>3 DEF ToldBefore
  <2> QED BY <1>0, <2>2, <2>4, <2>6, <2>7, <2>8 DEF SetupInv
<1>5. ASSUME NEW w \in Writers, EmptyConfig(w) PROVE SetupInv'
  <2>1. /\ writer[w].pc = "merge"
        /\ UNCHANGED <<ignored, mcpPhase, busyMcp, edits, everTold, left, wiped, crossed>>
    BY <1>5 DEF EmptyConfig
  <2>2. CASE MayWrite(w) /\ mcpJson' = NoJson /\ StepTo(w, "fill")
    <3>1. /\ writer' \in [Writers -> Calling] /\ writer'[w].pc = "fill"
          /\ writer'[w].apply = writer[w].apply /\ writer'[w].read = writer[w].read
          /\ \A v \in Writers : v # w => writer'[v] = writer[v]
      BY <1>s, <2>2
    <3>2. ~AtRest'
      BY <3>1 DEF AtRest
    <3>3. SetupTypeOK'
      BY <1>t, <2>1, <2>2, <3>1, JsonFields DEF SetupTypeOK, Calling
    <3>4. ReadIsLatest' /\ JigStays'
      BY <1>0, <2>1, <2>2, <3>1, <3>2 DEF ReadIsLatest, JigStays, Committed, MayWrite, McpChanged
    <3>5. ToldBefore'
      BY <1>0, <2>1, <2>2, <3>1 DEF ToldBefore, MayWrite
    <3> QED BY <1>0, <2>1, <3>3, <3>4, <3>5 DEF SetupInv
  <2>3. CASE /\ ~MayWrite(w) /\ mcpJson' = mcpJson
             /\ StepTo(w, IF w = Page THEN "answered" ELSE "ignore")
    <3> DEFINE pc == IF w = Page THEN "answered" ELSE "ignore"
    <3>1. /\ writer' \in [Writers -> Calling] /\ writer'[w].pc = pc
          /\ writer'[w].apply = writer[w].apply /\ writer'[w].read = writer[w].read
          /\ \A v \in Writers : v # w => writer'[v] = writer[v]
      BY <1>s, <2>3
    <3>2. AtRest' = AtRest
      BY <2>1, <3>1 DEF AtRest
    <3>3. SetupTypeOK'
      BY <1>t, <2>1, <2>3, <3>1 DEF SetupTypeOK, Calling
    <3>4. ReadIsLatest' /\ ToldBefore'
      BY <1>0, <2>1, <2>3, <3>1, <3>2 DEF ReadIsLatest, ToldBefore, Committed, MayWrite, McpChanged
    <3>5. PageWrote' => PageWrote
      BY <1>p, <2>3, <3>1 DEF PageWrote, MayWrite, McpChanged
    <3>6. JigStays'
      BY <1>0, <2>1, <2>3, <3>2, <3>5 DEF JigStays
    <3> QED BY <1>0, <2>1, <3>3, <3>4, <3>6 DEF SetupInv
  <2> QED BY <1>5, <2>2, <2>3 DEF EmptyConfig
<1>6. ASSUME NEW w \in Writers, FillConfig(w) PROVE SetupInv'
  <2> DEFINE call == writer[w]
             new == [[call EXCEPT !.pc = "ignore"] EXCEPT !.wrote = TRUE]
  <2>1. new \in Calling /\ new.pc = "ignore" /\ new.apply = call.apply /\ new.read = call.read
    <3> DEFINE moved == [call EXCEPT !.pc = "ignore"]
    <3>1. /\ moved \in Calling /\ moved.pc = "ignore" /\ moved.apply = call.apply
          /\ moved.read = call.read
      BY <1>c, <1>t
    <3> HIDE DEF moved
    <3>2. LET n == [moved EXCEPT !.wrote = TRUE]
          IN n \in Calling /\ n.pc = moved.pc /\ n.apply = moved.apply /\ n.read = moved.read
      BY <3>1 DEF Calling
    <3> QED BY <3>1, <3>2 DEF moved
  <2>2. /\ writer' = [writer EXCEPT ![w] = new] /\ call.pc = "fill"
        /\ mcpJson' = mergeMcpJson(call.read) /\ wiped' = FALSE
        /\ UNCHANGED <<ignored, mcpPhase, busyMcp, edits, everTold, left, crossed>>
    BY <1>6, <1>t DEF FillConfig
  <2>3. /\ mcpJson' \in McpJson /\ mcpJson'.jig = TRUE /\ mcpJson'.others = call.read.others
    BY <1>c, <1>t, <2>2, JsonFields
  <2> HIDE DEF new
  <2>4. /\ writer'[w] = new /\ \A v \in Writers : v # w => writer'[v] = writer[v]
        /\ writer' \in [Writers -> Calling]
    BY <1>w, <2>1, <2>2
  <2>5. SetupTypeOK'
    BY <1>t, <2>2, <2>3, <2>4 DEF SetupTypeOK, Calling
  <2>6. ReadIsLatest'
    BY <1>0, <2>1, <2>2, <2>3, <2>4 DEF ReadIsLatest, Committed, MayWrite, McpChanged
  <2>7. JigStays'
    BY <2>3 DEF JigStays
  <2>8. ToldBefore'
    BY <1>0, <2>1, <2>2, <2>4 DEF ToldBefore
  <2> QED BY <1>0, <2>2, <2>5, <2>6, <2>7, <2>8 DEF SetupInv
<1>7. ASSUME NEW w \in Writers, ensureGitignoreEntry(w) PROVE SetupInv'
  <2> DEFINE pc == IF w = Page THEN "answered" ELSE "done"
  <2>1. /\ writer[w].pc = "ignore" /\ ignored' = TRUE /\ StepTo(w, pc)
        /\ UNCHANGED <<mcpJson, mcpPhase, busyMcp, edits, everTold, left, wiped, crossed>>
    BY <1>7 DEF ensureGitignoreEntry
  <2>2. /\ writer' \in [Writers -> Calling] /\ writer'[w].pc = pc
        /\ writer'[w].apply = writer[w].apply /\ writer'[w].read = writer[w].read
        /\ \A v \in Writers : v # w => writer'[v] = writer[v]
    BY <1>s, <2>1
  <2>3. AtRest' = AtRest
    BY <2>1, <2>2 DEF AtRest
  <2>4. SetupTypeOK'
    BY <1>t, <2>1, <2>2 DEF SetupTypeOK, Calling
  <2>5. ReadIsLatest' /\ ToldBefore'
    BY <1>0, <2>1, <2>2, <2>3 DEF ReadIsLatest, ToldBefore, Committed, MayWrite, McpChanged
  <2>6. PageWrote' => PageWrote
    BY <1>p, <2>1, <2>2 DEF PageWrote, MayWrite, McpChanged
  <2>7. JigStays'
    BY <1>0, <2>1, <2>3, <2>6 DEF JigStays
  <2> QED BY <1>0, <2>1, <2>4, <2>5, <2>7 DEF SetupInv
<1>8. ASSUME NEW new \in McpJson, OthersEdit(new) PROVE SetupInv'
  <2>1. /\ edits' = edits + 1 /\ mcpJson' = new /\ left' = new /\ wiped' = ~new.jig
        /\ crossed' = (crossed \/ \E w \in Writers : Committed(w))
        /\ UNCHANGED <<ignored, writer, mcpPhase, busyMcp, everTold>>
    BY <1>8 DEF OthersEdit
  <2>2. new.jig \in BOOLEAN /\ edits' \in Nat
    BY <1>0, <2>1, JsonFields
  <2>3. SetupTypeOK'
    BY <1>t, <2>1, <2>2 DEF SetupTypeOK, Calling
  <2>4. \A w \in Writers : Committed(w)' = Committed(w)
    BY <2>1 DEF Committed, MayWrite, McpChanged
  <2>5. ReadIsLatest'
    BY <2>1, <2>4 DEF ReadIsLatest
  <2>6. JigStays' /\ ToldBefore'
    BY <1>0, <2>1 DEF JigStays, ToldBefore
  <2> QED BY <2>2, <2>3, <2>5, <2>6 DEF SetupInv
<1> QED BY <1>1, <1>2, <1>3, <1>4, <1>5, <1>6, <1>7, <1>8 DEF SetupNext, CallSteps

-----------------------------------------------------------------------------
(* TrialFit: what listens is the mirror at hand, until the bench is let    *)
(* go; then only what a request that was late has opened.                  *)

MirrorCalls == [at : {"unused", "probing", "answered", "refused"},
                port : AskedPorts, late : BOOLEAN, answer : MirrorPorts \cup {0}]
MirrorProxies == [up : BOOLEAN, port : MirrorPorts \cup {0}, target : TfTargets \cup {NoMirror}]

AtHand ==
  tfBench \in {"open", "closing"} =>
    \A c \in TfCalls :
      /\ tfProxies[c].up <=> tfMirror = c
      /\ tfBench = "open" /\ tfCall[c].at = "answered" =>
           tfMirror # NoMirror /\ tfCall[c].answer = tfProxies[tfMirror].port
GoneAfter ==
  /\ tfBench = "draining" => tfMirror # NoMirror /\ \A c \in TfCalls : ~tfProxies[c].up
  /\ tfBench = "closed" => \A c \in TfCalls : tfProxies[c].up => tfCall[c].late
LateKnown == tfBench # "open" => \A c \in TfCalls : tfCall[c].at = "probing" => tfCall[c].late
MirrorInv == TrialFitTypeOK /\ AtHand /\ GoneAfter /\ LateKnown

LEMMA MirrorStarts == TrialFitInit => MirrorInv
<1> SUFFICES ASSUME TrialFitInit PROVE MirrorInv
  OBVIOUS
<1> DEFINE none == [up |-> FALSE, port |-> 0, target |-> NoMirror]
<1>1. none \in MirrorProxies /\ none.up = FALSE
  BY DEF MirrorProxies
<1>2. NoCallYet \in MirrorCalls /\ NoCallYet.at = "unused"
  BY DEF NoCallYet, MirrorCalls, AskedPorts
<1>3. \A c \in TfCalls : tfProxies[c] = none /\ tfCall[c] = NoCallYet /\ tfMirror # c
  BY MirrorAssumption DEF TrialFitInit
<1>4. TrialFitTypeOK
  BY <1>1, <1>2 DEF TrialFitInit, TrialFitTypeOK, MirrorProxies, MirrorCalls
<1> HIDE DEF none
<1> QED BY <1>1, <1>2, <1>3, <1>4 DEF TrialFitInit, MirrorInv, AtHand, GoneAfter, LateKnown

LEMMA PortForType == \A port : PortFor(port) \in MirrorPorts
BY DEF PortFor, MirrorPorts

LEMMA MirrorStep ==
  ASSUME MirrorInv, TrialFitNext
  PROVE  MirrorInv'
<1>0. TrialFitTypeOK /\ AtHand /\ GoneAfter /\ LateKnown
  BY DEF MirrorInv
<1>t. /\ tfBench \in {"open", "closing", "draining", "closed"}
      /\ tfPlate \in TfTargets \cup {NoMirror} /\ tfMirror \in TfCalls \cup {NoMirror}
      /\ tfProxies \in [TfCalls -> MirrorProxies] /\ tfCall \in [TfCalls -> MirrorCalls]
  BY <1>0 DEF TrialFitTypeOK, MirrorProxies, MirrorCalls
<1>T. /\ tfBench' \in {"open", "closing", "draining", "closed"}
      /\ tfPlate' \in TfTargets \cup {NoMirror} /\ tfMirror' \in TfCalls \cup {NoMirror}
      /\ tfProxies' \in [TfCalls -> MirrorProxies] /\ tfCall' \in [TfCalls -> MirrorCalls]
      => TrialFitTypeOK'
  BY DEF TrialFitTypeOK, MirrorProxies, MirrorCalls
<1>f. \A call \in MirrorCalls :
        /\ call.late \in BOOLEAN /\ call.port \in AskedPorts
        /\ \A at \in {"unused", "probing", "answered", "refused"} :
             LET new == [call EXCEPT !.at = at]
             IN new \in MirrorCalls /\ new.at = at /\ new.late = call.late
        /\ \A answer \in MirrorPorts \cup {0} :
             LET new == [call EXCEPT !.answer = answer]
             IN /\ new \in MirrorCalls /\ new.at = call.at /\ new.late = call.late
                /\ new.answer = answer
        /\ \A port \in AskedPorts :
             LET new == [call EXCEPT !.port = port]
             IN new \in MirrorCalls /\ new.at = call.at /\ new.late = call.late
        /\ \A late \in BOOLEAN :
             LET new == [call EXCEPT !.late = late]
             IN /\ new \in MirrorCalls /\ new.at = call.at /\ new.late = late
                /\ new.answer = call.answer
  BY DEF MirrorCalls
<1>p. \A proxy \in MirrorProxies :
        /\ proxy.up \in BOOLEAN /\ proxy.port \in MirrorPorts \cup {0}
        /\ \A target \in TfTargets \cup {NoMirror} :
             LET new == [proxy EXCEPT !.target = target]
             IN new \in MirrorProxies /\ new.up = proxy.up /\ new.port = proxy.port
        /\ LET new == [proxy EXCEPT !.up = FALSE]
           IN new \in MirrorProxies /\ new.up = FALSE /\ new.port = proxy.port
  BY DEF MirrorProxies
\* A request is refused or waits.
<1>w. ASSUME NEW c \in TfCalls, NEW new \in MirrorCalls, tfCall' = [tfCall EXCEPT ![c] = new],
             new.at \in {"probing", "refused"}, new.late = tfCall[c].late,
             new.at = "probing" => tfBench = "open",
             UNCHANGED <<tfBench, tfPlate, tfMirror, tfProxies>>
      PROVE  MirrorInv'
  <2>1. tfCall'[c] = new /\ \A d \in TfCalls : d # c => tfCall'[d] = tfCall[d]
    BY <1>t, <1>w
  <2>2. TrialFitTypeOK'
    BY <1>t, <1>T, <1>w
  <2>3. \A d \in TfCalls : tfCall'[d].late = tfCall[d].late
    BY <1>w, <2>1
  <2>4. AtHand' /\ GoneAfter'
    BY <1>0, <1>w, <2>1, <2>3 DEF AtHand, GoneAfter
  <2>5. LateKnown'
    BY <1>0, <1>w, <2>1 DEF LateKnown
  <2> QED BY <2>2, <2>4, <2>5 DEF MirrorInv
\* start(), for a request that comes in while the bench is open or was late.
<1>s. ASSUME NEW c \in TfCalls, NEW target \in TfTargets, NEW port \in MirrorPorts,
             MirrorStart(c, target, port), UNCHANGED <<tfBench, tfPlate>>,
             tfBench # "open" => tfCall[c].late
      PROVE  MirrorInv'
  <2> DEFINE at == IF NoneRuns THEN c ELSE tfMirror
             opened == [up |-> TRUE, port |-> port, target |-> target]
             pointed == [tfProxies[at] EXCEPT !.target = target]
             proxy == IF NoneRuns THEN opened ELSE pointed
             answered == [tfCall[c] EXCEPT !.at = "answered"]
             new == [answered EXCEPT !.answer = proxy.port]
  <2>1. at \in TfCalls /\ (NoneRuns => at = c) /\ (~NoneRuns => at = tfMirror)
    BY <1>t DEF NoneRuns
  <2>2. opened \in MirrorProxies /\ opened.up = TRUE
    BY DEF MirrorProxies
  <2>3. pointed \in MirrorProxies /\ pointed.up = tfProxies[at].up /\ pointed.port = tfProxies[at].port
    <3> HIDE DEF at
    <3>1. tfProxies[at] \in MirrorProxies
      BY <1>t, <2>1
    <3> QED BY <3>1 DEF MirrorProxies
  <2>4. proxy \in MirrorProxies /\ proxy.port \in MirrorPorts \cup {0}
    BY <1>p, <2>2, <2>3
  <2>5. tfMirror' = at /\ tfProxies' = [tfProxies EXCEPT ![at] = proxy]
    BY <1>s, <1>t, <2>1 DEF MirrorStart
  <2>6. tfProxies'[at] = proxy /\ \A d \in TfCalls : d # at => tfProxies'[d] = tfProxies[d]
    <3> HIDE DEF at, proxy
    <3> QED BY <1>t, <2>1, <2>5
  <2>7. tfCall' = [tfCall EXCEPT ![c] = new]
    <3>1. tfCall' = [tfCall EXCEPT ![c].at = "answered", ![c].answer = tfProxies'[at].port]
      BY <1>s DEF MirrorStart
    <3>2. tfProxies'[at].port = proxy.port
      BY <2>6
    <3> HIDE DEF proxy, at
    <3> QED BY <1>t, <3>1, <3>2
  <2>8. /\ new \in MirrorCalls /\ new.at = "answered" /\ new.late = tfCall[c].late
        /\ new.answer = proxy.port
    <3>1. answered \in MirrorCalls /\ answered.at = "answered" /\ answered.late = tfCall[c].late
      BY <1>f, <1>t
    <3> DEFINE port2 == proxy.port
    <3> HIDE DEF answered, proxy
    <3>2. port2 \in MirrorPorts \cup {0}
      BY <2>4
    <3> HIDE DEF port2
    <3>3. LET n == [answered EXCEPT !.answer = port2]
          IN /\ n \in MirrorCalls /\ n.at = answered.at /\ n.late = answered.late
             /\ n.answer = port2
      BY <3>1, <3>2 DEF MirrorCalls
    <3> QED BY <3>1, <3>3 DEF port2
  <2> HIDE DEF at, opened, pointed, new, answered
  <2>9. tfCall'[c] = new /\ \A d \in TfCalls : d # c => tfCall'[d] = tfCall[d]
    BY <1>t, <2>7
  <2>10. TrialFitTypeOK'
    <3> HIDE DEF proxy
    <3> QED BY <1>s, <1>t, <1>T, <2>1, <2>4, <2>5, <2>7, <2>8
  <2>11. \A d \in TfCalls : tfCall'[d].late = tfCall[d].late
    BY <2>8, <2>9
  <2>12. AtHand'
    <3> SUFFICES ASSUME tfBench \in {"open", "closing"}, NEW d \in TfCalls
                 PROVE  /\ tfProxies'[d].up <=> tfMirror' = d
                        /\ tfBench = "open" /\ tfCall'[d].at = "answered" =>
                             tfMirror' # NoMirror /\ tfCall'[d].answer = tfProxies'[tfMirror'].port
      BY <1>s DEF AtHand
    <3>1. CASE NoneRuns
      <4>1. \A e \in TfCalls : ~tfProxies[e].up /\ ~(tfBench = "open" /\ tfCall[e].at = "answered")
        BY <1>0, <3>1, MirrorAssumption DEF AtHand, NoneRuns
      <4>2. proxy.up = TRUE
        BY <2>2, <3>1
      <4> HIDE DEF proxy
      <4> QED BY <2>1, <2>5, <2>6, <2>8, <2>9, <4>1, <4>2, MirrorAssumption
    <3>2. CASE ~NoneRuns
      <4>1. proxy.up = tfProxies[at].up /\ proxy.port = tfProxies[at].port /\ at = tfMirror
        BY <2>1, <2>3, <3>2
      <4> HIDE DEF proxy
      <4> QED BY <1>0, <2>1, <2>5, <2>6, <2>8, <2>9, <4>1, MirrorAssumption DEF AtHand
    <3> QED BY <3>1, <3>2
  <2>13. GoneAfter'
    <3>1. CASE NoneRuns
      <4>1. tfBench # "draining"
        BY <1>0, <3>1 DEF GoneAfter, NoneRuns
      <4> QED BY <1>0, <1>s, <2>1, <2>6, <2>11, <3>1, <4>1 DEF GoneAfter
    <3>2. CASE ~NoneRuns
      <4>1. proxy.up = tfProxies[at].up /\ at = tfMirror
        BY <2>1, <2>3, <3>2
      <4> HIDE DEF proxy
      <4> QED BY <1>0, <1>s, <2>1, <2>5, <2>6, <2>11, <4>1, MirrorAssumption DEF GoneAfter
    <3> QED BY <3>1, <3>2
  <2>14. LateKnown'
    BY <1>0, <1>s, <2>8, <2>9, <2>11 DEF LateKnown
  <2> QED BY <2>10, <2>12, <2>13, <2>14 DEF MirrorInv
<1>1. ASSUME NEW c \in TfCalls, PlateAnswers(c) PROVE MirrorInv'
  <2>1. tfCall[c].at = "probing" /\ UNCHANGED <<tfBench, tfPlate>>
    BY <1>1 DEF PlateAnswers
  <2>2. CASE tfPlate # NoMirror /\ MirrorStart(c, tfPlate, PortFor(tfCall[c].port))
    BY <1>0, <1>s, <1>t, <2>1, <2>2, PortForType DEF LateKnown
  <2>3. CASE /\ tfPlate = NoMirror /\ tfCall' = [tfCall EXCEPT ![c].at = "refused"]
             /\ UNCHANGED <<tfMirror, tfProxies>>
    <3> DEFINE new == [tfCall[c] EXCEPT !.at = "refused"]
    <3>1. new \in MirrorCalls /\ new.at = "refused" /\ new.late = tfCall[c].late
      BY <1>f, <1>t
    <3>2. tfCall' = [tfCall EXCEPT ![c] = new]
      BY <1>t, <2>3
    <3> HIDE DEF new
    <3> QED BY <1>w, <2>1, <2>3, <3>1, <3>2
  <2> QED BY <1>1, <2>2, <2>3 DEF PlateAnswers
<1>2. ASSUME NEW c \in TfCalls, NEW target \in TfTargets \cup {NoMirror}, NEW port \in AskedPorts,
             PostMirror(c, target, port)
      PROVE  MirrorInv'
  <2>1. tfBench = "open" /\ UNCHANGED <<tfBench, tfPlate>>
    BY <1>2 DEF PostMirror
  <2>2. CASE tfCall' = [tfCall EXCEPT ![c].at = "refused"] /\ UNCHANGED <<tfMirror, tfProxies>>
    <3> DEFINE new == [tfCall[c] EXCEPT !.at = "refused"]
    <3>1. new \in MirrorCalls /\ new.at = "refused" /\ new.late = tfCall[c].late
      BY <1>f, <1>t
    <3>2. tfCall' = [tfCall EXCEPT ![c] = new]
      BY <1>t, <2>2
    <3> HIDE DEF new
    <3> QED BY <1>w, <2>1, <2>2, <3>1, <3>2
  <2>3. CASE target # NoMirror /\ MirrorStart(c, target, PortFor(port))
    BY <1>s, <2>1, <2>3, PortForType
  <2>4. CASE /\ tfCall' = [tfCall EXCEPT ![c].at = "probing", ![c].port = port]
             /\ UNCHANGED <<tfMirror, tfProxies>>
    <3> DEFINE moved == [tfCall[c] EXCEPT !.at = "probing"]
               new == [moved EXCEPT !.port = port]
    <3>1. moved \in MirrorCalls /\ moved.at = "probing" /\ moved.late = tfCall[c].late
      BY <1>f, <1>t
    <3>2. tfCall' = [tfCall EXCEPT ![c] = new]
      BY <1>t, <2>4
    <3> HIDE DEF moved
    <3>3. new \in MirrorCalls /\ new.at = moved.at /\ new.late = moved.late
      BY <3>1 DEF MirrorCalls
    <3> HIDE DEF new
    <3> QED BY <1>w, <2>1, <2>4, <3>1, <3>2, <3>3
  <2> QED BY <1>2, <2>2, <2>3, <2>4 DEF PostMirror
<1>3. ASSUME NEW target \in TfTargets, PlateStarts(target) PROVE MirrorInv'
  <2>1. tfPlate' = target /\ UNCHANGED <<tfBench, tfMirror, tfProxies, tfCall>>
    BY <1>3 DEF PlateStarts
  <2>2. TrialFitTypeOK'
    BY <1>t, <1>T, <2>1
  <2> QED BY <1>0, <2>1, <2>2 DEF MirrorInv, AtHand, GoneAfter, LateKnown
<1>4. CASE BenchLetsGo
  <2>1. /\ tfBench = "open" /\ tfBench' = "closing" /\ UNCHANGED <<tfPlate, tfMirror, tfProxies>>
        /\ tfCall' = [c \in TfCalls |-> [tfCall[c] EXCEPT !.late = tfCall[c].at = "probing"]]
    BY <1>4 DEF BenchLetsGo
  <2>2. \A c \in TfCalls : /\ tfCall'[c] \in MirrorCalls /\ tfCall'[c].at = tfCall[c].at
                           /\ tfCall'[c].late = (tfCall[c].at = "probing")
    <3> SUFFICES ASSUME NEW c \in TfCalls
                 PROVE  /\ tfCall'[c] \in MirrorCalls /\ tfCall'[c].at = tfCall[c].at
                        /\ tfCall'[c].late = (tfCall[c].at = "probing")
      OBVIOUS
    <3>1. tfCall'[c] = [tfCall[c] EXCEPT !.late = (tfCall[c].at = "probing")]
      BY <2>1
    <3> DEFINE b == (tfCall[c].at = "probing")
    <3>2. b \in BOOLEAN /\ tfCall[c] \in MirrorCalls /\ tfCall'[c] = [tfCall[c] EXCEPT !.late = b]
      BY <1>t, <3>1
    <3> HIDE DEF b
    <3>3. tfCall'[c] \in MirrorCalls /\ tfCall'[c].at = tfCall[c].at /\ tfCall'[c].late = b
      BY <3>2 DEF MirrorCalls
    <3> QED BY <3>3 DEF b
  <2>3. TrialFitTypeOK'
    <3>1. tfCall' \in [TfCalls -> MirrorCalls]
      BY <2>1, <2>2
    <3> QED BY <1>t, <1>T, <2>1, <3>1
  <2>4. AtHand' /\ GoneAfter'
    BY <1>0, <2>1 DEF AtHand, GoneAfter
  <2>5. LateKnown'
    BY <2>2 DEF LateKnown
  <2> QED BY <2>3, <2>4, <2>5 DEF MirrorInv
<1>5. CASE MirrorStops
  <2>1. /\ tfBench = "closing" /\ UNCHANGED <<tfPlate, tfMirror, tfCall>>
        /\ tfProxies' = StoppedListening
        /\ tfBench' = IF tfMirror = NoMirror THEN "closed" ELSE "draining"
    BY <1>5 DEF MirrorStops
  <2>2. CASE tfMirror = NoMirror
    <3>1. tfProxies' = tfProxies /\ tfBench' = "closed"
      BY <2>1, <2>2 DEF StoppedListening
    <3>2. \A c \in TfCalls : ~tfProxies[c].up
      BY <1>0, <2>1, <2>2, MirrorAssumption DEF AtHand
    <3>3. TrialFitTypeOK'
      BY <1>t, <1>T, <2>1, <3>1
    <3> QED BY <1>0, <2>1, <3>1, <3>2, <3>3 DEF MirrorInv, AtHand, GoneAfter, LateKnown
  <2>3. CASE tfMirror # NoMirror
    <3> DEFINE new == [tfProxies[tfMirror] EXCEPT !.up = FALSE]
    <3>1. tfMirror \in TfCalls /\ tfBench' = "draining" /\ tfProxies' = [tfProxies EXCEPT ![tfMirror] = new]
      BY <1>t, <2>1, <2>3 DEF StoppedListening
    <3>2. new \in MirrorProxies /\ new.up = FALSE
      BY <1>p, <1>t, <3>1
    <3> HIDE DEF new
    <3>3. \A c \in TfCalls : ~tfProxies'[c].up
      BY <1>0, <1>t, <2>1, <3>1, <3>2 DEF AtHand
    <3>4. TrialFitTypeOK'
      BY <1>t, <1>T, <2>1, <3>1, <3>2
    <3> QED BY <1>0, <2>1, <2>3, <3>1, <3>3, <3>4 DEF MirrorInv, AtHand, GoneAfter, LateKnown
  <2> QED BY <2>2, <2>3
<1>6. CASE MirrorDropped
  <2>1. /\ tfBench = "draining" /\ tfBench' = "closed" /\ tfMirror' = NoMirror
        /\ UNCHANGED <<tfPlate, tfProxies, tfCall>>
    BY <1>6 DEF MirrorDropped
  <2>2. TrialFitTypeOK'
    BY <1>t, <1>T, <2>1
  <2> QED BY <1>0, <2>1, <2>2 DEF MirrorInv, AtHand, GoneAfter, LateKnown
<1> QED BY <1>1, <1>2, <1>3, <1>4, <1>5, <1>6 DEF TrialFitNext

LEMMA MirrorShown == MirrorInv => TrialFitTypeOK /\ OneMirror /\ MirrorLeaksOnlyByOverlap
BY DEF MirrorInv, AtHand, GoneAfter, OneMirror, MirrorLeaksOnlyByOverlap, Listening

-----------------------------------------------------------------------------
(* ShopLink: no record that is anywhere, in a file, a write, a reload or   *)
(* memory, is younger than the time the agent was last running.            *)

NotBefore(age) == age \in Age => shSince <= age

LinkInv ==
  /\ ShopTypeOK
  /\ shAgent # "absent" => shSince = 0
  /\ shAgent = "absent" => ~shTimer /\ \A w \in Writes : shWrite[w] = None
  /\ NotBefore(shFile) /\ NotBefore(shMem)
  /\ \A w \in Writes : NotBefore(shWrite[w])
  /\ \A r \in Reloads : NotBefore(shReload[r])

LEMMA MarksNoAge == None \notin Age /\ Idle \notin Age /\ StaleAfter \in Age /\ 0 \in Age /\ Age \subseteq Nat
BY ShopAssumption DEF Age

LEMMA OlderAge ==
  /\ \A a \in Age : Older(a) \in Age /\ Older(a) >= a /\ \A b \in Age : b <= a => Older(b) <= Older(a)
  /\ \A a : a \notin Age => Older(a) = a
BY ShopAssumption DEF Age, Older

LEMMA LinkStart == ShopInit => LinkInv
<1> SUFFICES ASSUME ShopInit PROVE LinkInv
  OBVIOUS
<1>1. ShopTypeOK
  BY MarksNoAge DEF ShopInit, ShopTypeOK
<1> QED BY <1>1, MarksNoAge DEF ShopInit, LinkInv, NotBefore

LEMMA LinkStep ==
  ASSUME LinkInv, ShopNext
  PROVE  LinkInv'
<1>0. /\ ShopTypeOK
      /\ shAgent # "absent" => shSince = 0
      /\ shAgent = "absent" => ~shTimer /\ \A w \in Writes : shWrite[w] = None
      /\ NotBefore(shFile) /\ NotBefore(shMem)
      /\ \A w \in Writes : NotBefore(shWrite[w])
      /\ \A r \in Reloads : NotBefore(shReload[r])
  BY DEF LinkInv
<1>t. /\ shAgent \in {"absent", "connected", "closing", "leaving"} /\ shTimer \in BOOLEAN
      /\ shWrite \in [Writes -> Age \cup {None}] /\ shFile \in Age \cup {None} /\ shSince \in Age
      /\ shServer \in {"down", "loaded", "open", "closing", "draining"}
      /\ shMem \in Age \cup {None} /\ shReload \in [Reloads -> Age \cup {None, Idle}]
      /\ shChange \in BOOLEAN /\ shLast \in BOOLEAN /\ shTicked \in BOOLEAN
      /\ shSeen \in [Clients -> {"off", "wired", "none"}]
  BY <1>0 DEF ShopTypeOK
<1>b. \A rec : getWiring(rec) \in {"off", "wired", "none"} /\ isHeartbeatFresh(rec) \in BOOLEAN
  BY DEF getWiring, isHeartbeatFresh
<1>v. \A rec : Broadcast(rec) => shSeen' \in [Clients -> {"off", "wired", "none"}]
  BY <1>b DEF Broadcast
<1>c. Touch => shChange' \in BOOLEAN
  BY <1>t DEF Touch
<1>n. NotBefore(None) /\ NotBefore(Idle) /\ (shSince = 0 => \A a \in Age : shSince <= a)
  BY MarksNoAge DEF NotBefore
<1>1. CASE Initialized
  <2>1. /\ shAgent = "absent" /\ shAgent' = "connected" /\ shSince' = 0
        /\ shWrite' = [shWrite EXCEPT !["first"] = 0] /\ UNCHANGED <<shTimer, shFile>> /\ UNCHANGED serverVars
    BY <1>1 DEF Initialized
  <2>2. \A a \in Age : 0 <= a
    BY MarksNoAge
  <2>3. ShopTypeOK'
    BY <1>t, <2>1, MarksNoAge DEF ShopTypeOK, serverVars
  <2> QED BY <2>1, <2>2, <2>3 DEF LinkInv, NotBefore
\* Nothing of the agent changes; memory and reloads take records that are there.
<1>s. ASSUME UNCHANGED agentVars, ShopTypeOK', shMem' \in {shMem, shFile, None} \cup {shReload[r] : r \in Reloads},
             \A r \in Reloads : shReload'[r] \in {shReload[r], shFile, Idle}
      PROVE  LinkInv'
  <2>1. UNCHANGED <<shAgent, shTimer, shWrite, shFile, shSince>>
    BY <1>s DEF agentVars
  <2>2. NotBefore(shMem)'
    BY <1>0, <1>n, <1>s, <2>1 DEF NotBefore
  <2>3. \A r \in Reloads : NotBefore(shReload[r])'
    BY <1>0, <1>n, <1>s, <2>1 DEF NotBefore
  <2> QED BY <1>0, <1>s, <2>1, <2>2, <2>3 DEF LinkInv, NotBefore
\* Writes come and go while the agent lives; the server notices at most a change.
<1>a. ASSUME ShopTypeOK', UNCHANGED <<shSince, shMem, shReload>>,
             \A w \in Writes : \/ shWrite'[w] = None
                               \/ \E v \in Writes : shWrite'[w] = shWrite[v]
                               \/ shAgent # "absent" /\ shWrite'[w] = 0,
             shFile' \in {shFile, None} \cup {shWrite[w] : w \in Writes},
             shAgent' = "absent" => ~shTimer' /\ \A w \in Writes : shWrite'[w] = None,
             shAgent' # "absent" => shAgent # "absent"
      PROVE  LinkInv'
  <2>1. NotBefore(shFile)'
    BY <1>0, <1>a, <1>n DEF NotBefore
  <2>2. \A w \in Writes : NotBefore(shWrite[w])'
    BY <1>0, <1>a, <1>n, MarksNoAge DEF NotBefore
  <2> QED BY <1>0, <1>a, <2>1, <2>2 DEF LinkInv, NotBefore
<1>2. CASE Refresh
  <2>1. /\ shTimer = TRUE /\ UNCHANGED <<shAgent, shTimer, shFile, shSince>> /\ UNCHANGED serverVars
        /\ shWrite' = [shWrite EXCEPT !["older"] = shWrite["last"], !["last"] = 0]
    BY <1>2, <1>t DEF Refresh
  <2>2. /\ shWrite' \in [Writes -> Age \cup {None}]
        /\ \A w \in Writes : shWrite'[w] \in {shWrite[w], shWrite["last"], 0}
    BY <1>t, <2>1, MarksNoAge DEF Writes
  <2>3. ShopTypeOK'
    BY <1>t, <2>1, <2>2 DEF ShopTypeOK, serverVars
  <2>4. shAgent # "absent" /\ "last" \in Writes
    BY <1>0, <2>1 DEF Writes
  <2> QED BY <1>a, <2>1, <2>2, <2>3, <2>4 DEF serverVars
<1>3. CASE TransportCloses
  <2>1. /\ shAgent = "connected" /\ shAgent' = "closing" /\ shTimer' = FALSE
        /\ UNCHANGED <<shFile, shSince>> /\ UNCHANGED serverVars
        /\ shWrite' = [shWrite EXCEPT !["awaited"] = shWrite["last"], !["last"] = None]
    BY <1>3 DEF TransportCloses
  <2>2. /\ shWrite' \in [Writes -> Age \cup {None}] /\ "last" \in Writes
        /\ \A w \in Writes : shWrite'[w] \in {shWrite[w], shWrite["last"], None}
    BY <1>t, <2>1 DEF Writes
  <2>3. ShopTypeOK'
    BY <1>t, <2>1, <2>2 DEF ShopTypeOK, serverVars
  <2> QED BY <1>a, <2>1, <2>2, <2>3 DEF serverVars
<1>4. CASE StopDeletes
  <2>1. /\ shAgent = "closing" /\ shAgent' = "leaving" /\ shFile' \in {shFile, None}
        /\ shChange' \in BOOLEAN
        /\ UNCHANGED <<shTimer, shWrite, shSince, shServer, shMem, shReload, shLast, shTicked, shSeen>>
    BY <1>4, <1>c, <1>t DEF StopDeletes
  <2>2. ShopTypeOK'
    BY <1>t, <2>1 DEF ShopTypeOK
  <2> QED BY <1>a, <2>1, <2>2
<1>5. CASE AgentExits
  <2>1. /\ shAgent' = "absent" /\ shTimer' = FALSE /\ \A w \in Writes : shWrite[w] = None
        /\ UNCHANGED <<shWrite, shFile, shSince>> /\ UNCHANGED serverVars
    BY <1>5 DEF AgentExits
  <2>2. ShopTypeOK'
    BY <1>t, <2>1 DEF ShopTypeOK, serverVars
  <2> QED BY <1>a, <2>1, <2>2 DEF serverVars
<1>6. CASE AgentCrashes
  <2>1. /\ shAgent' = "absent" /\ shTimer' = FALSE /\ shWrite' = [w \in Writes |-> None]
        /\ UNCHANGED <<shFile, shSince>> /\ UNCHANGED serverVars
    BY <1>6 DEF AgentCrashes
  <2>2. ShopTypeOK'
    BY <1>t, <2>1 DEF ShopTypeOK, serverVars
  <2> QED BY <1>a, <2>1, <2>2 DEF serverVars
<1>7. ASSUME NEW w \in Writes, WriteLands(w) PROVE LinkInv'
  <2>1. /\ shWrite[w] # None /\ shFile' = shWrite[w] /\ shWrite' = [shWrite EXCEPT ![w] = None]
        /\ shTimer' = (shTimer \/ w = "first") /\ shChange' \in BOOLEAN
        /\ UNCHANGED <<shAgent, shSince, shServer, shMem, shReload, shLast, shTicked, shSeen>>
    BY <1>7, <1>c DEF WriteLands
  <2>2. /\ shWrite' \in [Writes -> Age \cup {None}]
        /\ \A v \in Writes : shWrite'[v] \in {shWrite[v], None}
    BY <1>t, <2>1
  <2>3. shTimer' \in BOOLEAN /\ shFile' \in Age \cup {None} /\ shAgent # "absent"
    BY <1>0, <1>t, <2>1
  <2>4. ShopTypeOK'
    BY <1>t, <2>1, <2>2, <2>3 DEF ShopTypeOK
  <2> QED BY <1>a, <2>1, <2>2, <2>3, <2>4
<1>8. ASSUME NEW w \in Writes, WriteFails(w) PROVE LinkInv'
  <2>1. /\ shWrite' = [shWrite EXCEPT ![w] = None]
        /\ UNCHANGED <<shAgent, shTimer, shFile, shSince>> /\ UNCHANGED serverVars
    BY <1>8 DEF WriteFails
  <2>2. /\ shWrite' \in [Writes -> Age \cup {None}]
        /\ \A v \in Writes : shWrite'[v] \in {shWrite[v], None}
    BY <1>t, <2>1
  <2>3. ShopTypeOK'
    BY <1>t, <2>1, <2>2 DEF ShopTypeOK, serverVars
  <2>4. shAgent' = "absent" => ~shTimer' /\ \A v \in Writes : shWrite'[v] = None
    BY <1>0, <2>1, <2>2
  <2> QED BY <1>a, <2>1, <2>2, <2>3, <2>4 DEF serverVars
<1>9. CASE BootLoads
  <2>1. ShopTypeOK'
    BY <1>t, <1>9 DEF ShopTypeOK, BootLoads, agentVars
  <2> QED BY <1>s, <1>9, <2>1 DEF BootLoads
<1>10. CASE BootListens
  <2>1. ShopTypeOK'
    BY <1>b, <1>t, <1>10 DEF ShopTypeOK, BootListens, agentVars
  <2> QED BY <1>s, <1>10, <2>1 DEF BootListens
<1>11. CASE Notify
  <2>1. ShopTypeOK'
    BY <1>t, <1>v, <1>11 DEF ShopTypeOK, Notify, agentVars
  <2> QED BY <1>s, <1>11, <2>1 DEF Notify
<1>12. CASE CloseBegins \/ CloseDrops
  <2>1. ShopTypeOK'
    BY <1>t, <1>12 DEF ShopTypeOK, CloseBegins, CloseDrops, agentVars
  <2> QED BY <1>s, <1>12, <2>1 DEF CloseBegins, CloseDrops
<1>13. CASE CloseEnds
  <2>1. ShopTypeOK'
    BY <1>t, <1>13 DEF ShopTypeOK, CloseEnds, agentVars
  <2> QED BY <1>s, <1>13, <2>1 DEF CloseEnds
<1>14. ASSUME NEW c \in Clients, Connect(c) \/ Disconnect(c) PROVE LinkInv'
  <2>1. /\ UNCHANGED agentVars /\ UNCHANGED <<shServer, shMem, shReload, shChange, shLast, shTicked>>
        /\ shSeen' \in [Clients -> {"off", "wired", "none"}]
    BY <1>14, <1>b, <1>t DEF Connect, Disconnect
  <2>2. ShopTypeOK'
    BY <1>t, <2>1 DEF ShopTypeOK, agentVars
  <2> QED BY <1>s, <2>1, <2>2
<1>15. ASSUME NEW r \in Reloads, WatcherFires(r) PROVE LinkInv'
  <2>1. /\ UNCHANGED agentVars /\ UNCHANGED <<shServer, shMem, shLast, shTicked, shSeen>>
        /\ shChange' = FALSE /\ shReload' = [shReload EXCEPT ![r] = shFile]
    BY <1>15 DEF WatcherFires
  <2>2. /\ shReload' \in [Reloads -> Age \cup {None, Idle}]
        /\ \A q \in Reloads : shReload'[q] \in {shReload[q], shFile}
    BY <1>t, <2>1
  <2>3. ShopTypeOK'
    BY <1>t, <2>1, <2>2 DEF ShopTypeOK, agentVars
  <2> QED BY <1>s, <2>1, <2>2, <2>3
<1>16. ASSUME NEW r \in Reloads, ReloadApplies(r) PROVE LinkInv'
  <2>1. /\ UNCHANGED agentVars /\ UNCHANGED <<shServer, shChange, shLast, shTicked>>
        /\ shReload[r] # Idle /\ shMem' = shReload[r] /\ shReload' = [shReload EXCEPT ![r] = Idle]
        /\ shSeen' \in [Clients -> {"off", "wired", "none"}]
    BY <1>16, <1>v DEF ReloadApplies
  <2>2. /\ shReload' \in [Reloads -> Age \cup {None, Idle}] /\ shMem' \in Age \cup {None}
        /\ \A q \in Reloads : shReload'[q] \in {shReload[q], Idle}
    BY <1>t, <2>1
  <2>3. ShopTypeOK'
    BY <1>t, <2>1, <2>2 DEF ShopTypeOK, agentVars
  <2> QED BY <1>s, <2>1, <2>2, <2>3
<1>17. CASE FreshnessTick
  <2>1. /\ UNCHANGED agentVars /\ UNCHANGED <<shServer, shMem, shReload, shChange>>
        /\ shLast' \in BOOLEAN /\ shTicked' = TRUE /\ shSeen' \in [Clients -> {"off", "wired", "none"}]
    BY <1>17, <1>b, <1>t, <1>v DEF FreshnessTick
  <2>2. ShopTypeOK'
    BY <1>t, <2>1 DEF ShopTypeOK, agentVars
  <2> QED BY <1>s, <2>1, <2>2
<1>18. CASE TimePasses
  <2>1. /\ shTicked' = ~Watching /\ UNCHANGED <<shAgent, shTimer, shServer, shChange, shLast, shSeen>>
        /\ shWrite' = [w \in Writes |-> Older(shWrite[w])] /\ shFile' = Older(shFile)
        /\ shMem' = Older(shMem) /\ shReload' = [r \in Reloads |-> Older(shReload[r])]
        /\ shSince' = IF shAgent = "absent" THEN Older(shSince) ELSE 0
    BY <1>18 DEF TimePasses
  <2>2. \A a : /\ a \in Age \cup {None} => Older(a) \in Age \cup {None}
               /\ a \in Age \cup {None, Idle} => Older(a) \in Age \cup {None, Idle}
               /\ Older(a) \in Age => a \in Age
    BY OlderAge
  <2>3. ShopTypeOK'
    <3>1. shWrite' \in [Writes -> Age \cup {None}] /\ shReload' \in [Reloads -> Age \cup {None, Idle}]
      BY <1>t, <2>1, <2>2
    <3>2. shFile' \in Age \cup {None} /\ shMem' \in Age \cup {None} /\ shSince' \in Age
      BY <1>t, <2>1, <2>2, OlderAge, MarksNoAge
    <3>3. shTicked' \in BOOLEAN
      BY <2>1 DEF Watching
    <3> QED BY <1>t, <2>1, <3>1, <3>2, <3>3 DEF ShopTypeOK
  <2>4. \A a : NotBefore(a) /\ Older(a) \in Age => shSince' <= Older(a)
    <3> SUFFICES ASSUME NEW a, NotBefore(a), Older(a) \in Age PROVE shSince' <= Older(a)
      OBVIOUS
    <3>1. a \in Age /\ shSince <= a
      BY <2>2 DEF NotBefore
    <3>2. CASE shAgent = "absent"
      BY <1>t, <2>1, <3>1, <3>2, OlderAge
    <3>3. CASE shAgent # "absent"
      BY <2>1, <3>3, MarksNoAge
    <3> QED BY <3>2, <3>3
  <2>5. NotBefore(shFile)' /\ NotBefore(shMem)'
    BY <1>0, <2>1, <2>4 DEF NotBefore
  <2>6. (\A w \in Writes : NotBefore(shWrite[w])') /\ \A r \in Reloads : NotBefore(shReload[r])'
    BY <1>0, <2>1, <2>4 DEF NotBefore
  <2>7. shAgent' # "absent" => shSince' = 0
    BY <2>1
  <2>8. shAgent' = "absent" => ~shTimer' /\ \A w \in Writes : shWrite'[w] = None
    BY <1>0, <2>1, OlderAge, MarksNoAge
  <2> QED BY <2>3, <2>5, <2>6, <2>7, <2>8 DEF LinkInv
<1> QED BY <1>1, <1>2, <1>3, <1>4, <1>5, <1>6, <1>7, <1>8, <1>9, <1>10, <1>11, <1>12, <1>13,
           <1>14, <1>15, <1>16, <1>17, <1>18 DEF ShopNext, ServerStep

LEMMA LinkShown == LinkInv => ShopTypeOK /\ WiredMeansAlive
<1> SUFFICES ASSUME LinkInv, getWiring(shMem) = "wired" PROVE ShopTypeOK /\ shSince < StaleAfter
  BY DEF LinkInv, WiredMeansAlive
<1>1. ShopTypeOK /\ shMem \in Age /\ shMem < StaleAfter /\ shSince <= shMem
  BY DEF LinkInv, ShopTypeOK, NotBefore, getWiring, isHeartbeatFresh
<1> QED BY <1>1, ShopAssumption DEF ShopTypeOK, Age

-----------------------------------------------------------------------------
(* Plate                                                                   *)

LEMMA AddBenchDoes ==
  ASSUME NEW fa \in FrameAncestors
  PROVE  /\ AddBench(fa) \in FrameAncestors /\ (AddBench(fa) = NotSent \/ "bench" \in AddBench(fa))
         /\ fa # {"none"} => fa \subseteq AddBench(fa)
<1>1. fa = NotSent \/ "bench" \in fa => AddBench(fa) = fa
  BY DEF AddBench
<1>2. fa = {"none"} => AddBench(fa) = {"bench"}
  BY DEF AddBench, NotSent
<1>3. fa = {"self"} => AddBench(fa) = {"self", "bench"}
  BY DEF AddBench, NotSent
<1>4. fa = {"none", "self"} => AddBench(fa) = {"none", "self", "bench"}
  BY DEF AddBench, NotSent
<1>5. fa \in {NotSent, {"none"}, {"self"}, {"none", "self"}} \/ "bench" \in fa
  BY DEF FrameAncestors
<1> QED BY <1>1, <1>2, <1>3, <1>4, <1>5 DEF FrameAncestors

LEMMA AddSelfDoes ==
  ASSUME NEW ss \in ScriptSrc
  PROVE  /\ AddSelf(ss) \in ScriptSrc
         /\ (AddSelf(ss) = NotSent \/ AddSelf(ss) \cap {"self", "star"} # {})
         /\ ss \subseteq AddSelf(ss)
<1>1. ss = NotSent \/ "self" \in ss \/ "star" \in ss => AddSelf(ss) = ss
  BY DEF AddSelf
<1>2. ss = {"none"} => AddSelf(ss) = {"none", "self"}
  BY DEF AddSelf, NotSent
<1>3. ss \in {NotSent, {"none"}} \/ "self" \in ss \/ "star" \in ss
  BY DEF ScriptSrc
<1> QED BY <1>1, <1>2, <1>3 DEF ScriptSrc

\* What an app's page gets, and what is said of it.
LEMMA RewriteDoes ==
  ASSUME NEW h \in PlateHeaders
  PROVE  LET g == rewriteHeaders(h).headers
             told == rewriteHeaders(h).changes
         IN /\ g \in PlateHeaders /\ told \subseteq Rules
            /\ ~g.xfo
            /\ g.fa = NotSent \/ "bench" \in g.fa
            /\ g.ss = NotSent \/ g.ss \cap {"self", "star"} # {}
            /\ h.fa # {"none"} => h.fa \subseteq g.fa
            /\ h.ss \subseteq g.ss
            /\ told = {r \in Rules : \/ r = "x-frame-options" /\ g.xfo # h.xfo
                                     \/ r = "frame-ancestors" /\ g.fa # h.fa
                                     \/ r = "script-src" /\ g.ss # h.ss}
<1> DEFINE g == rewriteHeaders(h).headers
           told == rewriteHeaders(h).changes
<1>1. h.xfo \in BOOLEAN /\ h.fa \in FrameAncestors /\ h.ss \in ScriptSrc
  BY DEF PlateHeaders
<1>2. g = [xfo |-> FALSE, fa |-> AddBench(h.fa), ss |-> AddSelf(h.ss)]
  BY DEF PlateHeaders, rewriteHeaders
<1>3. told = {r \in Rules : \/ r = "x-frame-options" /\ h.xfo
                            \/ r = "frame-ancestors" /\ AddBench(h.fa) # h.fa
                            \/ r = "script-src" /\ AddSelf(h.ss) # h.ss}
  BY DEF rewriteHeaders
<1>4. /\ AddBench(h.fa) \in FrameAncestors
      /\ (AddBench(h.fa) = NotSent \/ "bench" \in AddBench(h.fa))
      /\ h.fa # {"none"} => h.fa \subseteq AddBench(h.fa)
  BY <1>1, AddBenchDoes
<1>5. /\ AddSelf(h.ss) \in ScriptSrc
      /\ (AddSelf(h.ss) = NotSent \/ AddSelf(h.ss) \cap {"self", "star"} # {})
      /\ h.ss \subseteq AddSelf(h.ss)
  BY <1>1, AddSelfDoes
<1>6. g.xfo = FALSE /\ g.fa = AddBench(h.fa) /\ g.ss = AddSelf(h.ss) /\ g \in PlateHeaders
  BY <1>2, <1>4, <1>5 DEF PlateHeaders
<1> HIDE DEF g, told
<1>7. told = {r \in Rules : \/ r = "x-frame-options" /\ g.xfo # h.xfo
                            \/ r = "frame-ancestors" /\ g.fa # h.fa
                            \/ r = "script-src" /\ g.ss # h.ss}
  BY <1>1, <1>3, <1>6
<1>8. told \subseteq Rules
  BY <1>7
<1> QED BY <1>4, <1>5, <1>6, <1>7, <1>8 DEF g, told

Waiting == [at : {"none", "refused", "arrived", "fixture", "loupe", "no-target", "unreachable"}]
Sent == [at : {"proxied"}, to : PlTargets]

Honest(call) ==
  call.at = "answered" =>
    LET h == plPolicy
        g == call.got
    IN /\ ~g.xfo
       /\ g.fa = NotSent \/ "bench" \in g.fa
       /\ g.ss = NotSent \/ g.ss \cap {"self", "star"} # {}
       /\ h.fa # {"none"} => h.fa \subseteq g.fa
       /\ h.ss \subseteq g.ss
       /\ call.told = {r \in Rules : \/ r = "x-frame-options" /\ g.xfo # h.xfo
                                     \/ r = "frame-ancestors" /\ g.fa # h.fa
                                     \/ r = "script-src" /\ g.ss # h.ss}
       /\ call.kind.encoding = "broken" => call.label = "broken" /\ ~call.loupe

PlateInv == PlateTypeOK /\ \A c \in PlCalls : Honest(plCall[c])

LEMMA PlateBegins == PlateInit => PlateInv
<1> SUFFICES ASSUME PlateInit PROVE PlateInv
  OBVIOUS
<1>1. NoAnswer \in Waiting /\ NoAnswer.at = "none"
  BY DEF NoAnswer, Waiting
<1>2. PlateTypeOK
  BY <1>1 DEF PlateInit, PlateTypeOK, Waiting
<1> QED BY <1>1, <1>2 DEF PlateInit, PlateInv, Honest

\* A step keeps what is promised, and a request is only served after it passed the gate.
LEMMA PlateStep ==
  ASSUME PlateInv, PlateNext
  PROVE  PlateInv' /\ GateFirst
<1>t. /\ plTarget \in PlTargets \cup {NoTarget} /\ plFixture \in BOOLEAN
      /\ plCall \in [PlCalls -> Waiting \cup Sent \cup Answers]
      /\ plPolicy \in PlateHeaders /\ plChanges \subseteq Rules
      /\ plSockets \subseteq PlCalls /\ plTracked \subseteq PlCalls
      /\ plProbe \in PlTargets \cup {NoTarget} /\ plServer \in {"open", "closing", "closed"}
      /\ \A c \in PlCalls : Honest(plCall[c])
  BY DEF PlateInv, PlateTypeOK, Waiting, Sent
\* One request moves on.
<1>c. ASSUME NEW c \in PlCalls, NEW new \in Waiting \cup Sent \cup Answers,
             plCall' = [plCall EXCEPT ![c] = new], Honest(new), plChanges' \subseteq Rules,
             \/ plCall[c].at = "arrived"
             \/ new.at \notin {"fixture", "proxied", "loupe", "no-target"},
             UNCHANGED <<plTarget, plFixture, plPolicy, plSockets, plTracked, plProbe, plServer>>
      PROVE  PlateInv' /\ GateFirst
  <2>1. plCall'[c] = new /\ \A d \in PlCalls : d # c => plCall'[d] = plCall[d]
    BY <1>c, <1>t
  <2>2. plCall' \in [PlCalls -> Waiting \cup Sent \cup Answers]
    BY <1>c, <1>t
  <2>3. PlateTypeOK'
    BY <1>c, <1>t, <2>2 DEF PlateTypeOK, Waiting, Sent
  <2>4. \A d \in PlCalls : Honest(plCall[d])'
    <3> SUFFICES ASSUME NEW d \in PlCalls PROVE Honest(plCall[d])'
      OBVIOUS
    <3>1. plPolicy' = plPolicy /\ (Honest(plCall'[d]))
      BY <1>c, <1>t, <2>1
    <3> QED BY <3>1 DEF Honest
  <2>5. GateFirst
    BY <1>c, <2>1 DEF GateFirst
  <2> QED BY <2>3, <2>4, <2>5 DEF PlateInv
\* No request moves.
<1>s. ASSUME PlateTypeOK', UNCHANGED <<plCall, plPolicy>>
      PROVE  PlateInv' /\ GateFirst
  BY <1>s, <1>t DEF PlateInv, Honest, GateFirst
<1>w. \A at \in {"none", "refused", "arrived", "fixture", "loupe", "no-target", "unreachable"} :
        /\ [at |-> at] \in Waiting /\ [at |-> at].at = at /\ Honest([at |-> at])
  BY DEF Waiting, Honest
<1>1. ASSUME NEW c \in PlCalls, NEW own \in BOOLEAN, Arrive(c, own) PROVE PlateInv' /\ GateFirst
  <2> DEFINE at == IF own THEN "arrived" ELSE "refused"
             new == [at |-> at]
  <2>1. new \in Waiting /\ new.at = at /\ Honest(new) /\ at \in {"arrived", "refused"}
    BY <1>w
  <2>2. /\ plCall' = [plCall EXCEPT ![c] = new]
        /\ UNCHANGED <<plTarget, plFixture, plPolicy, plChanges, plSockets, plTracked, plProbe, plServer>>
    BY <1>1 DEF Arrive
  <2> HIDE DEF new, at
  <2> QED BY <1>c, <1>t, <2>1, <2>2
<1>2. ASSUME NEW c \in PlCalls, NEW url \in {"api", "page", "loupe"}, Dispatch(c, url)
      PROVE  PlateInv' /\ GateFirst
  <2> DEFINE new == IF url = "api" /\ plFixture THEN [at |-> "fixture"]
                    ELSE IF url = "loupe" THEN [at |-> "loupe"]
                    ELSE IF plTarget = NoTarget THEN [at |-> "no-target"]
                    ELSE [at |-> "proxied", to |-> plTarget]
  <2>1. /\ plCall[c].at = "arrived" /\ plCall' = [plCall EXCEPT ![c] = new]
        /\ UNCHANGED <<plTarget, plFixture, plPolicy, plChanges, plSockets, plTracked, plProbe, plServer>>
    BY <1>2 DEF Dispatch
  <2>2. new \in Waiting \cup Sent /\ Honest(new)
    BY <1>t DEF Waiting, Sent, Honest
  <2> HIDE DEF new
  <2> QED BY <1>c, <1>t, <2>1, <2>2
<1>3. ASSUME NEW c \in PlCalls, NEW k \in Kinds, ProxyAnswers(c, k) PROVE PlateInv' /\ GateFirst
  <2> DEFINE g == rewriteHeaders(plPolicy).headers
             told == rewriteHeaders(plPolicy).changes
             new == [at |-> "answered", kind |-> k, got |-> g, told |-> told,
                     label |-> Labelled(k), loupe |-> Injected(k)]
  <2>1. /\ plCall' = [plCall EXCEPT ![c] = new] /\ plChanges' = told
        /\ UNCHANGED <<plTarget, plFixture, plPolicy, plSockets, plTracked, plProbe, plServer>>
    BY <1>3 DEF ProxyAnswers
  <2>2. /\ g \in PlateHeaders /\ told \subseteq Rules
        /\ ~g.xfo
        /\ g.fa = NotSent \/ "bench" \in g.fa
        /\ g.ss = NotSent \/ g.ss \cap {"self", "star"} # {}
        /\ plPolicy.fa # {"none"} => plPolicy.fa \subseteq g.fa
        /\ plPolicy.ss \subseteq g.ss
        /\ told = {r \in Rules : \/ r = "x-frame-options" /\ g.xfo # plPolicy.xfo
                                 \/ r = "frame-ancestors" /\ g.fa # plPolicy.fa
                                 \/ r = "script-src" /\ g.ss # plPolicy.ss}
    BY <1>t, RewriteDoes
  <2>3. /\ Labelled(k) \in {"identity", "gzip", "broken", "unknown"} /\ Injected(k) \in BOOLEAN
        /\ k.encoding = "broken" => Labelled(k) = "broken" /\ ~Injected(k)
    BY DEF Kinds, Labelled, Injected, Decoded
  <2> HIDE DEF g, told
  <2>4. new \in Answers /\ new.at = "answered"
    BY <2>2, <2>3 DEF Answers
  <2>5. Honest(new)
    BY <2>2, <2>3 DEF Honest
  <2> HIDE DEF new
  <2> QED BY <1>c, <2>1, <2>2, <2>4, <2>5
<1>4. ASSUME NEW c \in PlCalls, ProxyError(c) PROVE PlateInv' /\ GateFirst
  <2> DEFINE new == [at |-> "unreachable"]
  <2>1. new \in Waiting /\ new.at = "unreachable" /\ Honest(new)
    BY <1>w
  <2>2. /\ plCall' = [plCall EXCEPT ![c] = new]
        /\ UNCHANGED <<plTarget, plFixture, plPolicy, plChanges, plSockets, plTracked, plProbe, plServer>>
    BY <1>4 DEF ProxyError
  <2> HIDE DEF new
  <2> QED BY <1>c, <1>t, <2>1, <2>2
<1>5. ASSUME NEW c \in PlCalls, Finish(c) PROVE PlateInv' /\ GateFirst
  <2>1. NoAnswer \in Waiting /\ NoAnswer.at = "none" /\ Honest(NoAnswer)
    BY <1>w DEF NoAnswer
  <2>2. /\ plCall' = [plCall EXCEPT ![c] = NoAnswer]
        /\ UNCHANGED <<plTarget, plFixture, plPolicy, plChanges, plSockets, plTracked, plProbe, plServer>>
    BY <1>5 DEF Finish
  <2> QED BY <1>c, <1>t, <2>1, <2>2
<1>6. ASSUME NEW c \in PlCalls, Upgrade(c) \/ SocketCloses(c) PROVE PlateInv' /\ GateFirst
  <2>1. PlateTypeOK'
    BY <1>6, <1>t DEF PlateTypeOK, Waiting, Sent, Upgrade, SocketCloses
  <2> QED BY <1>6, <1>s, <2>1 DEF Upgrade, SocketCloses
<1>7. ASSUME \/ \E t \in PlTargets : PlateStart(t)
             \/ FixtureTurns
             \/ GetStatus
      PROVE  PlateInv' /\ GateFirst
  <2>1. PlateTypeOK'
    BY <1>7, <1>t DEF PlateTypeOK, Waiting, Sent, PlateStart, FixtureTurns, GetStatus
  <2> QED BY <1>7, <1>s, <2>1 DEF PlateStart, FixtureTurns, GetStatus
<1>8. ASSUME NEW up \in BOOLEAN, ProbeAnswers(up) PROVE PlateInv' /\ GateFirst
  <2>1. rewriteHeaders(plPolicy).changes \subseteq Rules
    BY <1>t, RewriteDoes
  <2>2. PlateTypeOK'
    BY <1>8, <1>t, <2>1 DEF PlateTypeOK, Waiting, Sent, ProbeAnswers
  <2> QED BY <1>8, <1>s, <2>2 DEF ProbeAnswers
<1>9. ASSUME PlateClose \/ PlateClosed PROVE PlateInv' /\ GateFirst
  <2>1. PlateTypeOK'
    BY <1>9, <1>t DEF PlateTypeOK, Waiting, Sent, PlateClose, PlateClosed
  <2> QED BY <1>9, <1>s, <2>1 DEF PlateClose, PlateClosed
<1> QED BY <1>1, <1>2, <1>3, <1>4, <1>5, <1>6, <1>7, <1>8, <1>9 DEF PlateNext, PlateServes, AppAnswers

LEMMA PlateShown == PlateInv => PlateTypeOK /\ EmbedHonest
BY DEF PlateInv, Honest, EmbedHonest

-----------------------------------------------------------------------------
(* FixtureData: answers are looked up by the first key that matches; what  *)
(* the schema walk returns is compared with the chains without repetition. *)

DataInv ==
  /\ fdEndpoints \in Seq(Endpoints) /\ fdRequest \in PlateRequests
  /\ fdGraph \in [Refs -> SUBSET (Refs \cup {UnknownRef})]

LEMMA DataStart == FixtureDataInit => DataInv
<1> SUFFICES ASSUME FixtureDataInit PROVE DataInv
  OBVIOUS
<1>1. fdRequest \in PlateRequests
  BY DEF FixtureDataInit, PlateRequests
<1>2. fdGraph \in [Refs -> SUBSET (Refs \cup {UnknownRef})]
  BY DEF FixtureDataInit
<1>3. fdEndpoints \in Seq(Endpoints)
  <2>1. CASE fdEndpoints = <<>>
    BY <2>1
  <2>2. ASSUME NEW n \in 1 .. MaxEndpoints, fdEndpoints \in [1 .. n -> Endpoints]
        PROVE  fdEndpoints \in Seq(Endpoints)
    BY <2>2
  <2> QED BY <2>1, <2>2 DEF FixtureDataInit
<1> QED BY <1>1, <1>2, <1>3 DEF DataInv

LEMMA DataStep == DataInv /\ FixtureDataNext => DataInv'
BY DEF DataInv, FixtureDataNext, NextRequest

LEMMA KeysAre ==
  ASSUME DataInv
  PROVE  /\ Answered \in SUBSET (1 .. Len(fdEndpoints)) /\ Len(fdEndpoints) \in Nat
         /\ \A i \in Answered : /\ Keys[i] = [method |-> fdEndpoints[i].method, path |-> fdEndpoints[i].path]
                                /\ Keys[i].method \in {"GET", "POST"} /\ Keys[i].path \in Templates
                                /\ fdEndpoints[i].shape \in Shapes
<1>1. fdEndpoints \in Seq(Endpoints)
  BY DEF DataInv
<1>2. /\ DOMAIN fdEndpoints = 1 .. Len(fdEndpoints) /\ Len(fdEndpoints) \in Nat
      /\ \A i \in 1 .. Len(fdEndpoints) : fdEndpoints[i] \in Endpoints
  BY <1>1
<1> QED BY <1>2 DEF Answered, Keys, KeyOf, Endpoints

\* The key an answer comes from exists when any key matches.
LEMMA FirstIsThere ==
  ASSUME DataInv, NEW req, NEW method, NEW k \in Answered, Matches(Keys[k], req, method)
  PROVE  FirstMatch(req, method) # {}
<1> DEFINE S == {i \in Answered : Matches(Keys[i], req, method)}
<1>1. S \in SUBSET Nat /\ S # {}
  BY KeysAre
<1>2. PICK i \in S : \A j \in S : i <= j
  BY <1>1, LeastOf
<1>3. \A j \in Answered : j < i => ~Matches(Keys[j], req, method)
  BY <1>1, <1>2, KeysAre
<1>4. Keys[i] \in DOMAIN generateFixture
  BY DEF generateFixture
<1> QED BY <1>3, <1>4 DEF FirstMatch

\* The answer of a key is that of the last endpoint that has it.
LEMMA LastIsThere ==
  ASSUME DataInv, NEW key \in DOMAIN generateFixture
  PROVE  generateFixture[key] \in Shapes
<1> DEFINE S == {i \in Answered : Keys[i] = key}
<1>1. S \in SUBSET (1 .. Len(fdEndpoints)) /\ S # {} /\ Len(fdEndpoints) \in Nat
  BY KeysAre DEF generateFixture
<1>2. Max(S) \in S /\ \A y \in S : Max(S) >= y
  BY <1>1, GreatestOf
<1>3. \E i \in Answered : Keys[i] = key /\ \A j \in Answered : Keys[j] = key => j <= i
  <2>1. \A y \in S : y \in Int
    BY <1>1
  <2> QED BY <1>2, <2>1
<1>4. LastAt(key) \in Answered
  BY <1>3 DEF LastAt
<1> QED BY <1>4, KeysAre DEF generateFixture

LEMMA FrontOfTwo ==
  ASSUME NEW x, NEW y
  PROVE  /\ Len(<<x, y>>) = 2 /\ <<x, y>>[2] = y
         /\ SubSeq(<<x, y>>, 1, 1) = <<x>>
<1> DEFINE p == <<x, y>>
           S == {x, y}
<1>1. p \in Seq(S) /\ Len(p) = 2 /\ p[1] = x /\ p[2] = y
  OBVIOUS
<1>2. <<x>> \in Seq(S) /\ Len(<<x>>) = 1 /\ <<x>>[1] = x
  OBVIOUS
<1> DEFINE a == SubSeq(p, 1, 1)
           b == <<x>>
<1> HIDE DEF p, S
<1>3. a \in Seq(S) /\ Len(a) = 1 /\ a[1] = x
  BY <1>1
<1>4. b \in Seq(S) /\ Len(b) = 1 /\ b[1] = x
  BY <1>2
<1> HIDE DEF a, b
<1>5. \A i \in 1 .. Len(a) : a[i] = b[i]
  BY <1>3, <1>4
<1>6. a = b
  BY <1>3, <1>4, <1>5, SeqEqual
<1> QED BY <1>1, <1>6 DEF p, a, b

LEMMA ItemsAgree ==
  ASSUME DataInv
  PROVE  ItemsAgreeWithList
<1> DEFINE m == fdRequest.method
           list == [method |-> m, path |-> <<"api">>]
           item == [method |-> m, path |-> <<"api", "param">>]
           id == fdRequest.path[2]
<1> SUFFICES ASSUME Len(fdRequest.path) = 2, m # "HEAD",
                    list \in DOMAIN generateFixture, item \in DOMAIN generateFixture,
                    generateFixture[list].kind = "list", id[1] = generateFixture[list].ref
             PROVE  createFixtureInterceptor(fdRequest).body = id
  BY DEF ItemsAgreeWithList
<1>0. fdRequest \in PlateRequests
  BY DEF DataInv
<1>1. generateFixture[list].ref \in Refs
  BY LastIsThere DEF Shapes
<1>2. PICK r \in Refs, n \in 1 .. ListSize : id = <<r, n>> /\ fdRequest.path = <<"api", id>>
  <2>1. PICK s \in EntityIds \cup {<<"number", 0>>, <<"word", 0>>} : fdRequest.path = <<"api", s>>
    BY <1>0 DEF PlateRequests
  <2>2. id = s
    BY <2>1
  <2>3. id # <<"number", 0>> /\ id # <<"word", 0>>
    BY <1>1, FixtureDataAssumption
  <2> QED BY <2>1, <2>2, <2>3 DEF EntityIds
<1>3. r = generateFixture[list].ref /\ Pool(r)[n] = id /\ id # <<"word", 0>>
  BY <1>1, <1>2, FixtureDataAssumption DEF Pool
<1>4. PICK k \in Answered : Keys[k] = item
  BY DEF generateFixture
<1>5. matchPath(<<"api", "param">>, fdRequest.path)
  BY <1>2, <1>3 DEF matchPath, isTemplateSegment
<1>6. Matches(Keys[k], fdRequest, m)
  BY <1>4, <1>5 DEF Matches
<1>7. FirstMatch(fdRequest, m) # {}
  BY <1>6, FirstIsThere
<1>8. ASSUME NEW key \in FirstMatch(fdRequest, m) PROVE key = item
  <2>1. PICK i \in Answered : Keys[i] = key
    BY DEF FirstMatch
  <2>2. key.method = m /\ matchPath(key.path, fdRequest.path) /\ key.path \in Templates
        /\ key = [method |-> fdEndpoints[i].method, path |-> fdEndpoints[i].path]
    BY <2>1, KeysAre DEF FirstMatch, Matches
  <2>3. key.path = <<"api", "param">>
    BY <2>2 DEF matchPath, Templates
  <2> QED BY <2>2, <2>3
<1>9. (CHOOSE key \in FirstMatch(fdRequest, m) : TRUE) = item
  BY <1>7, <1>8
<1>10. ItemOf(item, fdRequest) = id
  <2>1. Last(item.path) = "param" /\ Front(item.path) = <<"api">> /\ item.method = m
    <3> DEFINE p == <<"api", "param">>
    <3>0. item.path = p /\ item.method = m
      OBVIOUS
    <3>1. p[2] = "param" /\ Len(p) = 2 /\ SubSeq(p, 1, 1) = <<"api">>
      BY FrontOfTwo
    <3> HIDE DEF p, item
    <3>4. Front(p) = SubSeq(p, 1, 1) /\ Last(p) = "param"
      BY <3>1 DEF Front, Last
    <3> QED BY <3>0, <3>1, <3>4
  <2>2. parentListKey(item) = list
    BY <2>1 DEF parentListKey
  <2>3. Last(fdRequest.path) = id
    BY <1>2 DEF Last
  <2> HIDE DEF item, list, id
  <2> QED BY <1>3, <2>1, <2>2, <2>3 DEF ItemOf, isTemplateSegment
<1>11. PayloadFor(fdRequest, m) = [served |-> TRUE, body |-> ItemOf(item, fdRequest)]
  <2> HIDE DEF item
  <2> QED BY <1>7, <1>9 DEF PayloadFor
<1>12. PayloadFor(fdRequest, m).body = id
  BY <1>10, <1>11
<1> QED BY <1>12 DEF createFixtureInterceptor

LEMMA PayloadDeclines ==
  ASSUME NEW req, NEW method
  PROVE  (PayloadFor(req, method) = Declined) = (FirstMatch(req, method) = {})
<1>1. \A x : [served |-> TRUE, body |-> x] # Declined
  BY DEF Declined
<1> QED BY <1>1 DEF PayloadFor

LEMMA ProofAnswered ==
  ASSUME DataInv
  PROVE  ProofIsAnswered
<1>0. [served |-> TRUE] # Declined
  BY DEF Declined
<1>1. ASSUME ProbeKeys # {}
      PROVE  createFixtureInterceptor([method |-> "HEAD", path |-> <<"api">>]) # Declined
  <2> DEFINE req == [method |-> "HEAD", path |-> <<"api">>]
  <2>1. PICK k \in Answered : Keys[k].method = "GET" /\ Keys[k].path = <<"api">>
    BY <1>1 DEF ProbeKeys, generateFixture
  <2>2. matchPath(<<"api">>, <<"api">>)
    BY DEF matchPath, isTemplateSegment
  <2>3. req.method = "HEAD" /\ req.path = <<"api">>
    OBVIOUS
  <2> HIDE DEF req
  <2>4. Matches(Keys[k], req, "GET")
    BY <2>1, <2>2, <2>3 DEF Matches
  <2>5. PayloadFor(req, "GET") # Declined
    BY <2>4, FirstIsThere, PayloadDeclines
  <2>6. createFixtureInterceptor(req) # Declined
    BY <1>0, <2>3, <2>5 DEF createFixtureInterceptor
  <2> QED BY <2>6 DEF req
<1>2. ASSUME fdRequest.method = "HEAD"
      PROVE  createFixtureInterceptor(fdRequest) = Declined
               <=> createFixtureInterceptor([fdRequest EXCEPT !.method = "GET"]) = Declined
  <2> DEFINE get == [fdRequest EXCEPT !.method = "GET"]
  <2>1. get.method = "GET" /\ get.path = fdRequest.path
    BY DEF DataInv, PlateRequests
  <2> HIDE DEF get
  <2>2. \A key : Matches(key, get, "GET") = Matches(key, fdRequest, "GET")
    BY <2>1 DEF Matches
  <2>3. FirstMatch(get, "GET") = FirstMatch(fdRequest, "GET")
    BY <2>2 DEF FirstMatch
  <2>4. (createFixtureInterceptor(get) = Declined) = (PayloadFor(get, "GET") = Declined)
    BY <2>1 DEF createFixtureInterceptor
  <2>5. (createFixtureInterceptor(fdRequest) = Declined) = (PayloadFor(fdRequest, "GET") = Declined)
    BY <1>0, <1>2 DEF createFixtureInterceptor
  <2>6. (PayloadFor(get, "GET") = Declined) = (PayloadFor(fdRequest, "GET") = Declined)
    BY <2>3, PayloadDeclines
  <2>7. (createFixtureInterceptor(fdRequest) = Declined) = (createFixtureInterceptor(get) = Declined)
    BY <2>4, <2>5, <2>6
  <2> QED BY <2>7 DEF get
<1> QED BY <1>1, <1>2 DEF ProofIsAnswered

\* The chains the walk from one name returns, given the names it has seen: along references,
\* to names not seen before, none of them twice.
Chains(p) ==
  {s \in Seq(Refs) :
     /\ s # <<>> /\ s[1] = p[1]
     /\ \A i \in 1 .. Len(s) - 1 : s[i + 1] \in fdGraph[s[i]]
     /\ \A i \in 2 .. Len(s) : s[i] \notin p[2]
     /\ \A i, j \in 2 .. Len(s) : s[i] = s[j] => i = j}

Onward(p) == (fdGraph[p[1]] \cap Refs) \ p[2]
Further(p, r) == <<r, p[2] \cup {r}>>

LEMMA ChainGrows ==
  ASSUME NEW p \in Refs \X SUBSET Refs, NEW r \in Onward(p), NEW t \in Chains(Further(p, r))
  PROVE  <<p[1]>> \o t \in Chains(p)
<1> DEFINE s == <<p[1]>> \o t
<1>1. /\ t \in Seq(Refs) /\ t # <<>> /\ t[1] = r /\ r \in Refs /\ r \notin p[2] /\ r \in fdGraph[p[1]]
      /\ \A i \in 1 .. Len(t) - 1 : t[i + 1] \in fdGraph[t[i]]
      /\ \A i \in 2 .. Len(t) : t[i] \notin p[2] \cup {r}
      /\ \A i, j \in 2 .. Len(t) : t[i] = t[j] => i = j
  BY DEF Chains, Onward, Further
<1>2. Len(t) \in Nat \ {0}
  BY <1>1, EmptySeq
<1>3. p[1] \in Refs
  OBVIOUS
<1>4. /\ s \in Seq(Refs) /\ Len(s) = Len(t) + 1 /\ s[1] = p[1]
      /\ \A i \in 2 .. Len(s) : s[i] = t[i - 1]
  BY <1>1, <1>2, <1>3
<1> HIDE DEF s
<1>5. ASSUME NEW i \in 1 .. Len(s) - 1 PROVE s[i + 1] \in fdGraph[s[i]]
  <2>1. CASE i = 1
    BY <1>1, <1>2, <1>4, <2>1
  <2>2. CASE i # 1
    <3>1. i - 1 \in 1 .. Len(t) - 1 /\ i \in 2 .. Len(s) /\ i + 1 \in 2 .. Len(s) /\ (i - 1) + 1 = i
      BY <1>2, <1>4, <2>2
    <3>2. s[i + 1] = t[i] /\ s[i] = t[i - 1]
      BY <1>4, <3>1
    <3> QED BY <1>1, <3>1, <3>2
  <2> QED BY <2>1, <2>2
<1>6. ASSUME NEW i \in 2 .. Len(s) PROVE s[i] \notin p[2] /\ (i # 2 => s[i] # r) /\ s[2] = r
  <2>1. i - 1 \in 1 .. Len(t) /\ s[i] = t[i - 1]
    BY <1>2, <1>4
  <2>2. 2 \in 2 .. Len(s) /\ s[2] = t[1]
    BY <1>2, <1>4
  <2>3. i # 2 => i - 1 \in 2 .. Len(t)
    BY <2>1
  <2> QED BY <1>1, <2>1, <2>2, <2>3
<1>7. ASSUME NEW i \in 2 .. Len(s), NEW j \in 2 .. Len(s), s[i] = s[j] PROVE i = j
  <2>1. i = 2 \/ j = 2 => i = j
    BY <1>6, <1>7
  <2>2. ASSUME i # 2, j # 2 PROVE i = j
    <3>1. i - 1 \in 2 .. Len(t) /\ j - 1 \in 2 .. Len(t) /\ t[i - 1] = t[j - 1]
      BY <1>2, <1>4, <1>7, <2>2
    <3>2. i - 1 = j - 1
      BY <1>1, <3>1
    <3> QED BY <3>2
  <2> QED BY <2>1, <2>2
<1>8. s # <<>>
  BY <1>2, <1>4
<1> QED BY <1>4, <1>5, <1>6, <1>7, <1>8 DEF Chains, s

LEMMA ChainShrinks ==
  ASSUME NEW p \in Refs \X SUBSET Refs, NEW s \in Chains(p), s # <<p[1]>>
  PROVE  \E r \in Onward(p) : \E t \in Chains(Further(p, r)) : s = <<p[1]>> \o t
<1>1. /\ s \in Seq(Refs) /\ s # <<>> /\ s[1] = p[1]
      /\ \A i \in 1 .. Len(s) - 1 : s[i + 1] \in fdGraph[s[i]]
      /\ \A i \in 2 .. Len(s) : s[i] \notin p[2]
      /\ \A i, j \in 2 .. Len(s) : s[i] = s[j] => i = j
  BY DEF Chains
<1>2. Len(s) \in Nat /\ Len(s) > 1
  <2>1. Len(s) \in Nat \ {0}
    BY <1>1, EmptySeq
  <2>2. Len(s) = 1 => s = <<p[1]>>
    BY <1>1
  <2> QED BY <2>1, <2>2
<1> DEFINE t == Tail(s)
           r == s[2]
<1>3. t \in Seq(Refs) /\ Len(t) = Len(s) - 1 /\ \A i \in 1 .. Len(t) : t[i] = s[i + 1]
  BY <1>1, HeadTailProperties
<1>4. r \in Onward(p) /\ p[1] \in Refs
  <2>1. 2 \in 2 .. Len(s) /\ 1 \in 1 .. Len(s) - 1 /\ r \in Refs
    BY <1>1, <1>2
  <2> QED BY <1>1, <2>1 DEF Onward
<1> HIDE DEF t
<1>5. \A i \in 1 .. Len(t) - 1 : t[i + 1] \in fdGraph[t[i]]
  <2> SUFFICES ASSUME NEW i \in 1 .. Len(t) - 1 PROVE t[i + 1] \in fdGraph[t[i]]
    OBVIOUS
  <2>1. i \in 1 .. Len(t) /\ i + 1 \in 1 .. Len(t) /\ i + 1 \in 1 .. Len(s) - 1
    BY <1>2, <1>3
  <2> QED BY <1>1, <1>3, <2>1
<1>6. \A i \in 2 .. Len(t) : t[i] \notin p[2] \cup {r}
  <2> SUFFICES ASSUME NEW i \in 2 .. Len(t) PROVE t[i] \notin p[2] \cup {r}
    OBVIOUS
  <2>1. i \in 1 .. Len(t) /\ i + 1 \in 2 .. Len(s) /\ 2 \in 2 .. Len(s) /\ i + 1 # 2
    BY <1>2, <1>3
  <2> QED BY <1>1, <1>3, <2>1
<1>7. \A i, j \in 2 .. Len(t) : t[i] = t[j] => i = j
  <2> SUFFICES ASSUME NEW i \in 2 .. Len(t), NEW j \in 2 .. Len(t), t[i] = t[j] PROVE i = j
    OBVIOUS
  <2>0. i \in 1 .. Len(t) /\ j \in 1 .. Len(t) /\ i + 1 \in 2 .. Len(s) /\ j + 1 \in 2 .. Len(s)
    BY <1>2, <1>3
  <2>1. i + 1 \in 2 .. Len(s) /\ j + 1 \in 2 .. Len(s) /\ s[i + 1] = s[j + 1]
    BY <1>3, <2>0
  <2>2. i + 1 = j + 1
    BY <1>1, <2>1
  <2> QED BY <2>2
<1>8. t # <<>> /\ t[1] = r
  <2>1. Len(t) \in Nat \ {0} /\ 1 \in 1 .. Len(t) /\ 1 + 1 = 2
    BY <1>2, <1>3
  <2>2. t[1] = s[1 + 1]
    BY <1>3, <2>1
  <2>3. t # <<>>
    BY <1>3, <2>1, EmptySeq
  <2> QED BY <2>1, <2>2, <2>3
<1> HIDE DEF r
<1>9. t \in Chains(Further(p, r))
  BY <1>3, <1>5, <1>6, <1>7, <1>8 DEF Chains, Further
<1>10. s = <<p[1]>> \o t
  <2> DEFINE u == <<p[1]>> \o t
  <2>1. u \in Seq(Refs) /\ Len(u) = Len(s) /\ \A i \in 1 .. Len(s) : u[i] = s[i]
    <3>1. Len(u) = Len(t) + 1 /\ u \in Seq(Refs) /\ u[1] = p[1] /\ \A i \in 2 .. Len(u) : u[i] = t[i - 1]
      BY <1>3, <1>4
    <3> HIDE DEF u
    <3>2. \A i \in 1 .. Len(s) : i = 1 \/ (i \in 2 .. Len(u) /\ i - 1 \in 1 .. Len(t) /\ (i - 1) + 1 = i)
      BY <1>2, <1>3, <3>1
    <3>3. Len(u) = Len(s)
      BY <1>2, <1>3, <3>1
    <3>4. ASSUME NEW i \in 1 .. Len(s) PROVE u[i] = s[i]
      <4>1. CASE i = 1
        BY <1>1, <3>1, <4>1
      <4>2. CASE i # 1
        <5>1. i \in 2 .. Len(u) /\ i - 1 \in 1 .. Len(t) /\ (i - 1) + 1 = i
          BY <3>2, <4>2
        <5>2. u[i] = t[i - 1] /\ t[i - 1] = s[(i - 1) + 1]
          BY <1>3, <3>1, <5>1
        <5> QED BY <5>1, <5>2
      <4> QED BY <4>1, <4>2
    <3> QED BY <3>1, <3>3, <3>4
  <2> HIDE DEF u
  <2>2. u = s
    BY <1>1, <2>1, SeqEqual
  <2> QED BY <2>2 DEF u
<1> QED BY <1>4, <1>9, <1>10

\* One level of the walk.
Walk(f, p) ==
  {<<p[1]>>} \cup
  UNION {{<<p[1]>> \o chain : chain \in f[<<r, p[2] \cup {r}>>]} :
           r \in (fdGraph[p[1]] \cap Refs) \ p[2]}

LEMMA WalkGivesChains ==
  ASSUME NEW p \in Refs \X SUBSET Refs, NEW f,
         \A r \in Onward(p) : f[Further(p, r)] = Chains(Further(p, r))
  PROVE  Walk(f, p) = Chains(p)
<1>1. <<p[1]>> \in Chains(p)
  <2> DEFINE one == <<p[1]>>
  <2>1. one \in Seq(Refs) /\ Len(one) = 1 /\ one[1] = p[1] /\ one # <<>>
    OBVIOUS
  <2> HIDE DEF one
  <2>2. (1 .. Len(one) - 1) = {} /\ (2 .. Len(one)) = {}
    BY <2>1
  <2>3. one \in Chains(p)
    BY <2>1, <2>2 DEF Chains
  <2> QED BY <2>3 DEF one
<1>2. ASSUME NEW s \in Walk(f, p) PROVE s \in Chains(p)
  <2>1. s = <<p[1]>> \/ \E r \in Onward(p) : \E t \in f[Further(p, r)] : s = <<p[1]>> \o t
    BY DEF Walk, Onward, Further
  <2> QED BY <1>1, <2>1, ChainGrows
<1>3. ASSUME NEW s \in Chains(p) PROVE s \in Walk(f, p)
  <2>1. s = <<p[1]>> \/ \E r \in Onward(p) : \E t \in f[Further(p, r)] : s = <<p[1]>> \o t
    BY ChainShrinks
  <2>2. ASSUME s = <<p[1]>> PROVE s \in Walk(f, p)
    BY <2>2 DEF Walk
  <2>3. ASSUME NEW r \in Onward(p), NEW t \in f[Further(p, r)], s = <<p[1]>> \o t PROVE s \in Walk(f, p)
    <3>1. r \in (fdGraph[p[1]] \cap Refs) \ p[2] /\ t \in f[<<r, p[2] \cup {r}>>]
      BY DEF Onward, Further
    <3>2. s \in {<<p[1]>> \o chain : chain \in f[<<r, p[2] \cup {r}>>]}
      BY <2>3, <3>1
    <3>3. {<<p[1]>> \o chain : chain \in f[<<r, p[2] \cup {r}>>]}
            \in {{<<p[1]>> \o chain : chain \in f[<<q, p[2] \cup {q}>>]} :
                   q \in (fdGraph[p[1]] \cap Refs) \ p[2]}
      BY <3>1, Zenon
    <3> QED BY <3>2, <3>3, Zenon DEF Walk
  <2> QED BY <2>1, <2>2, <2>3
<1> QED BY <1>2, <1>3

LEMMA FurtherIn ==
  ASSUME NEW p \in Refs \X SUBSET Refs, NEW r \in Onward(p)
  PROVE  /\ Further(p, r) \in Refs \X SUBSET Refs
         /\ Cardinality(Refs \ Further(p, r)[2]) < Cardinality(Refs \ p[2])
         /\ Cardinality(Refs \ p[2]) \in Nat /\ Cardinality(Refs \ Further(p, r)[2]) \in Nat
<1>1. r \in Refs /\ r \notin p[2] /\ p[2] \in SUBSET Refs
  BY DEF Onward
<1>2. Further(p, r) = <<r, p[2] \cup {r}>> /\ Further(p, r)[2] = p[2] \cup {r}
  BY DEF Further
<1>3. IsFiniteSet(Refs \ p[2])
  BY FixtureDataAssumption, FS_Difference
<1>4. Refs \ (p[2] \cup {r}) = (Refs \ p[2]) \ {r}
  OBVIOUS
<1>5. Cardinality((Refs \ p[2]) \ {r}) = Cardinality(Refs \ p[2]) - 1 /\ Cardinality(Refs \ p[2]) \in Nat
  BY <1>1, <1>3, FS_RemoveElement, FS_CardinalityType
<1>6. Cardinality((Refs \ p[2]) \ {r}) \in Nat
  BY <1>3, FS_RemoveElement, FS_CardinalityType
<1>7. Further(p, r) \in Refs \X SUBSET Refs
  BY <1>1, <1>2
<1>8. Refs \ Further(p, r)[2] = (Refs \ p[2]) \ {r}
  BY <1>2, <1>4
<1> HIDE DEF Further
<1>9. \A a, b \in Nat : a = b - 1 => a < b
  OBVIOUS
<1>10. Cardinality((Refs \ p[2]) \ {r}) < Cardinality(Refs \ p[2])
  BY <1>5, <1>6, <1>9
<1> QED BY <1>5, <1>6, <1>7, <1>8, <1>10

\* dereferenceSchema ends, and returns those chains, on every graph of references.
LEMMA WalkIsChains == \A p \in Refs \X SUBSET Refs : dereferenceSchema[p] = Chains(p)
<1> DEFINE D == Refs \X SUBSET Refs
           g == [p \in D |-> Chains(p)]
<1>1. \A p \in D : g[p] = Walk(g, p)
  <2> SUFFICES ASSUME NEW p \in D PROVE g[p] = Walk(g, p)
    OBVIOUS
  <2>1. \A r \in Onward(p) : g[Further(p, r)] = Chains(Further(p, r))
    BY FurtherIn
  <2> HIDE DEF g
  <2>2. Walk(g, p) = Chains(p)
    BY <2>1, WalkGivesChains
  <2> QED BY <2>2 DEF g
<1>2. g = [p \in D |-> Walk(g, p)]
  BY <1>1
<1> HIDE DEF g
<1>3. \E f : f = [p \in D |-> Walk(f, p)]
  BY <1>2
<1>4. dereferenceSchema = CHOOSE f : f = [p \in D |-> Walk(f, p)]
  BY DEF dereferenceSchema, Walk
<1>5. \A p \in D : dereferenceSchema[p] = Walk(dereferenceSchema, p)
  <2> DEFINE d == CHOOSE f : f = [p \in D |-> Walk(f, p)]
  <2>1. d = [p \in D |-> Walk(d, p)]
    BY <1>3
  <2> HIDE DEF d
  <2>2. \A p \in D : d[p] = Walk(d, p)
    BY <2>1
  <2>3. dereferenceSchema = d
    BY <1>4 DEF d
  <2> QED BY <2>2, <2>3
<1> SUFFICES ASSUME NEW q \in D, dereferenceSchema[q] # Chains(q) PROVE FALSE
  OBVIOUS
<1> DEFINE Rank(p) == Cardinality(Refs \ p[2])
           Bad == {n \in Nat : \E p \in D : n = Rank(p) /\ dereferenceSchema[p] # Chains(p)}
<1>6. \A p \in D : Rank(p) \in Nat
  BY FixtureDataAssumption, FS_Difference, FS_CardinalityType
<1>7. Bad \in SUBSET Nat /\ Bad # {}
  BY <1>6
<1>8. PICK n \in Bad : \A k \in Bad : n <= k
  BY <1>7, LeastOf
<1>9. PICK p \in D : n = Rank(p) /\ dereferenceSchema[p] # Chains(p)
  OBVIOUS
<1>10. \A r \in Onward(p) : dereferenceSchema[Further(p, r)] = Chains(Further(p, r))
  <2> SUFFICES ASSUME NEW r \in Onward(p), dereferenceSchema[Further(p, r)] # Chains(Further(p, r))
               PROVE  FALSE
    OBVIOUS
  <2>1. Further(p, r) \in D /\ Rank(Further(p, r)) < Rank(p) /\ Rank(Further(p, r)) \in Nat /\ Rank(p) \in Nat
    BY FurtherIn
  <2>2. Rank(Further(p, r)) \in Bad
    BY <2>1
  <2> HIDE DEF Bad, Rank
  <2> QED BY <1>8, <1>9, <2>1, <2>2
<1>11. Walk(dereferenceSchema, p) = Chains(p)
  BY <1>10, WalkGivesChains
<1> QED BY <1>5, <1>9, <1>11

LEMMA WalkComplete ==
  ASSUME DataInv
  PROVE  DereferenceComplete
<1> SUFFICES ASSUME NEW ref \in Refs PROVE Chains(<<ref, {ref}>>) = SimplePaths(ref)
  <2>1. \A x \in Refs : <<x, {x}>> \in Refs \X SUBSET Refs
    OBVIOUS
  <2> QED BY <2>1, WalkIsChains DEF DereferenceComplete, Expanded
<1>1. ASSUME NEW s \in Chains(<<ref, {ref}>>) PROVE s \in SimplePaths(ref)
  <2>1. /\ s \in Seq(Refs) /\ s # <<>> /\ s[1] = ref
        /\ \A i \in 1 .. Len(s) - 1 : s[i + 1] \in fdGraph[s[i]]
        /\ \A i \in 2 .. Len(s) : s[i] # ref
        /\ \A i, j \in 2 .. Len(s) : s[i] = s[j] => i = j
    BY <1>1 DEF Chains
  <2>2. Len(s) \in Nat \ {0} /\ DOMAIN s = 1 .. Len(s) /\ s \in [1 .. Len(s) -> Refs]
    BY <2>1, EmptySeq, LenProperties
  <2>3. \A i, j \in 1 .. Len(s) : s[i] = s[j] => i = j
    <3>1. \A i \in 1 .. Len(s) : i = 1 \/ i \in 2 .. Len(s)
      BY <2>2
    <3> QED BY <2>1, <3>1
  <2>4. s \in Injection(1 .. Len(s), Refs)
    BY <2>2, <2>3 DEF Injection, IsInjective
  <2>5. Cardinality(1 .. Len(s)) <= Cardinality(Refs)
    BY <2>4, FixtureDataAssumption, FS_Injection
  <2>6. Cardinality(1 .. Len(s)) = Len(s)
    BY <2>2, FS_Interval
  <2>7. Cardinality(Refs) \in Nat
    BY FixtureDataAssumption, FS_CardinalityType
  <2>8. Len(s) \in 1 .. Cardinality(Refs)
    BY <2>2, <2>5, <2>6, <2>7
  <2> QED BY <2>1, <2>2, <2>3, <2>8 DEF SimplePaths
<1>2. ASSUME NEW s \in SimplePaths(ref) PROVE s \in Chains(<<ref, {ref}>>)
  <2>1. PICK n \in 1 .. Cardinality(Refs) : s \in [1 .. n -> Refs]
    BY DEF SimplePaths
  <2>2. n \in Nat \ {0} /\ s \in Seq(Refs) /\ Len(s) = n /\ DOMAIN s = 1 .. n /\ s # <<>>
    BY <2>1
  <2>3. /\ s[1] = ref
        /\ \A i \in 1 .. Len(s) - 1 : s[i + 1] \in fdGraph[s[i]]
        /\ \A i, j \in 1 .. n : s[i] = s[j] => i = j
    BY <2>2 DEF SimplePaths
  <2>4. \A i \in 2 .. n : i \in 1 .. n /\ i # 1 /\ 1 \in 1 .. n
    BY <2>2
  <2>5. (\A i \in 2 .. n : s[i] \notin {ref}) /\ \A i, j \in 2 .. n : s[i] = s[j] => i = j
    BY <2>3, <2>4
  <2> DEFINE p == <<ref, {ref}>>
  <2>6. p[1] = ref /\ p[2] = {ref}
    OBVIOUS
  <2> HIDE DEF p
  <2>7. s \in Chains(p)
    BY <2>2, <2>3, <2>5, <2>6 DEF Chains
  <2> QED BY <2>7 DEF p
<1> QED BY <1>1, <1>2

-----------------------------------------------------------------------------
(* The run                                                                 *)

LEMMA GateStutter == GateInv /\ UNCHANGED gateVars => GateInv'
BY DEF GateInv, gateVars, GateTypeOK, NoForeignOrigin, ForeignLosesOnTheGate, ServedInsideDist

LEMMA GuardStutter == GuardInv /\ UNCHANGED guardVars => GuardInv'
BY DEF GuardInv, guardVars, GuardTypeOK, SharesNeverRead, OneDirectoryListed, ClampOutsideJig,
       isUncPath, Resolved, Reached

LEMMA FixtureStutter == FixtureInv /\ UNCHANGED fixtureVars => FixtureInv'
BY DEF FixtureInv, fixtureVars, FixtureTypeOK, LoadedIsLive, NeverOnlyInMemory

LEMMA SheetStutter == SheetInv /\ UNCHANGED sheetVars => SheetInv'
BY DEF SheetInv, sheetVars, SheetTypeOK, MeetingsKnown, DiskFollows, PlaceFree, Follows, On, Written

LEMMA RecentStutter == RecentInv /\ UNCHANGED recentVars => RecentInv'
BY DEF RecentInv, recentVars

LEMMA SetupStutter == SetupInv /\ UNCHANGED setupVars => SetupInv'
BY DEF SetupInv, setupVars, SetupTypeOK, ReadIsLatest, JigStays, ToldBefore, PageWrote, MayWrite, AtRest,
       Committed

LEMMA MirrorStutter == MirrorInv /\ UNCHANGED trialFitVars => MirrorInv'
BY DEF MirrorInv, trialFitVars, TrialFitTypeOK, AtHand, GoneAfter, LateKnown

LEMMA LinkStutter == LinkInv /\ UNCHANGED shopVars => LinkInv'
BY DEF LinkInv, shopVars, ShopTypeOK, NotBefore

LEMMA PlateStutter == PlateInv /\ UNCHANGED plateVars => PlateInv'
BY DEF PlateInv, plateVars, PlateTypeOK, Honest

LEMMA DataStutter == DataInv /\ UNCHANGED fixtureDataVars => DataInv'
BY DEF DataInv, fixtureDataVars

\* What each part keeps while it is the one that moves.
ServerInv ==
  /\ part = "gate" => GateInv
  /\ part = "guard" => GuardInv
  /\ part = "fixtures" => FixtureInv
  /\ part = "sheets" => SheetInv
  /\ part = "recent" => RecentInv
  /\ part = "setup" => SetupInv
  /\ part = "mirror" => MirrorInv
  /\ part = "shop" => LinkInv
  /\ part = "plate" => PlateInv
  /\ part = "data" => DataInv

LEMMA RunStart == ServerInit => ServerInv
BY GateStart, GuardStart, FixtureStart, SheetStart, RecentStart, SetupStart, MirrorStarts,
   LinkStart, PlateBegins, DataStart
   DEF ServerInit, ServerInv

\* In a step of the run the part that moves takes one of its steps, or all is as it was.
LEMMA PartsMove ==
  ASSUME [ServerNext]_serverRunVars
  PROVE  /\ part' = part
         /\ part = "gate" => GateNext \/ UNCHANGED gateVars
         /\ part = "guard" => GuardNext \/ UNCHANGED guardVars
         /\ IF part = "fixtures" THEN FixtureNext \/ UNCHANGED fixtureVars ELSE UNCHANGED fixtureVars
         /\ IF part = "sheets" THEN SheetNext \/ UNCHANGED sheetVars ELSE UNCHANGED sheetVars
         /\ part = "recent" => RecentNext \/ UNCHANGED recentVars
         /\ IF part = "setup" THEN SetupNext \/ UNCHANGED setupVars ELSE UNCHANGED setupVars
         /\ part = "mirror" => TrialFitNext \/ UNCHANGED trialFitVars
         /\ part = "shop" => ShopNext \/ UNCHANGED shopVars
         /\ IF part = "plate" THEN PlateNext \/ UNCHANGED plateVars ELSE UNCHANGED plateVars
         /\ part = "data" => FixtureDataNext \/ UNCHANGED fixtureDataVars
<1> USE DEF ServerNext, serverRunVars
<1>1. part' = part
  OBVIOUS
<1>2. part = "gate" => GateNext \/ UNCHANGED gateVars
  OBVIOUS
<1>3. part = "guard" => GuardNext \/ UNCHANGED guardVars
  OBVIOUS
<1>4. IF part = "fixtures" THEN FixtureNext \/ UNCHANGED fixtureVars ELSE UNCHANGED fixtureVars
  BY DEF OthersRest, Rests
<1>5. IF part = "sheets" THEN SheetNext \/ UNCHANGED sheetVars ELSE UNCHANGED sheetVars
  BY DEF OthersRest, Rests
<1>6. part = "recent" => RecentNext \/ UNCHANGED recentVars
  OBVIOUS
<1>7. IF part = "setup" THEN SetupNext \/ UNCHANGED setupVars ELSE UNCHANGED setupVars
  BY DEF OthersRest, Rests
<1>8. part = "mirror" => TrialFitNext \/ UNCHANGED trialFitVars
  OBVIOUS
<1>9. part = "shop" => ShopNext \/ UNCHANGED shopVars
  OBVIOUS
<1>10. IF part = "plate" THEN PlateNext \/ UNCHANGED plateVars ELSE UNCHANGED plateVars
  BY DEF OthersRest, Rests
<1>11. part = "data" => FixtureDataNext \/ UNCHANGED fixtureDataVars
  OBVIOUS
<1> QED BY <1>1, <1>2, <1>3, <1>4, <1>5, <1>6, <1>7, <1>8, <1>9, <1>10, <1>11

LEMMA RunStep == ServerInv /\ [ServerNext]_serverRunVars => ServerInv'
<1> SUFFICES ASSUME ServerInv, [ServerNext]_serverRunVars PROVE ServerInv'
  OBVIOUS
<1>1. part' = part
  BY PartsMove
<1>2. part = "gate" => GateInv'
  BY PartsMove, GateStep, GateStutter DEF ServerInv
<1>3. part = "guard" => GuardInv'
  BY PartsMove, GuardStep, GuardStutter DEF ServerInv
<1>4. part = "fixtures" => FixtureInv'
  BY PartsMove, FixtureStep, FixtureStutter DEF ServerInv
<1>5. part = "sheets" => SheetInv'
  BY PartsMove, SheetStep, SheetStutter DEF ServerInv
<1>6. part = "recent" => RecentInv'
  BY PartsMove, RecentStep, RecentStutter DEF ServerInv
<1>7. part = "setup" => SetupInv'
  BY PartsMove, SetupStep, SetupStutter DEF ServerInv
<1>8. part = "mirror" => MirrorInv'
  BY PartsMove, MirrorStep, MirrorStutter DEF ServerInv
<1>9. part = "shop" => LinkInv'
  BY PartsMove, LinkStep, LinkStutter DEF ServerInv
<1>10. part = "plate" => PlateInv'
  BY PartsMove, PlateStep, PlateStutter DEF ServerInv
<1>11. part = "data" => DataInv'
  BY PartsMove, DataStep, DataStutter DEF ServerInv
<1> QED BY <1>1, <1>2, <1>3, <1>4, <1>5, <1>6, <1>7, <1>8, <1>9, <1>10, <1>11 DEF ServerInv

\* Whatever is asked, of whichever address the server is bound to: no request with a foreign
\* Origin and no name that can be rebound reaches a route, no page path leads out of dist, and
\* however the caller's link moves a path ends on no share, in no .jig and in no other
\* directory than the one checked, unless that directory itself is replaced after the check
\* (same-origin.ts, bench-serve.ts, fs/).
THEOREM RequestsWithin == ServerRun => []RequestsStayWithin
<1>1. ServerInv => RequestsStayWithin
  BY DEF ServerInv, RequestsStayWithin, GateInv, GuardInv
<1> QED BY <1>1, RunStart, RunStep, PTL DEF ServerRun

\* Whatever write fails, is retried or is cut off by a crash, for any number of sheets,
\* fixtures, benches and writers: a listed fixture has its file, a sheet no two calls worked on
\* at once is what its file holds, and .mcp.json keeps what other programs left in it as far as
\* nobody wrote it between a call's read and its write (fixtures/store.ts, sketch/store.ts,
\* toolpath/store.ts, bench/recent.ts, setup/).
THEOREM FilesAgree == ServerRun => []MemoryAndFilesAgree
<1>1. SetupInv => SetupTypeOK /\ OthersPassThrough /\ WrittenIsTrue
  BY DEF SetupInv, ReadIsLatest, JigStays, OthersPassThrough, WrittenIsTrue
<1>2. ServerInv => MemoryAndFilesAgree
  BY <1>1, SheetAgrees, RecentAgrees DEF ServerInv, MemoryAndFilesAgree, FixtureInv
<1> QED BY <1>2, RunStart, RunStep, PTL DEF ServerRun

\* For every survey, however many endpoints share a path and however schemas refer to each
\* other, for every order of heartbeats, reloads and re-points: what the bench shows of the
\* shop, the plate, a fixture and the mirror is so (mcp/heartbeat.ts, plate/, fixtures/generate.ts).
THEOREM ShownIsSo == ServerRun => []ShownIsTrue
<1>1. DataInv => ItemsAgreeWithList /\ ProofIsAnswered /\ DereferenceComplete
  BY ItemsAgree, ProofAnswered, WalkComplete
<1>2. ServerInv => ShownIsTrue
  BY <1>1, LinkShown, PlateShown, MirrorShown DEF ServerInv, ShownIsTrue
<1> QED BY <1>2, RunStart, RunStep, PTL DEF ServerRun

LEMMA SheetOrder ==
  ASSUME SheetInv, SheetNext
  PROVE  NeverHalfWritten /\ PlaceTakenOnlyByOverlap
<1>t. /\ ssDisk \in [SheetIds -> Sheets \cup {NoSheet, Garbled}]
      /\ ssCall \in [SheetCalls -> Running \cup {Fresh, Ended}]
  BY DEF SheetInv, SheetTypeOK
<1>1. NeverHalfWritten
  <2>1. ASSUME NEW c \in SheetCalls, RenameOver(c) PROVE NeverHalfWritten
    <3>1. ssCall[c] \in Running
      BY <1>t, <2>1 DEF RenameOver
    <3>2. ssCall[c].doc \in Sheets
      BY <3>1 DEF Running
    <3> QED BY <1>t, <2>1, <3>2, NoDocument DEF RenameOver, NeverHalfWritten
  <2>2. ASSUME NEW spoilt, RestartSheets(spoilt) PROVE NeverHalfWritten
    <3>1. ssCall' = [c \in SheetCalls |-> IF c \in InFlight THEN Ended ELSE ssCall[c]]
      BY <2>2 DEF RestartSheets
    <3>2. InFlight' = {}
      BY <3>1 DEF InFlight
    <3> QED BY <3>2 DEF NeverHalfWritten
  <2>3. ASSUME UNCHANGED ssDisk PROVE NeverHalfWritten
    BY <2>3 DEF NeverHalfWritten
  <2> QED BY <2>1, <2>2, <2>3 DEF SheetNext, AskSheet, WriteTemp, StepFails, SettleSheet
<1>2. PlaceTakenOnlyByOverlap
  BY <1>t DEF SheetInv, PlaceFree, PlaceTakenOnlyByOverlap
<1> QED BY <1>1, <1>2

LEMMA SetupOrder ==
  ASSUME SetupInv, SetupNext
  PROVE  DiffFirst
<1>1. ASSUME NEW w \in Writers, FillConfig(w) PROVE DiffFirst
  BY <1>1 DEF FillConfig, SetupInv, ToldBefore, DiffFirst
<1>2. ASSUME NEW w \in Writers, EmptyConfig(w) PROVE DiffFirst
  BY <1>2, JsonFields DEF EmptyConfig, DiffFirst
<1>3. ASSUME NEW new, OthersEdit(new) PROVE DiffFirst
  <2>1. edits \in Nat /\ edits' = edits + 1
    BY <1>3 DEF OthersEdit, SetupInv
  <2>2. edits' # edits
    BY <2>1
  <2> QED BY <2>2 DEF DiffFirst
<1>4. ASSUME UNCHANGED mcpJson PROVE DiffFirst
  BY <1>4 DEF DiffFirst
<1> QED BY <1>1, <1>2, <1>3, <1>4
        DEF SetupNext, CallSteps, ClickMcp, PageHears, RunInit, ReadConfig, ensureGitignoreEntry

\* No step of any part jumps its turn, whatever else is in flight: the plate serves nothing
\* before its gate, no file is ever half a document, a sheet's place is taken only by calls
\* that overlapped, and the configuration is written only after somebody was asked
\* (proxy.ts, atomic-write.ts, sketch/store.ts, setup/).
THEOREM InOrder == ServerRun => ServerStepsInOrder
<1>1. ServerInv /\ [ServerNext]_serverRunVars
        => [GateFirst /\ NeverHalfWritten /\ PlaceTakenOnlyByOverlap /\ DiffFirst]_serverRunVars
  <2> SUFFICES ASSUME ServerInv, [ServerNext]_serverRunVars
               PROVE  GateFirst /\ NeverHalfWritten /\ PlaceTakenOnlyByOverlap /\ DiffFirst
    OBVIOUS
  <2>1. GateFirst
    <3>1. UNCHANGED plateVars => GateFirst
      BY DEF plateVars, GateFirst
    <3> QED BY <3>1, PartsMove, PlateStep DEF ServerInv
  <2>2. NeverHalfWritten /\ PlaceTakenOnlyByOverlap
    <3>1. UNCHANGED sheetVars => NeverHalfWritten /\ PlaceTakenOnlyByOverlap
      BY DEF sheetVars, NeverHalfWritten, PlaceTakenOnlyByOverlap
    <3> QED BY <3>1, PartsMove, SheetOrder DEF ServerInv
  <2>3. DiffFirst
    <3>1. UNCHANGED setupVars => DiffFirst
      BY DEF setupVars, DiffFirst
    <3> QED BY <3>1, PartsMove, SetupOrder DEF ServerInv
  <2> QED BY <2>1, <2>2, <2>3
<1> QED BY <1>1, RunStart, RunStep, PTL DEF ServerRun, ServerStepsInOrder
=============================================================================
