------------------------------ MODULE PathGuard ------------------------------
(***************************************************************************)
(* A path the page asks to list or to clamp (fs/route.ts, fs/local-path.ts,*)
(* fs/unc-path.ts, fs/win32-hidden.ts, bench/validate-clamp-path.ts): what *)
(* is refused by its spelling, what only after realpath, and which         *)
(* directory the calls behind the guard read while links are re-pointed.   *)
(* A place is where a path leads; a path that is no link leads to itself.  *)
(***************************************************************************)
EXTENDS Naturals

CONSTANTS Entries,  \* the sub-directories a listing may show
          Hidden,   \* those with a dot name, node_modules, .git
          Flagged,  \* those Windows marks hidden or system
          Nowhere   \* not known yet

ASSUME EntriesAssumption == Hidden \cup Flagged \subseteq Entries

VARIABLES pgCwd,    \* where the server was started: a local directory or a share
          pgWin,    \* platform() = 'win32'
          pgLink,   \* the place the link leads to now
          pgDirA,   \* what stands at "dirA" now: the directory, nothing, or a link elsewhere
          pgOp, pgRaw, \* the request: list or clamp, and the spelling it sent
          pgAt,     \* the call it awaits
          pgReal,   \* what realpath answered
          pgMoved,  \* whether what stands at pgReal was replaced since
          pgRead,   \* the place each file system call touched
          pgNames,  \* the names a listing will show
          pgReply
guardVars == <<pgCwd, pgWin, pgLink, pgDirA, pgOp, pgRaw, pgAt, pgReal, pgMoved, pgRead,
               pgNames, pgReply>>
worldVars == <<pgCwd, pgWin, pgLink, pgDirA, pgMoved>>

Directories == {"dirA", "dirB", "in-.jig"}
Failing     == {"missing", "denied", "loop", "not-a-dir-inside"}
Places      == Directories \cup Failing \cup {"file", "share"}
Spellings   == {"blank", "unc", "relative", "link", "dirA", "in-.jig", "file", "missing"}
FsCalls     == {"realpath", "stat", "readdir", "attrib", "probe"}

ASSUME NowhereAssumption == Nowhere \notin Places

isUncPath(p) == p \in {"unc", "share"}

\* path.resolve: a relative spelling is taken against the working directory.
Resolved(raw) ==
  IF raw # "relative" THEN raw ELSE IF pgCwd = "share" THEN "share" ELSE "dirA"

\* Where a call on a place ends up: a string is no handle, and what stands there is followed.
Reached(place) == IF place = "dirA" THEN pgDirA ELSE place
Follow(p) == Reached(IF p = "link" THEN pgLink ELSE p)
IsDirectory(place) == place \in Directories \cup {"share"}

GuardTypeOK ==
  /\ pgCwd \in {"local", "share"} /\ pgWin \in BOOLEAN
  /\ pgLink \in Places /\ pgDirA \in Places /\ pgMoved \in BOOLEAN
  /\ pgOp \in {"none", "list", "clamp"} /\ pgRaw \in Spellings \cup {Nowhere}
  /\ pgAt \in {"idle", "realpath", "stat", "readdir", "attrib", "probe", "done"}
  /\ pgReal \in Places \cup {Nowhere}
  /\ pgRead \in [FsCalls -> Places \cup {Nowhere}]
  /\ pgNames \subseteq Entries

GuardInit ==
  /\ pgCwd \in {"local", "share"} /\ pgWin \in BOOLEAN
  /\ pgLink \in Places /\ pgDirA = "dirA" /\ pgMoved = FALSE
  /\ pgOp = "none" /\ pgRaw = Nowhere /\ pgAt = "idle" /\ pgReal = Nowhere
  /\ pgRead = [c \in FsCalls |-> Nowhere]
  /\ pgNames = {} /\ pgReply = "none"

\* Answer now, awaiting nothing further.
Answer(a) == pgAt' = "done" /\ pgReply' = a

Touched(call, place) == pgRead' = [pgRead EXCEPT ![call] = place]

----------------------------------------------------------------------------
\* Mutant: only the spelling is looked at, not what it resolves to.
RawSpellingOnly(op, raw) ==
  /\ pgAt = "idle"
  /\ pgOp' = op /\ pgRaw' = raw
  /\ IF raw = "blank" THEN Answer("path-is-required")
     ELSE IF isUncPath(raw) THEN Answer("unc-refused")
     ELSE pgAt' = "realpath" /\ UNCHANGED pgReply
  /\ UNCHANGED worldVars /\ UNCHANGED <<pgReal, pgRead, pgNames>>

\* checkLocalPath up to its await: the spelling, then what it resolves to.
RequestPath(op, raw) ==
  /\ pgAt = "idle"
  /\ pgOp' = op /\ pgRaw' = raw
  /\ IF raw = "blank" THEN Answer("path-is-required")
     ELSE IF isUncPath(raw) \/ isUncPath(Resolved(raw)) THEN Answer("unc-refused")
     ELSE pgAt' = "realpath" /\ UNCHANGED pgReply
  /\ UNCHANGED worldVars /\ UNCHANGED <<pgReal, pgRead, pgNames>>

\* realpathFailureMessage: each failure in its own words.
realpathFailureMessage(place) ==
  CASE place = "denied" -> "permission-denied"
    [] place = "loop" -> "too-many-symbolic-links"
    [] place = "not-a-dir-inside" -> "a-component-is-not-a-directory"
    [] OTHER -> "no-such-path"

\* realpath answers; a link onto a share is refused here, after this one call.
RealpathAnswers ==
  /\ pgAt = "realpath"
  /\ LET place == Follow(Resolved(pgRaw)) IN
     /\ Touched("realpath", place)
     /\ IF place \in Failing THEN Answer(realpathFailureMessage(place)) /\ UNCHANGED pgReal
        ELSE IF isUncPath(place) THEN Answer("unc-refused") /\ UNCHANGED pgReal
        ELSE pgAt' = "stat" /\ pgReal' = place /\ UNCHANGED pgReply
  /\ UNCHANGED worldVars /\ UNCHANGED <<pgOp, pgRaw, pgNames>>

\* stat(real); a clamp is then judged by both spellings of the directory.
namesJigDirectory(place) == place = "in-.jig"

\* Mutant: only the spelling is asked for .jig.
SpellingAlone(real) == namesJigDirectory(Resolved(pgRaw))

RefusesJig(real) == namesJigDirectory(Resolved(pgRaw)) \/ namesJigDirectory(real)

StatAnswers ==
  /\ pgAt = "stat"
  /\ LET at == Reached(pgReal) IN
     /\ Touched("stat", at)
     /\ IF at \in Failing THEN Answer("no-such-path")
        ELSE IF ~IsDirectory(at) THEN Answer("not-a-directory")
        ELSE IF pgOp = "list" THEN pgAt' = "readdir" /\ UNCHANGED pgReply
        ELSE IF RefusesJig(pgReal) THEN Answer("inside-.jig") ELSE Answer("ok")
  /\ UNCHANGED worldVars /\ UNCHANGED <<pgOp, pgRaw, pgReal, pgNames>>

\* readdir(real): a rejection reaches the error handler; dot names are dropped.
ReaddirAnswers ==
  /\ pgAt = "readdir"
  /\ LET at == Reached(pgReal) IN
     /\ Touched("readdir", at)
     /\ IF ~IsDirectory(at)
        THEN Answer("read-failed") /\ UNCHANGED pgNames
        ELSE pgAt' = "attrib" /\ pgNames' = Entries \ Hidden /\ UNCHANGED pgReply
  /\ UNCHANGED worldVars /\ UNCHANGED <<pgOp, pgRaw, pgReal>>

\* hiddenOrSystemNames: one attrib per listing on win32; every failure hides nothing.
hiddenOrSystemNames(answered) == IF pgWin /\ answered THEN Flagged ELSE {}

AttribAnswers(answered) ==
  /\ pgAt = "attrib"
  /\ IF pgWin THEN Touched("attrib", Reached(pgReal)) ELSE UNCHANGED pgRead
  /\ pgNames' = pgNames \ hiddenOrSystemNames(answered)
  /\ pgAt' = "probe"
  /\ UNCHANGED worldVars /\ UNCHANGED <<pgOp, pgRaw, pgReal, pgReply>>

\* Mutant: the probes follow the spelling, wherever it leads by now.
ProbeBySpelling ==
  /\ pgAt = "probe"
  /\ Touched("probe", Follow(Resolved(pgRaw)))
  /\ Answer("listed")
  /\ UNCHANGED worldVars /\ UNCHANGED <<pgOp, pgRaw, pgReal, pgNames>>

\* describeEntry for every name: the probes go to the real parent, whatever stands there
\* by now; the path sent back is spelled the caller's way.
ProbesAnswer ==
  /\ pgAt = "probe"
  /\ Touched("probe", Reached(pgReal))
  /\ Answer("listed")
  /\ UNCHANGED worldVars /\ UNCHANGED <<pgOp, pgRaw, pgReal, pgNames>>

\* The world: the caller's link is re-pointed, or the directory itself is removed or
\* replaced by a link, before the check or after it.
Repoint(place) ==
  /\ pgAt # "done"
  /\ pgLink' = place
  /\ UNCHANGED <<pgCwd, pgWin, pgDirA, pgOp, pgRaw, pgAt, pgReal, pgMoved, pgRead,
                 pgNames, pgReply>>

Replace(place) ==
  /\ pgAt # "done" /\ place # pgDirA
  /\ pgDirA' = place
  /\ pgMoved' = (pgMoved \/ pgReal = "dirA")
  /\ UNCHANGED <<pgCwd, pgWin, pgLink, pgOp, pgRaw, pgAt, pgReal, pgRead, pgNames,
                 pgReply>>

GuardNext ==
  \/ \E op \in {"list", "clamp"}, raw \in Spellings : RequestPath(op, raw)
  \/ RealpathAnswers \/ StatAnswers \/ ReaddirAnswers \/ ProbesAnswer
  \/ \E answered \in BOOLEAN : AttribAnswers(answered)
  \/ \E place \in Places : Repoint(place)
  \/ \E place \in {"dirA", "dirB", "in-.jig", "missing", "share"} : Replace(place)

GuardSpec == GuardInit /\ [][GuardNext]_guardVars

----------------------------------------------------------------------------
\* No spelling that is a share, or resolves to one, is touched at all; a local one that
\* leads to a share is refused after the one realpath, and however the caller's own link
\* moves, no later call ends up on a share, unless the place realpath answered is itself
\* replaced behind the check: that is still followed (fs/local-path.ts:33-42,
\* fs/route.ts:178-184, setup/route.ts:201-204).
SharesNeverRead ==
  /\ isUncPath(Resolved(pgRaw)) => pgRead = [c \in FsCalls |-> Nowhere]
  /\ pgRead["realpath"] = "share" => pgReply = "unc-refused"
  /\ ~pgMoved => \A c \in FsCalls \ {"realpath"} : pgRead[c] # "share"

\* The names, the flags that hide some and the probes beside them are of one directory, the
\* one that was checked, although the caller's link moved between the calls
\* (fs/route.ts:77-89); not so if the checked place itself was replaced (fs/route.ts:181).
OneDirectoryListed ==
  pgReply = "listed" /\ ~pgMoved =>
    /\ pgReal \in Directories
    /\ \A c \in {"stat", "readdir", "attrib", "probe"} : pgRead[c] \in {pgReal, Nowhere}

\* A clamp that is accepted is outside .jig by its spelling and by the place realpath
\* answered, and unless that place was replaced it is the directory stat saw
\* (validate-clamp-path.ts:39-49).
ClampOutsideJig ==
  pgReply = "ok" =>
    /\ pgReal # "in-.jig" /\ Resolved(pgRaw) # "in-.jig"
    /\ ~pgMoved => pgReal \in Directories /\ pgRead["stat"] = pgReal
=============================================================================
