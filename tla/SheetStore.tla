----------------------------- MODULE SheetStore -----------------------------
(***************************************************************************)
(* Sketches and toolpaths (sketch/store.ts, toolpath/store.ts and their    *)
(* routes): two stores of the same shape, of which only a sketch's content *)
(* can change.  An id is minted from the ids in memory; the document is    *)
(* written beside its file and renamed over it (atomic-write.ts), each     *)
(* half retried; then memory is updated.  Nothing serialises the calls.    *)
(***************************************************************************)
EXTENDS Integers, FiniteSets, FiniteSetsExt

CONSTANTS SheetCalls, MaxSheet, WriteTries, RenameTries, NoSheet, Garbled

ASSUME SheetAssumption ==
  WriteTries \in Nat \ {0} /\ RenameTries \in Nat \ {0} /\ MaxSheet \in Nat

VARIABLES ssKind,  \* which of the two stores
          ssMap,   \* the Map in memory
          ssDisk,  \* the files
          ssCall,  \* each call, once
          ssMet,   \* the calls each call overlapped (history)
          ssMixed  \* the ids two calls worked on at once, in this process (history)
sheetVars == <<ssKind, ssMap, ssDisk, ssCall, ssMet, ssMixed>>

SheetIds == 1 .. MaxSheet
\* A document: the call that gave it its content, and whether it is scrapped.
Sheets == [by : SheetCalls, scrapped : BOOLEAN]
ASSUME NoDocument == NoSheet \notin Sheets /\ Garbled \notin Sheets
SheetOps == {"create", "update", "scrap", "restore"}
Fresh == [at |-> "new"]
Ended == [at |-> "ended"]
Running == [at : {"write", "rename", "settle"}, op : SheetOps, id : SheetIds, doc : Sheets,
            tries : 1 .. WriteTries + RenameTries]

SheetTypeOK ==
  /\ ssKind \in {"sketches", "toolpaths"}
  /\ ssMap \in [SheetIds -> Sheets \cup {NoSheet}]
  /\ ssDisk \in [SheetIds -> Sheets \cup {NoSheet, Garbled}]
  /\ ssCall \in [SheetCalls -> Running \cup {Fresh, Ended}]
  /\ ssMet \in [SheetCalls -> SUBSET SheetCalls]
  /\ ssMixed \subseteq SheetIds

SheetInit ==
  /\ ssKind \in {"sketches", "toolpaths"}
  /\ ssMap = [i \in SheetIds |-> NoSheet] /\ ssDisk = ssMap
  /\ ssCall = [c \in SheetCalls |-> Fresh]
  /\ ssMet = [c \in SheetCalls |-> {}] /\ ssMixed = {}

InMemory == {i \in SheetIds : ssMap[i] # NoSheet}
InFlight == {c \in SheetCalls : ssCall[c] \notin {Fresh, Ended}}

----------------------------------------------------------------------------
\* Mutant: the next id is the number of sheets plus one.
OnePerSheet(ids) == Cardinality(ids) + 1

\* nextFourDigitId: one past the highest there is.
nextFourDigitId(ids) == IF ids = {} THEN 1 ELSE Max(ids) + 1

\* What each operation writes, from what memory holds.
NewDoc(c, op, current) ==
  IF op = "create" THEN [by |-> c, scrapped |-> FALSE]
  ELSE IF op = "update" THEN [current EXCEPT !.by = c]
  ELSE [current EXCEPT !.scrapped = (op = "scrap")]

\* The part of a call before its write; an id that is not there is refused, and only
\* sketches have update.
AskSheet(c, op, id) ==
  /\ ssCall[c] = Fresh
  /\ op = "update" => ssKind = "sketches"
  /\ IF op = "create" THEN id = nextFourDigitId(InMemory) ELSE id \in InMemory
  /\ ssCall' = [ssCall EXCEPT ![c] =
       [at |-> "write", op |-> op, id |-> id, doc |-> NewDoc(c, op, ssMap[id]), tries |-> 1]]
  /\ ssMet' = [d \in SheetCalls |-> IF d = c THEN InFlight
                                    ELSE IF d \in InFlight THEN ssMet[d] \cup {c} ELSE ssMet[d]]
  /\ ssMixed' = IF \E d \in InFlight : ssCall[d].id = id THEN ssMixed \cup {id} ELSE ssMixed
  /\ UNCHANGED <<ssKind, ssMap, ssDisk>>

\* Mutant: the file itself is written.
WriteInPlace(c) ==
  /\ ssCall[c] \notin {Fresh, Ended} /\ ssCall[c].at = "write"
  /\ ssCall' = [ssCall EXCEPT ![c].at = "rename", ![c].tries = 1]
  /\ ssDisk' = [ssDisk EXCEPT ![ssCall[c].id] = Garbled]
  /\ UNCHANGED <<ssKind, ssMap, ssMet, ssMixed>>

\* atomicWriteFile, its first half: the temporary file is whole, or the write is tried
\* again, or the error is thrown.
WriteTemp(c) ==
  /\ ssCall[c] \notin {Fresh, Ended} /\ ssCall[c].at = "write"
  /\ ssCall' = [ssCall EXCEPT ![c].at = "rename", ![c].tries = 1]
  /\ UNCHANGED <<ssKind, ssMap, ssDisk, ssMet, ssMixed>>

\* Its second half: the rename puts the whole document in place.
RenameOver(c) ==
  /\ ssCall[c] \notin {Fresh, Ended} /\ ssCall[c].at = "rename"
  /\ ssDisk' = [ssDisk EXCEPT ![ssCall[c].id] = ssCall[c].doc]
  /\ ssCall' = [ssCall EXCEPT ![c].at = "settle"]
  /\ UNCHANGED <<ssKind, ssMap, ssMet, ssMixed>>

\* Mutant: the last error is swallowed.
GiveUpQuietly(c, transient) ==
  /\ ssCall[c] \notin {Fresh, Ended} /\ ssCall[c].at \in {"write", "rename"}
  /\ LET limit == IF ssCall[c].at = "write" THEN WriteTries ELSE RenameTries IN
     ssCall' = [ssCall EXCEPT ![c] =
       IF transient /\ ssCall[c].tries < limit THEN [@ EXCEPT !.tries = @ + 1]
       ELSE [@ EXCEPT !.at = "settle"]]
  /\ UNCHANGED <<ssKind, ssMap, ssDisk, ssMet, ssMixed>>

\* A transient error is retried until the tries are used up, any other is thrown at once;
\* a temporary file that cannot be renamed is removed.
StepFails(c, transient) ==
  /\ ssCall[c] \notin {Fresh, Ended} /\ ssCall[c].at \in {"write", "rename"}
  /\ LET call == ssCall[c]
         limit == IF call.at = "write" THEN WriteTries ELSE RenameTries
     IN ssCall' = [ssCall EXCEPT ![c] =
          IF transient /\ call.tries < limit THEN [call EXCEPT !.tries = @ + 1] ELSE Ended]
  /\ UNCHANGED <<ssKind, ssMap, ssDisk, ssMet, ssMixed>>

SettleSheet(c) ==
  /\ ssCall[c] \notin {Fresh, Ended} /\ ssCall[c].at = "settle"
  /\ ssMap' = [ssMap EXCEPT ![ssCall[c].id] = ssCall[c].doc]
  /\ ssCall' = [ssCall EXCEPT ![c] = Ended]
  /\ UNCHANGED <<ssKind, ssDisk, ssMet, ssMixed>>

\* Somebody edits a file by hand, or merges it badly, while Jig is not running, and init()
\* skips what it cannot parse.  A crash is a restart with calls in flight.
RestartSheets(spoilt) ==
  /\ spoilt \subseteq {i \in SheetIds : ssDisk[i] # NoSheet}
  /\ ssDisk' = [i \in SheetIds |-> IF i \in spoilt THEN Garbled ELSE ssDisk[i]]
  /\ ssMap' = [i \in SheetIds |-> IF ssDisk'[i] = Garbled THEN NoSheet ELSE ssDisk'[i]]
  /\ ssCall' = [c \in SheetCalls |-> IF c \in InFlight THEN Ended ELSE ssCall[c]]
  /\ ssMixed' = {}
  /\ UNCHANGED <<ssKind, ssMet>>

SheetNext ==
  \/ \E c \in SheetCalls :
       \/ \E op \in SheetOps, id \in SheetIds : AskSheet(c, op, id)
       \/ WriteTemp(c)
       \/ RenameOver(c)
       \/ \E transient \in BOOLEAN : StepFails(c, transient)
       \/ SettleSheet(c)
  \/ \E spoilt \in {{}} \cup {{i} : i \in SheetIds} : RestartSheets(spoilt)

SheetSpec == SheetInit /\ [][SheetNext]_sheetVars

----------------------------------------------------------------------------
\* A new sketch or toolpath takes the place of one that is in memory only if the two
\* creates overlapped: an id is never reused, whatever was scrapped or could not be read
\* (ids.ts:19-26; store.ts:100).
PlaceTakenOnlyByOverlap ==
  \A c \in SheetCalls :
    /\ ssCall[c] \notin {Fresh, Ended} /\ ssCall'[c] = Ended
    /\ ssCall[c].op = "create" /\ ssMap' # ssMap /\ ssMap[ssCall[c].id] # NoSheet
    => \E d \in ssMet[c] : d # c

\* What memory holds of a document is what its file holds, through failed writes, retries,
\* crashes and files that cannot be read, whatever calls on OTHER documents overlap, except
\* between a rename and the end of its call; not so once two calls on the same document were
\* under way at once, until the next start: nothing orders their renames and their memory
\* (atomic-write.ts:48-74; every store writes before it updates memory).
MemoryIsDisk ==
  \A i \in SheetIds \ ssMixed :
    (\A c \in InFlight : ssCall[c].id = i => ssCall[c].at # "settle")
    => ssDisk[i] \in {ssMap[i], Garbled}

\* No step of Jig's leaves a half-written document: a file that was whole becomes
\* unreadable only in other hands, while Jig is down (atomic-write.ts:39-41).
NeverHalfWritten ==
  \A i \in SheetIds : ssDisk'[i] = Garbled /\ ssDisk[i] # Garbled => InFlight' = {}
=============================================================================
