---------------------------- MODULE FixtureStore ----------------------------
(***************************************************************************)
(* The fixture store (fixtures/store.ts) behind its routes (fixtures/      *)
(* route.ts): fixtures in memory and on disk, the one that is loaded, and  *)
(* what the bench is told of it.  create, scrap and restore decide from    *)
(* memory, await the write of the file, then update memory; load and       *)
(* unload are one step.  Nothing serialises the calls.                     *)
(***************************************************************************)
EXTENDS Naturals, FiniteSets

CONSTANTS FixtureIds, FixtureCalls, NoFixture

VARIABLES fxMap,    \* the Map in memory: absent, live or scrapped
          fxDisk,   \* the files
          fxActive, \* activeId
          fxSink,   \* what JigStore was last told: name and wiring
          fxCall    \* calls awaiting a write
fixtureVars == <<fxMap, fxDisk, fxActive, fxSink, fxCall>>

FixtureStates == {"absent", "live", "scrapped"}
Unasked == [op |-> "none"]
Pending == [op : {"create", "scrap", "restore"}, id : FixtureIds, at : {"writing", "written"}]
Loading == [op : {"proof"}, id : FixtureIds]

FixtureTypeOK ==
  /\ fxMap \in [FixtureIds -> FixtureStates]
  /\ fxDisk \in [FixtureIds -> FixtureStates]
  /\ fxActive \in FixtureIds \cup {NoFixture}
  /\ fxSink \in [name : FixtureIds \cup {NoFixture}, wiring : {"wired", "stub", "none"}]
  /\ fxCall \in [FixtureCalls -> {Unasked} \cup Pending \cup Loading \cup [op : {"proved"}, id : FixtureIds, ok : BOOLEAN]]

\* recomputeWiring, after the map and the active fixture are as given.
Told(map, active) ==
  [name |-> active,
   wiring |-> IF active # NoFixture THEN "wired"
              ELSE IF \E id \in FixtureIds : map[id] # "absent" THEN "stub" ELSE "none"]

FixtureInit ==
  /\ fxDisk \in [FixtureIds -> FixtureStates] /\ fxMap = fxDisk
  /\ fxActive = NoFixture /\ fxSink = Told(fxMap, NoFixture)
  /\ fxCall = [c \in FixtureCalls |-> Unasked]

----------------------------------------------------------------------------
\* The part of each call before its write: a name that is taken, or a fixture that is not
\* there, is refused.
AskFixture(c, op, id) ==
  /\ fxCall[c] = Unasked
  /\ (op = "create") = (fxMap[id] = "absent")
  /\ fxCall' = [fxCall EXCEPT ![c] = [op |-> op, id |-> id, at |-> "writing"]]
  /\ UNCHANGED <<fxMap, fxDisk, fxActive, fxSink>>

After(op) == IF op = "scrap" THEN "scrapped" ELSE "live"

PersistFixture(c) ==
  /\ fxCall[c] \in Pending /\ fxCall[c].at = "writing"
  /\ fxDisk' = [fxDisk EXCEPT ![fxCall[c].id] = After(fxCall[c].op)]
  /\ fxCall' = [fxCall EXCEPT ![c].at = "written"]
  /\ UNCHANGED <<fxMap, fxActive, fxSink>>

\* Mutant: a failed write is swallowed and memory moves on.
FailureSwallowed(c) ==
  /\ fxCall[c] \in Pending /\ fxCall[c].at = "writing"
  /\ fxCall' = [fxCall EXCEPT ![c].at = "written"]
  /\ UNCHANGED <<fxMap, fxDisk, fxActive, fxSink>>

\* The write failed: the call throws, memory is as it was.
PersistFails(c) ==
  /\ fxCall[c] \in Pending /\ fxCall[c].at = "writing"
  /\ fxCall' = [fxCall EXCEPT ![c] = Unasked]
  /\ UNCHANGED <<fxMap, fxDisk, fxActive, fxSink>>

\* Mutant: a scrapped fixture stays loaded.
SettleWithoutUnload(c) ==
  /\ fxCall[c] \in Pending /\ fxCall[c].at = "written"
  /\ LET call == fxCall[c]
         map == [fxMap EXCEPT ![call.id] = After(call.op)]
     IN fxMap' = map /\ UNCHANGED fxActive /\ fxSink' = Told(map, fxActive)
  /\ fxCall' = [fxCall EXCEPT ![c] = Unasked]
  /\ UNCHANGED fxDisk

\* The rest of the call: memory, the loaded fixture if it is the one scrapped, the wiring.
Settle(c) ==
  /\ fxCall[c] \in Pending /\ fxCall[c].at = "written"
  /\ LET call == fxCall[c]
         map == [fxMap EXCEPT ![call.id] = After(call.op)]
         active == IF call.op = "scrap" /\ fxActive = call.id THEN NoFixture ELSE fxActive
     IN fxMap' = map /\ fxActive' = active /\ fxSink' = Told(map, active)
  /\ fxCall' = [fxCall EXCEPT ![c] = Unasked]
  /\ UNCHANGED fxDisk

\* load refuses a scrapped fixture; its route then asks the plate for a proof.
LoadFixture(c, id) ==
  /\ fxCall[c] = Unasked
  /\ fxMap[id] = "live"
  /\ fxActive' = id /\ fxSink' = Told(fxMap, id)
  /\ fxCall' = [fxCall EXCEPT ![c] = [op |-> "proof", id |-> id]]
  /\ UNCHANGED <<fxMap, fxDisk>>

\* The HEAD probe comes back through the plate's interceptor, with the name of whatever
\* is loaded by then, or not at all.
ProbeLoaded(c, reached) ==
  /\ fxCall[c].op = "proof"
  /\ fxCall' = [fxCall EXCEPT ![c] = [op |-> "proved", id |-> fxCall[c].id,
                                      ok |-> reached /\ fxActive = fxCall[c].id]]
  /\ UNCHANGED <<fxMap, fxDisk, fxActive, fxSink>>

Reported(c) ==
  /\ fxCall[c].op = "proved"
  /\ fxCall' = [fxCall EXCEPT ![c] = Unasked]
  /\ UNCHANGED <<fxMap, fxDisk, fxActive, fxSink>>

UnloadFixture ==
  /\ fxActive' = NoFixture /\ fxSink' = Told(fxMap, NoFixture)
  /\ UNCHANGED <<fxMap, fxDisk, fxCall>>

\* A new process: init() reads the files and loads nothing.
ReopenFixtures ==
  /\ fxMap' = fxDisk /\ fxActive' = NoFixture /\ fxSink' = Told(fxDisk, NoFixture)
  /\ fxCall' = [c \in FixtureCalls |-> Unasked]
  /\ UNCHANGED fxDisk

FixtureNext ==
  \/ \E c \in FixtureCalls :
       \/ \E op \in {"create", "scrap", "restore"}, id \in FixtureIds : AskFixture(c, op, id)
       \/ PersistFixture(c)
       \/ PersistFails(c)
       \/ Settle(c)
       \/ \E id \in FixtureIds : LoadFixture(c, id)
       \/ \E reached \in BOOLEAN : ProbeLoaded(c, reached)
       \/ Reported(c)
  \/ UnloadFixture
  \/ ReopenFixtures

FixtureSpec == FixtureInit /\ [][FixtureNext]_fixtureVars

----------------------------------------------------------------------------
\* The plate never answers from a scrapped fixture, even when it was loaded between the
\* read and the write of its scrap (store.ts:118-125), and the bench is always shown the
\* fixture that is loaded and whether there are any (store.ts:163-169).
LoadedIsLive ==
  /\ fxActive # NoFixture => fxMap[fxActive] = "live"
  /\ fxSink = Told(fxMap, fxActive)

\* However calls overlap and writes fail, a fixture that is listed is there after a restart
\* too (store.ts:103-138, the file is written before memory changes; Law II, "fixtures
\* are scrapped, not deleted").
NeverOnlyInMemory ==
  \A id \in FixtureIds : fxMap[id] # "absent" => fxDisk[id] # "absent"
=============================================================================
