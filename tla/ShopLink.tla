------------------------------- MODULE ShopLink ------------------------------
(***************************************************************************)
(* How a bench learns that an agent is connected.  The MCP process writes  *)
(* .jig/cache/shop.json (mcp/heartbeat.ts), the server reads it on every   *)
(* reload and judges its freshness at every read (store.ts), a tick finds  *)
(* the silent deaths (shop-freshness.ts), and every state goes to all open *)
(* sockets (http.ts).  Time is counted in refresh periods: SHOP_HEARTBEAT_ *)
(* REFRESH_MS and SHOP_FRESHNESS_TICK_MS are one, SHOP_HEARTBEAT_STALE_MS  *)
(* is StaleAfter of them.  A time stamp is kept as its age.                *)
(***************************************************************************)
EXTENDS Naturals

CONSTANTS Clients,     \* browser tabs that may open /ws
          Reloads,     \* reloads of the store that may overlap
          StaleAfter,  \* SHOP_HEARTBEAT_STALE_MS in refresh periods
          None,        \* no file, no write, no heartbeat
          Idle         \* no reload under way

ASSUME ShopAssumption ==
  /\ StaleAfter \in Nat \ {0}
  /\ None \notin Nat /\ Idle \notin Nat /\ Idle # None

VARIABLES shAgent,   \* the MCP process
          shTimer,   \* its refresh interval is set
          shWrite,   \* its writes of shop.json under way: the age of their lastSeen
          shFile,    \* shop.json on disk: the age of lastSeen, or None
          shSince,   \* how long ago the MCP process was last running
          shServer,  \* the server: down, loaded, open, closing, draining
          shMem,     \* JigStore.shopHeartbeat
          shReload,  \* what each reload under way has read
          shChange,  \* a .jig/ change the watcher still owes a reload
          shLast,    \* lastWired of watchShopFreshness
          shTicked,  \* the freshness tick of this period has fired
          shSeen     \* what each tab was last told of wiring.shop

shopVars == <<shAgent, shTimer, shWrite, shFile, shSince, shServer, shMem,
              shReload, shChange, shLast, shTicked, shSeen>>
agentVars == <<shAgent, shTimer, shWrite, shFile, shSince>>
serverVars == <<shServer, shMem, shReload, shChange, shLast, shTicked, shSeen>>

Age     == 0 .. StaleAfter
Writes  == {"first", "last", "older", "awaited"}
Older(a) == IF a \in Age THEN (IF a = StaleAfter THEN a ELSE a + 1) ELSE a

\* Mutant: a record, however old, is a live shop.
FreshNoClock(rec) == rec # None

\* isHeartbeatFresh, asked of the cached record at the time of the call.
isHeartbeatFresh(rec) == rec # None /\ rec < StaleAfter

getWiring(rec) == IF isHeartbeatFresh(rec) THEN "wired" ELSE "none"

ShopTypeOK ==
  /\ shAgent \in {"absent", "connected", "closing", "leaving"}
  /\ shTimer \in BOOLEAN
  /\ shWrite \in [Writes -> Age \cup {None}]
  /\ shFile \in Age \cup {None}
  /\ shSince \in Age
  /\ shServer \in {"down", "loaded", "open", "closing", "draining"}
  /\ shMem \in Age \cup {None}
  /\ shReload \in [Reloads -> Age \cup {None, Idle}]
  /\ shChange \in BOOLEAN /\ shLast \in BOOLEAN /\ shTicked \in BOOLEAN
  /\ shSeen \in [Clients -> {"off", "wired", "none"}]

ShopInit ==
  /\ shAgent = "absent" /\ shTimer = FALSE
  /\ shWrite = [w \in Writes |-> None]
  /\ shFile = None /\ shSince = StaleAfter
  /\ shServer = "down" /\ shMem = None
  /\ shReload = [r \in Reloads |-> Idle]
  /\ shChange = FALSE /\ shLast = FALSE /\ shTicked = TRUE
  /\ shSeen = [c \in Clients |-> "off"]

Watching == shServer \in {"open", "closing"}

\* fs.watch notices every change of .jig/cache while the server watches.
Touch == shChange' = (shChange \/ Watching)

----------------------------------------------------------------------------
(* The MCP process: ShopHeartbeat and the handlers of createJigMcpServer.  *)

\* oninitialized: start() composes the first write; its lastSeen is now.
Initialized ==
  /\ shAgent = "absent"
  /\ shAgent' = "connected"
  /\ shWrite' = [shWrite EXCEPT !["first"] = 0]
  /\ shSince' = 0
  /\ UNCHANGED <<shTimer, shFile>> /\ UNCHANGED serverVars

\* An atomic write renames its file into place; behind the first one start()
\* sets the interval, whether or not stop() has been called meanwhile.
WriteLands(w) ==
  /\ shWrite[w] # None
  /\ shFile' = shWrite[w]
  /\ shWrite' = [shWrite EXCEPT ![w] = None]
  /\ shTimer' = (shTimer \/ w = "first")
  /\ Touch
  /\ UNCHANGED <<shAgent, shSince, shServer, shMem, shReload, shLast, shTicked, shSeen>>

\* A write that rejects is logged; a failed first write leaves no interval.
WriteFails(w) ==
  /\ shWrite[w] # None
  /\ shWrite' = [shWrite EXCEPT ![w] = None]
  /\ UNCHANGED <<shAgent, shTimer, shFile, shSince>> /\ UNCHANGED serverVars

\* The interval: pendingWrite is replaced, an earlier write may still be under way.
Refresh ==
  /\ shTimer
  /\ shWrite["older"] = None
  /\ shWrite' = [shWrite EXCEPT !["older"] = shWrite["last"], !["last"] = 0]
  /\ UNCHANGED <<shAgent, shTimer, shFile, shSince>> /\ UNCHANGED serverVars

\* onclose: stop() clears the interval and awaits the pendingWrite of this moment.
TransportCloses ==
  /\ shAgent = "connected"
  /\ shAgent' = "closing"
  /\ shTimer' = FALSE
  /\ shWrite' = [shWrite EXCEPT !["awaited"] = shWrite["last"], !["last"] = None]
  /\ UNCHANGED <<shFile, shSince>> /\ UNCHANGED serverVars

\* rm(shop.json, force), whose failure is swallowed; the command then returns.
StopDeletes ==
  /\ shAgent = "closing"
  /\ shWrite["awaited"] = None
  /\ shAgent' = "leaving"
  /\ \/ shFile' = None /\ Touch
     \/ UNCHANGED <<shFile, shChange>>
  /\ UNCHANGED <<shTimer, shWrite, shSince, shServer, shMem, shReload, shLast, shTicked, shSeen>>

\* The process ends when no write keeps its event loop alive (timers are unref'd).
AgentExits ==
  /\ shAgent = "leaving"
  /\ \A w \in Writes : shWrite[w] = None
  /\ shAgent' = "absent"
  /\ shTimer' = FALSE
  /\ UNCHANGED <<shWrite, shFile, shSince>> /\ UNCHANGED serverVars

\* A crash: nothing of stop() runs and writes under way are lost.
AgentCrashes ==
  /\ shAgent # "absent"
  /\ shAgent' = "absent"
  /\ shTimer' = FALSE
  /\ shWrite' = [w \in Writes |-> None]
  /\ UNCHANGED <<shFile, shSince>> /\ UNCHANGED serverVars

----------------------------------------------------------------------------
(* The server.                                                             *)

\* broadcastState: composedState to every socket that is open.
Broadcast(rec) ==
  shSeen' = [c \in Clients |-> IF shSeen[c] = "off" THEN "off" ELSE getWiring(rec)]

\* createJigServer up to the watcher: store.init() has loaded the heartbeat.
BootLoads ==
  /\ shServer = "down"
  /\ shServer' = "loaded"
  /\ shMem' = shFile
  /\ UNCHANGED agentVars /\ UNCHANGED <<shReload, shChange, shLast, shTicked, shSeen>>

\* The rest of createJigServer: watcher, freshness tick, upgrade handler, listen.
BootListens ==
  /\ shServer = "loaded"
  /\ shServer' = "open"
  /\ shLast' = isHeartbeatFresh(shMem)
  /\ shTicked' = FALSE
  /\ UNCHANGED agentVars /\ UNCHANGED <<shMem, shReload, shChange, shSeen>>

\* The debounce timer fires: reload() runs, reading shop.json last.
WatcherFires(r) ==
  /\ Watching /\ shChange
  /\ shReload[r] = Idle
  /\ shChange' = FALSE
  /\ shReload' = [shReload EXCEPT ![r] = shFile]
  /\ UNCHANGED agentVars /\ UNCHANGED <<shServer, shMem, shLast, shTicked, shSeen>>

\* reload() stores what it read and the new state is broadcast.
ReloadApplies(r) ==
  /\ shReload[r] # Idle
  /\ shMem' = shReload[r]
  /\ shReload' = [shReload EXCEPT ![r] = Idle]
  /\ Broadcast(shReload[r])
  /\ UNCHANGED agentVars /\ UNCHANGED <<shServer, shChange, shLast, shTicked>>

\* notify() of the orders, prompts or target runner: the whole state goes out.
Notify ==
  /\ Watching
  /\ Broadcast(shMem)
  /\ UNCHANGED agentVars
  /\ UNCHANGED <<shServer, shMem, shReload, shChange, shLast, shTicked>>

\* Mutant: only a shop that comes back is told.
TickWhenBack ==
  /\ Watching /\ ~shTicked
  /\ shTicked' = TRUE
  /\ shLast' = isHeartbeatFresh(shMem)
  /\ IF isHeartbeatFresh(shMem) /\ ~shLast THEN Broadcast(shMem) ELSE UNCHANGED shSeen
  /\ UNCHANGED agentVars /\ UNCHANGED <<shServer, shMem, shReload, shChange>>

\* watchShopFreshness: a broadcast when wired/none has changed since the last tick.
FreshnessTick ==
  /\ Watching /\ ~shTicked
  /\ shTicked' = TRUE
  /\ shLast' = isHeartbeatFresh(shMem)
  /\ IF shLast' # shLast THEN Broadcast(shMem) ELSE UNCHANGED shSeen
  /\ UNCHANGED agentVars /\ UNCHANGED <<shServer, shMem, shReload, shChange>>

\* wss 'connection': a new socket is sent the state at once.
Connect(c) ==
  /\ Watching /\ shSeen[c] = "off"
  /\ shSeen' = [shSeen EXCEPT ![c] = getWiring(shMem)]
  /\ UNCHANGED agentVars
  /\ UNCHANGED <<shServer, shMem, shReload, shChange, shLast, shTicked>>

Disconnect(c) ==
  /\ shSeen[c] # "off"
  /\ shSeen' = [shSeen EXCEPT ![c] = "off"]
  /\ UNCHANGED agentVars
  /\ UNCHANGED <<shServer, shMem, shReload, shChange, shLast, shTicked>>

\* close(): the target is stopped first; everything still runs meanwhile.
CloseBegins ==
  /\ shServer = "open"
  /\ shServer' = "closing"
  /\ UNCHANGED agentVars /\ UNCHANGED <<shMem, shReload, shChange, shLast, shTicked, shSeen>>

\* then watcher, tick and sockets go, and wss refuses new upgrades,
CloseDrops ==
  /\ shServer = "closing"
  /\ shServer' = "draining"
  /\ shChange' = FALSE
  /\ shTicked' = TRUE
  /\ shSeen' = [c \in Clients |-> "off"]
  /\ UNCHANGED agentVars /\ UNCHANGED <<shMem, shReload, shLast>>

\* then drafts, builds and the mirror are drained and the listener closes.
CloseEnds ==
  /\ shServer = "draining"
  /\ shServer' = "down"
  /\ shMem' = None
  /\ shReload' = [r \in Reloads |-> Idle]
  /\ shLast' = FALSE
  /\ UNCHANGED agentVars /\ UNCHANGED <<shChange, shTicked, shSeen>>

\* A write, the debounce and a reload take well under a period: what is still
\* under way when a period ends was begun in that period.
WithinAPeriod ==
  /\ \A w \in Writes : shWrite[w] \in {None, 0}
  /\ \A r \in Reloads : shReload[r] \in {Idle, None, 0}
  /\ shChange => shFile \in {None, 0}

\* A refresh period passes.  A watching server's tick has fired in each one.
TimePasses ==
  /\ shTicked
  /\ WithinAPeriod
  /\ shTicked' = ~Watching
  /\ shWrite' = [w \in Writes |-> Older(shWrite[w])]
  /\ shFile' = Older(shFile)
  /\ shMem' = Older(shMem)
  /\ shReload' = [r \in Reloads |-> Older(shReload[r])]
  /\ shSince' = IF shAgent = "absent" THEN Older(shSince) ELSE 0
  /\ UNCHANGED <<shAgent, shTimer, shServer, shChange, shLast, shSeen>>

ServerStep ==
  \/ \E r \in Reloads : WatcherFires(r) \/ ReloadApplies(r)
  \/ FreshnessTick

ShopNext ==
  \/ Initialized \/ Refresh \/ TransportCloses \/ StopDeletes
  \/ AgentExits \/ AgentCrashes
  \/ \E w \in Writes : WriteLands(w) \/ WriteFails(w)
  \/ BootLoads \/ BootListens \/ Notify
  \/ CloseBegins \/ CloseDrops \/ CloseEnds
  \/ \E c \in Clients : Connect(c) \/ Disconnect(c)
  \/ ServerStep \/ TimePasses

ShopSpec == ShopInit /\ [][ShopNext]_shopVars

WriteStep == \E w \in Writes : WriteLands(w) \/ WriteFails(w)

\* The timers and the reload of a running server fire and writes end; agents and
\* tabs owe nothing.
ShopFairness ==
  /\ WF_shopVars(ServerStep) /\ WF_shopVars(WriteStep) /\ WF_shopVars(TimePasses)

ShopFairSpec == ShopSpec /\ ShopFairness

----------------------------------------------------------------------------
\* A heartbeat counts as connected only while the MCP process that wrote it was
\* running less than StaleAfter periods ago: a file a crash or a late rename
\* leaves behind (mcp/heartbeat.ts:105, :125) cannot keep wiring.shop 'wired'.
WiredMeansAlive == getWiring(shMem) = "wired" => shSince < StaleAfter

\* A tab that shows a shop that is gone, or misses one that is there, is told, or
\* the fact turns true again (shop-freshness.ts:32, http.ts:475): no tab keeps a
\* wrong answer for ever, whatever was crashed, lost or reordered.
TabsHearOfTheShop ==
  \A c \in Clients :
    (Watching /\ shSeen[c] # "off" /\ shSeen[c] # getWiring(shMem))
      ~> (~Watching \/ shSeen[c] = "off" \/ shSeen[c] = getWiring(shMem))
=============================================================================
