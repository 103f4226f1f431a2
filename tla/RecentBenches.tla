---------------------------- MODULE RecentBenches ----------------------------
(***************************************************************************)
(* ~/.jig/recent.json (bench/recent.ts): a clamp puts its repo in front,   *)
(* a started target or clamped docs folder patches its entry.  Both read   *)
(* the file, await, and write it whole; nothing serialises the calls.      *)
(***************************************************************************)
EXTENDS Naturals, Sequences

CONSTANTS Repos, Urls, Calls, MaxRecent, NoUrl

ASSUME RecentAssumption == MaxRecent \in Nat \ {0}

VARIABLES rcFile,   \* the list on disk
          rcCall,   \* each call: new, or what it does and has read, or done
          rcRead
recentVars == <<rcFile, rcCall, rcRead>>

Entry == [repo : Repos, url : Urls \cup {NoUrl}]
Lists == UNION {[1 .. n -> Entry] : n \in 0 .. MaxRecent}
Idle0 == [op |-> "new"]
Done0 == [op |-> "done"]
Asked == [op : {"record", "update"}, entry : Entry]

\* The values the file and the calls on it range over.
RecentTypeOK ==
  /\ rcFile \in Lists
  /\ rcCall \in [Calls -> Asked \cup {Idle0, Done0}]
  /\ rcRead \in [Calls -> Lists]

RecentInit ==
  /\ rcFile = <<>>
  /\ rcCall = [c \in Calls |-> Idle0]
  /\ rcRead = [c \in Calls |-> <<>>]

\* Mutant: the list is never cut.
WholeList(n, list) == list

\* slice(0, n)
First(n, list) == IF Len(list) <= n THEN list ELSE SubSeq(list, 1, n)

\* filter: the entries of the other repos, in their order.
Others(repo, list) ==
  LET kept[n \in 0 .. Len(list)] ==
        IF n = 0 THEN <<>>
        ELSE IF list[n].repo = repo THEN kept[n - 1] ELSE Append(kept[n - 1], list[n])
  IN kept[Len(list)]

\* Mutant: the entry the repo had stays.
RecordBlindly(entry, list) == First(MaxRecent, <<entry>> \o list)

\* recordRecentBench: the repo moves to the front, with a fresh entry.
Recorded(entry, list) == First(MaxRecent, <<entry>> \o Others(entry.repo, list))

\* updateRecentBench: patched in place; a repo that is not listed changes nothing.
Patched(entry, list) ==
  [i \in DOMAIN list |-> IF list[i].repo = entry.repo THEN entry ELSE list[i]]

ReadRecent(c, op, entry) ==
  /\ rcCall[c] = Idle0
  /\ (op = "record") = (entry.url = NoUrl)
  /\ rcRead' = [rcRead EXCEPT ![c] = rcFile]
  /\ rcCall' = [rcCall EXCEPT ![c] = [op |-> op, entry |-> entry]]
  /\ UNCHANGED rcFile

WriteRecent(c) ==
  /\ rcCall[c] \notin {Idle0, Done0}
  /\ LET call == rcCall[c] IN
     rcFile' = IF call.op = "record" THEN Recorded(call.entry, rcRead[c])
               ELSE IF \E i \in DOMAIN rcRead[c] : rcRead[c][i].repo = call.entry.repo
               THEN Patched(call.entry, rcRead[c])
               ELSE rcFile
  /\ rcCall' = [rcCall EXCEPT ![c] = Done0]
  /\ UNCHANGED rcRead

RecentNext ==
  \E c \in Calls :
    \/ \E op \in {"record", "update"}, entry \in Entry : ReadRecent(c, op, entry)
    \/ WriteRecent(c)

RecentSpec == RecentInit /\ [][RecentNext]_recentVars

----------------------------------------------------------------------------
\* However the calls overlap, a repo is listed at most once and the list stays
\* within MAX_RECENT (recent.ts:39): an overlap may lose an entry or revive an old
\* one, it never duplicates one.
RecentWellFormed ==
  /\ Len(rcFile) <= MaxRecent
  /\ \A i, j \in DOMAIN rcFile : rcFile[i].repo = rcFile[j].repo => i = j
=============================================================================
