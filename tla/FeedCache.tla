------------------------------- MODULE FeedCache -------------------------------
(***************************************************************************)
(* The lists the agent keeps for the sensor: the CTI blacklist             *)
(* (policy/sync.py, ioc_cache.py) and the managed lists                    *)
(* (policy/listfile_sync.py).  The main loop pulls the list over HTTP with *)
(* the ETag of the one it has; the MQTT thread applies the blacklist a     *)
(* message brings, or pulls the managed lists when one arrives.  An apply  *)
(* writes the cache through a .tmp file and then a stamp, which the        *)
(* sensor looks at.                                                        *)
(*                                                                         *)
(* One list is looked at in a behaviour.  A list is its version, with the  *)
(* same ETag on either way.  The write of the .tmp file is one step, and   *)
(* so are the sensor's looks at the stamp and the cache.  The agent's own  *)
(* enforcer reads the managed lists as the sensor's does.                  *)
(***************************************************************************)
EXTENDS Integers, SequencesExt

CONSTANTS
  Whitelisting,   \* the versions of the managed lists that allow some address
  MaxLists,       \* bound: versions the portal publishes
  MaxFeedKills,   \* bound: kills of the agent
  MaxReboots      \* bound: restarts of the sensor

ASSUME FeedAssumption ==
  /\ {MaxLists, MaxFeedKills, MaxReboots} \subseteq Nat
  /\ Whitelisting \subseteq 1 .. MaxLists

Pullers == {"loop", "mqtt"}
Lists == 0 .. MaxLists

VARIABLES
  feed,          \* the list looked at: "blacklist" or "managed"
  published,     \* its version at the portal
  announced,     \* messages on their way
  listFile,      \* the version in the cache file, 0 when there is none
  listTmp,       \* the version in the .tmp file, 0 when there is none
  listStamp,     \* how often the stamp has been written
  lastEtag,      \* _last_etag, kept in memory for the blacklist
  fresh,         \* the loop has not pulled since the agent was started
  applying,      \* where each thread is, and with which version
  sensorStamp,   \* the stamp the sensor has loaded the list with
  sensorList,    \* the version it enforces
  feedKills, reboots,
  overlapped,    \* history: two applies have met since the agent was started
  unmarked       \* history: the agent was killed before it wrote the stamp

sensorPart == <<sensorStamp, sensorList, reboots>>
filePart == <<listFile, listTmp, listStamp>>
feedVars == <<feed, published, announced, filePart, lastEtag, fresh, applying, sensorPart,
              feedKills, overlapped, unmarked>>

NeverLoaded == -MaxLists - 1

FeedTypeOK ==
  /\ feed \in {"blacklist", "managed"} /\ published \in Lists
  /\ announced \in Seq(Lists) /\ Len(announced) <= MaxLists
  /\ {listFile, listTmp, lastEtag, sensorList} \subseteq Lists
  /\ listStamp \in Nat /\ sensorStamp \in Int
  /\ {fresh, overlapped, unmarked} \subseteq BOOLEAN
  /\ applying \in [Pullers -> [at : {"idle", "check", "rename", "stamp", "note", "exit", "dead"},
                               list : Lists]]
  /\ feedKills \in 0 .. MaxFeedKills /\ reboots \in 0 .. MaxReboots

AtNothing == [at |-> "idle", list |-> 0]

FeedInit ==
  /\ feed \in {"blacklist", "managed"} /\ published = 0 /\ announced = <<>>
  /\ listFile = 0 /\ listTmp = 0 /\ listStamp = 0
  /\ lastEtag = 0 /\ fresh = TRUE
  /\ applying = [t \in Pullers |-> AtNothing]
  /\ sensorStamp = NeverLoaded /\ sensorList = 0
  /\ feedKills = 0 /\ reboots = 0 /\ overlapped = FALSE /\ unmarked = FALSE

OtherPuller(t) == IF t = "loop" THEN "mqtt" ELSE "loop"
To(t, at) == applying' = [applying EXCEPT ![t].at = at]
Stop(t) == applying' = [applying EXCEPT ![t] = AtNothing]

-----------------------------------------------------------------------------
\* The portal publishes the next version; the message may be lost.
PublishList ==
  /\ published < MaxLists
  /\ published' = published + 1
  /\ announced' \in {announced, Append(announced, published + 1)}
  /\ UNCHANGED <<feed, filePart, lastEtag, fresh, applying, sensorPart, feedKills, overlapped, unmarked>>

\* If-None-Match of a pull: _last_etag, or the ETag in the cache; none on the first pull.
SentEtag(t) ==
  IF t = "loop" /\ fresh THEN 0 ELSE IF feed = "blacklist" THEN lastEtag ELSE listFile

\* pull_http_feed, up to the answer: 404 before the first version, 304, or the list.
Pulled(t) ==
  IF published = 0 \/ SentEtag(t) = published THEN Stop(t)
  ELSE applying' = [applying EXCEPT ![t] = [at |-> "check", list |-> published]]

PullAnswered ==
  /\ applying["loop"].at = "idle"
  /\ Pulled("loop") /\ fresh' = FALSE
  /\ UNCHANGED <<feed, published, announced, filePart, lastEtag, sensorPart, feedKills, overlapped, unmarked>>

\* The portal does not answer, or with an error.
PullRefused ==
  /\ applying["loop"].at = "idle" /\ fresh /\ fresh' = FALSE
  /\ UNCHANGED <<feed, published, announced, filePart, lastEtag, applying, sensorPart,
                 feedKills, overlapped, unmarked>>

\* _on_message: the blacklist is in the message, the managed lists are pulled.
MessageArrives ==
  /\ applying["mqtt"].at = "idle" /\ announced # <<>>
  /\ announced' = Tail(announced)
  /\ IF feed = "blacklist"
     THEN applying' = [applying EXCEPT !["mqtt"] = [at |-> "check", list |-> Head(announced)]]
     ELSE Pulled("mqtt") \/ Stop("mqtt")
  /\ UNCHANGED <<feed, published, filePart, lastEtag, fresh, sensorPart, feedKills, overlapped, unmarked>>

-----------------------------------------------------------------------------
\* Mutant: the stamp is written before the cache is replaced.
AfterStep_StampFirst(at) ==
  CASE at = "check" -> "stamp" [] at = "stamp" -> "rename" [] at = "rename" -> "note"

\* The steps of an apply: write_cache, write_stamp, and the ETag.
AfterStep(at) ==
  CASE at = "check" -> "rename" [] at = "rename" -> "stamp" [] at = "stamp" -> "note"

\* apply_artifact: a list that is in the cache is left there; another is written to the
\* .tmp file.
WriteTmp(t) ==
  /\ applying[t].at = "check"
  /\ IF listFile = applying[t].list THEN Stop(t) /\ UNCHANGED listTmp
     ELSE To(t, AfterStep("check")) /\ listTmp' = applying[t].list
  /\ UNCHANGED <<feed, published, announced, listFile, listStamp, lastEtag, fresh, sensorPart,
                 feedKills, overlapped, unmarked>>

MidApply(t) == applying[t].at \in {"rename", "stamp", "note"}

\* The .tmp file replaces the cache, with what the thread that wrote it last put there.
ReplaceCache(t) ==
  /\ applying[t].at = "rename" /\ listTmp # 0
  /\ listFile' = listTmp /\ listTmp' = 0
  /\ To(t, AfterStep("rename"))
  /\ overlapped' = (overlapped \/ MidApply(OtherPuller(t)))
  /\ UNCHANGED <<feed, published, announced, listStamp, lastEtag, fresh, sensorPart, feedKills, unmarked>>

\* The other thread has renamed it: FileNotFoundError ends the main loop, or the thread of
\* the MQTT client, which stays "connected".
TmpGone(t) ==
  /\ applying[t].at = "rename" /\ listTmp = 0
  /\ To(t, IF t = "loop" THEN "exit" ELSE "dead")
  /\ UNCHANGED <<feed, published, announced, filePart, lastEtag, fresh, sensorPart, feedKills,
                 overlapped, unmarked>>

WriteListStamp(t) ==
  /\ applying[t].at = "stamp"
  /\ listStamp' = listStamp + 1 /\ unmarked' = FALSE
  /\ To(t, AfterStep("stamp"))
  /\ UNCHANGED <<feed, published, announced, listFile, listTmp, lastEtag, fresh, sensorPart,
                 feedKills, overlapped>>

\* Mutant: only the pulls remember the ETag.
NoteEtag_OfPulls(t) ==
  /\ applying[t].at = "note"
  /\ lastEtag' = IF t = "loop" THEN applying[t].list ELSE lastEtag
  /\ Stop(t)
  /\ UNCHANGED <<feed, published, announced, filePart, fresh, sensorPart, feedKills, overlapped, unmarked>>

\* The blacklist's ETag is remembered last; nothing is left to do for the managed lists.
NoteEtag(t) ==
  /\ applying[t].at = "note"
  /\ lastEtag' = IF feed = "blacklist" THEN applying[t].list ELSE lastEtag
  /\ Stop(t)
  /\ UNCHANGED <<feed, published, announced, filePart, fresh, sensorPart, feedKills, overlapped, unmarked>>

\* __init__ reads the ETag from the cache.
Restarted ==
  /\ lastEtag' = IF feed = "blacklist" THEN listFile ELSE 0
  /\ fresh' = TRUE /\ overlapped' = FALSE
  /\ applying' = [t \in Pullers |-> AtNothing]

\* The main loop has ended: the MQTT thread finishes its message, and the agent is started
\* again.
ExitAgent ==
  /\ applying["loop"].at = "exit" /\ applying["mqtt"].at \in {"idle", "dead"}
  /\ Restarted
  /\ UNCHANGED <<feed, published, announced, filePart, sensorPart, feedKills, unmarked>>

KillPuller ==
  /\ feedKills < MaxFeedKills /\ feedKills' = feedKills + 1
  /\ Restarted
  /\ unmarked' = (unmarked \/ \E t \in Pullers : applying[t].at = "stamp")
  /\ UNCHANGED <<feed, published, announced, filePart, sensorPart>>

-----------------------------------------------------------------------------
\* What the sensor compares: the time of the stamp; for the blacklist that of the cache as
\* long as there is no stamp.
StampSeen == IF listStamp = 0 /\ feed = "blacklist" THEN -listFile ELSE listStamp

\* maybe_reload of the blacklist: when the stamp differs.
BlacklistStale == sensorStamp # StampSeen

\* maybe_reload of the managed lists: also as long as the ones loaded allow nothing.
ManagedStale ==
  sensorStamp # StampSeen \/ (sensorList \notin Whitelisting /\ sensorList # listFile)

SensorReloads ==
  /\ IF feed = "blacklist" THEN BlacklistStale ELSE ManagedStale
  /\ sensorStamp' = StampSeen /\ sensorList' = listFile
  /\ UNCHANGED <<feed, published, announced, filePart, lastEtag, fresh, applying, reboots,
                 feedKills, overlapped, unmarked>>

SensorReboots ==
  /\ reboots < MaxReboots /\ reboots' = reboots + 1
  /\ sensorStamp' = NeverLoaded /\ sensorList' = 0
  /\ UNCHANGED <<feed, published, announced, filePart, lastEtag, fresh, applying, feedKills,
                 overlapped, unmarked>>

ApplyStep(t) ==
  WriteTmp(t) \/ ReplaceCache(t) \/ TmpGone(t) \/ WriteListStamp(t) \/ NoteEtag(t)

FeedNext ==
  \/ PublishList \/ PullAnswered \/ PullRefused \/ MessageArrives \/ ExitAgent \/ KillPuller
  \/ SensorReloads \/ SensorReboots
  \/ \E t \in Pullers : ApplyStep(t)

FeedSpec == FeedInit /\ [][FeedNext]_feedVars

(***************************************************************************)
(* Fairness: both threads and the sensor go on, the agent is started again *)
(* and the portal answers a pull again and again.                          *)
(***************************************************************************)
FeedFairSpec ==
  /\ FeedSpec
  /\ WF_feedVars(PullAnswered) /\ WF_feedVars(MessageArrives) /\ WF_feedVars(ExitAgent)
  /\ \A t \in Pullers : WF_feedVars(ApplyStep(t))
  /\ WF_feedVars(SensorReloads)

-----------------------------------------------------------------------------
\* The cache ends up with the version the portal has published, whatever was lost, late or
\* killed; only the blacklist of an agent in which two applies have met may stay behind, since
\* the ETag in memory need not be that of the cache (apply_artifact, pull_http_feed).  And the
\* sensor ends up with the list in the cache, unless the agent was killed between the cache and
\* its stamp and nothing was applied since (write_cache, write_stamp, maybe_reload).
ListEnforced ==
  <>[](/\ listFile = published \/ (feed = "blacklist" /\ overlapped)
       /\ sensorList = listFile \/ unmarked)
=============================================================================
