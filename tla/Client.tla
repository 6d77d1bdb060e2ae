-------------------------------- MODULE Client --------------------------------
(***************************************************************************)
(* atlas_client.cc, util/config_manager.cc and the threads of              *)
(* meter/subscription_manager.cc: who runs when, from Start to Stop and    *)
(* Start again.  What the sender computes is in SendLoop, what the         *)
(* refresher does in SubscriptionRefresh.                                  *)
(*                                                                         *)
(* Every wait is a wait_for: it ends by a timeout, a notification or       *)
(* spuriously, at any moment.  One application thread calls Start and Stop.*)
(***************************************************************************)
EXTENDS SubscriptionRefresh

CONSTANTS
  Tags,      \* the arguments of AddCommonTag
  Contents,  \* what each of Files may hold
  MaxEdits,  \* bound: the changes of the configuration files
  MaxStarts  \* bound: the calls of Start that are not ignored

\* kGlobalFile, local_file_name_ and disabled_file
Files == {"global", "local", "disabled"}

ASSUME ClientAssumption ==
  /\ {MaxEdits, MaxStarts} \subseteq Nat
  /\ DOMAIN Contents = Files

VARIABLES
  files,      \* what each of Files holds
  edits,      \* the number of their changes
  read,       \* what get_current_config has come to: features.subscriptions
  config,     \* current_config_: features.subscriptions, the extra common tags
  extraTags,  \* extra_tags_
  cfgRun,     \* ConfigManager's should_run_
  cfgThread,  \* where its refresher_thread is
  started,    \* Client's started
  starts,     \* the number of times it was started
  curl,       \* between http::global_init and global_shutdown
  subsRun,    \* SubscriptionManager's should_run_
  sender,     \* where its sender_thread is
  caller      \* where the application is in Start or Stop

configVars == <<files, edits, read, config, extraTags, cfgThread>>
lifeVars   == <<cfgRun, started, starts, curl, subsRun, caller>>
vars       == <<refreshVars, configVars, lifeVars, sender>>

\* ParseConfigFile: "on" and "off" set subscriptionsEnabled.  A file that cannot
\* be read, is empty, is not a JSON object or does not set it is "silent".
ParseConfigFile(content, default) == IF content = "silent" THEN default ELSE content = "on"

\* get_current_config, when no file changes while they are read; off by default.
CurrentSubs == ParseConfigFile(files["local"], ParseConfigFile(files["global"], FALSE))

\* Config::AreSubsEnabled.  FileWatcher looks the file up at every call: its limit
\* of 2000 is compared with nanoseconds.
AreSubsEnabled == files["disabled"] = "absent" /\ config.subs

Init ==
  /\ RefreshInit
  /\ files \in [Files -> UNION {Contents[f] : f \in Files}]
  /\ \A f \in Files : files[f] \in Contents[f]
  /\ edits = 0 /\ read = FALSE
  /\ config = [subs |-> CurrentSubs, tags |-> {}]
  /\ extraTags = {}
  /\ cfgRun = FALSE /\ cfgThread = "off"
  /\ started = FALSE /\ starts = 0 /\ curl = FALSE
  /\ subsRun = FALSE /\ sender = "off"
  /\ caller = "ready"

-----------------------------------------------------------------------------
(* The environment: the files, and application threads that add common tags. *)

EditFile(f, content) ==
  /\ edits < MaxEdits /\ content # files[f]
  /\ files' = [files EXCEPT ![f] = content] /\ edits' = edits + 1
  /\ UNCHANGED <<refreshVars, read, config, extraTags, cfgThread, lifeVars, sender>>

\* Not under config_mutex, a data race with InstallConfig.
AddCommonTag(tag) ==
  /\ tag \notin extraTags
  /\ extraTags' = extraTags \cup {tag}
  /\ UNCHANGED <<refreshVars, files, edits, read, config, cfgThread, lifeVars, sender>>

-----------------------------------------------------------------------------
(* ConfigManager *)

\* refresh_configs in the caller of Start or in the thread: it reads one file
\* after the other, without a lock, and locks only to install.
NewConfig(subs) == [subs |-> subs, tags |-> extraTags]

ReadGlobalInStart ==
  /\ caller = "readGlobal"
  /\ read' = ParseConfigFile(files["global"], FALSE)
  /\ caller' = "readLocal"
  /\ UNCHANGED <<refreshVars, files, edits, config, extraTags, cfgThread,
                 cfgRun, started, starts, curl, subsRun, sender>>

ReadLocalInStart ==
  /\ caller = "readLocal"
  /\ read' = ParseConfigFile(files["local"], read)
  /\ caller' = "installConfig"
  /\ UNCHANGED <<refreshVars, files, edits, config, extraTags, cfgThread,
                 cfgRun, started, starts, curl, subsRun, sender>>

InstallConfigInStart ==
  /\ caller = "installConfig"
  /\ config' = NewConfig(read)
  /\ caller' = "startThreads"
  /\ UNCHANGED <<refreshVars, files, edits, read, extraTags, cfgThread,
                 cfgRun, started, starts, curl, subsRun, sender>>

\* refresher(): the loop's condition.
CheckConfigLoop ==
  /\ cfgThread = "check"
  /\ cfgThread' = IF cfgRun THEN "readGlobal" ELSE "ended"
  /\ UNCHANGED <<refreshVars, files, edits, read, config, extraTags, lifeVars, sender>>

ReadGlobal ==
  /\ cfgThread = "readGlobal"
  /\ read' = ParseConfigFile(files["global"], FALSE)
  /\ cfgThread' = "readLocal"
  /\ UNCHANGED <<refreshVars, files, edits, config, extraTags, lifeVars, sender>>

\* Mutant: what the local file does not set is set by default, not by the global.
ReadLocalAlone ==
  /\ cfgThread = "readLocal"
  /\ read' = ParseConfigFile(files["local"], FALSE)
  /\ cfgThread' = "install"
  /\ UNCHANGED <<refreshVars, files, edits, config, extraTags, lifeVars, sender>>

ReadLocal ==
  /\ cfgThread = "readLocal"
  /\ read' = ParseConfigFile(files["local"], read)
  /\ cfgThread' = "install"
  /\ UNCHANGED <<refreshVars, files, edits, config, extraTags, lifeVars, sender>>

\* Mutant: the tags are added when the client starts, not in every refresh.
InstallConfigWithoutTags ==
  /\ cfgThread = "install"
  /\ config' = [NewConfig(read) EXCEPT !.tags = {}]
  /\ cfgThread' = "wait"
  /\ UNCHANGED <<refreshVars, files, edits, read, extraTags, lifeVars, sender>>

InstallConfig ==
  /\ cfgThread = "install"
  /\ config' = NewConfig(read)
  /\ cfgThread' = "wait"
  /\ UNCHANGED <<refreshVars, files, edits, read, extraTags, lifeVars, sender>>

EndConfigWait ==
  /\ cfgThread = "wait"
  /\ cfgThread' = "check"
  /\ UNCHANGED <<refreshVars, files, edits, read, config, extraTags, lifeVars, sender>>

ConfigThread == CheckConfigLoop \/ ReadGlobal \/ ReadLocal \/ InstallConfig \/ EndConfigWait

-----------------------------------------------------------------------------
(* SubscriptionManager's threads *)

\* Mutant: the loop ends only with the process.
CheckRefreshLoopForever ==
  /\ refresher = "check"
  /\ refresher' = IF AreSubsEnabled THEN "begin" ELSE "wait"
  /\ UNCHANGED <<served, current_etag, subscriptions, reply, moved, stale,
                 configVars, lifeVars, sender>>

\* sub_refresher: the loop's condition and its look at the configuration.
CheckRefreshLoop ==
  /\ refresher = "check"
  /\ refresher' = IF ~subsRun THEN "ended" ELSE IF AreSubsEnabled THEN "begin" ELSE "wait"
  /\ UNCHANGED <<served, current_etag, subscriptions, reply, moved, stale,
                 configVars, lifeVars, sender>>

EndRefreshWait ==
  /\ refresher = "wait"
  /\ refresher' = "check"
  /\ UNCHANGED <<served, current_etag, subscriptions, reply, moved, stale,
                 configVars, lifeVars, sender>>

RefresherThread ==
  \/ CheckRefreshLoop \/ EndRefreshWait
  \/ Refresh /\ UNCHANGED <<configVars, lifeVars, sender>>

\* main_sender: the loop's condition, a run of it, which posts, and its wait.
CheckSenderLoop ==
  /\ sender = "check"
  /\ sender' = IF subsRun THEN "run" ELSE "ended"
  /\ UNCHANGED <<refreshVars, configVars, lifeVars>>

EndSenderRun ==
  /\ sender = "run"
  /\ sender' = "wait"
  /\ UNCHANGED <<refreshVars, configVars, lifeVars>>

EndSenderWait ==
  /\ sender = "wait"
  /\ sender' = "check"
  /\ UNCHANGED <<refreshVars, configVars, lifeVars>>

SenderThread == CheckSenderLoop \/ EndSenderRun \/ EndSenderWait

-----------------------------------------------------------------------------
(* Start and Stop *)

\* In an environment that is not sane, without forceStart: only curl is started.
StartIgnored ==
  /\ caller = "ready" /\ ~started
  /\ curl' = TRUE
  /\ UNCHANGED <<refreshVars, configVars, cfgRun, started, starts, subsRun, caller, sender>>

Start ==
  /\ caller = "ready" /\ ~started /\ starts < MaxStarts
  /\ curl' = TRUE
  /\ started' = TRUE /\ starts' = starts + 1
  /\ cfgRun' = TRUE
  /\ caller' = "readGlobal"
  /\ UNCHANGED <<refreshVars, configVars, subsRun, sender>>

\* The end of ConfigManager::Start, and SubscriptionManager::Start.
StartThreads ==
  /\ caller = "startThreads"
  /\ cfgThread' = "check"
  /\ subsRun' = TRUE
  /\ refresher' = "check" /\ sender' = "check"
  /\ caller' = "ready"
  /\ UNCHANGED <<served, current_etag, subscriptions, reply, moved, stale,
                 files, edits, read, config, extraTags, cfgRun, started, starts, curl>>

\* Mutant: http::global_shutdown comes first.
StopShutsDownFirst ==
  /\ caller = "ready" /\ started
  /\ subsRun' = FALSE /\ curl' = FALSE
  /\ caller' = "joinSender"
  /\ UNCHANGED <<refreshVars, configVars, cfgRun, started, starts, sender>>

Stop ==
  /\ caller = "ready" /\ started
  /\ subsRun' = FALSE
  /\ caller' = "joinSender"
  /\ UNCHANGED <<refreshVars, configVars, cfgRun, started, starts, curl, sender>>

JoinSender ==
  /\ caller = "joinSender" /\ sender = "ended"
  /\ sender' = "off"
  /\ caller' = "joinRefresher"
  /\ UNCHANGED <<refreshVars, configVars, cfgRun, started, starts, curl, subsRun>>

\* Mutant: the refresher is left to end by itself.
DetachRefresher ==
  /\ caller = "joinRefresher"
  /\ caller' = "flush"
  /\ UNCHANGED <<refreshVars, configVars, cfgRun, started, starts, curl, subsRun, sender>>

JoinRefresher ==
  /\ caller = "joinRefresher" /\ refresher = "ended"
  /\ refresher' = "off"
  /\ caller' = "flush"
  /\ UNCHANGED <<served, current_etag, subscriptions, reply, moved, stale,
                 configVars, cfgRun, started, starts, curl, subsRun, sender>>

\* flush_metrics, twice: it posts, and reads subscriptions_ without its mutex.
\* Then ConfigManager::Stop.
Flush ==
  /\ caller = "flush"
  /\ cfgRun' = FALSE
  /\ caller' = "joinConfig"
  /\ UNCHANGED <<refreshVars, configVars, started, starts, curl, subsRun, sender>>

JoinConfig ==
  /\ caller = "joinConfig" /\ cfgThread = "ended"
  /\ cfgThread' = "off"
  /\ started' = FALSE /\ curl' = FALSE
  /\ caller' = "ready"
  /\ UNCHANGED <<refreshVars, files, edits, read, config, extraTags,
                 cfgRun, starts, subsRun, sender>>

InCall ==
  \/ ReadGlobalInStart \/ ReadLocalInStart \/ InstallConfigInStart \/ StartThreads
  \/ JoinSender \/ JoinRefresher \/ Flush \/ JoinConfig

-----------------------------------------------------------------------------
Environment ==
  \/ Network /\ UNCHANGED <<configVars, lifeVars, sender>>
  \/ \E f \in Files : \E content \in Contents[f] : EditFile(f, content)
  \/ \E tag \in Tags : AddCommonTag(tag)

Next ==
  \/ Environment
  \/ ConfigThread \/ RefresherThread \/ SenderThread
  \/ StartIgnored \/ Start \/ Stop \/ InCall

Spec == Init /\ [][Next]_vars

\* Every thread is scheduled, calls of curl return, and a server that is asked
\* again and again answers some time.
FairSpec ==
  /\ Spec
  /\ WF_vars(ConfigThread) /\ WF_vars(RefresherThread)
  /\ WF_vars(SenderThread) /\ WF_vars(InCall)
  /\ SF_vars(Serve /\ UNCHANGED <<configVars, lifeVars, sender>>)

-----------------------------------------------------------------------------
(* Properties *)

FlagsOK ==
  /\ cfgRun \in BOOLEAN /\ started \in BOOLEAN
  /\ curl \in BOOLEAN /\ subsRun \in BOOLEAN

\* Every variable keeps its type.
TypeOK ==
  /\ RefreshTypeOK
  /\ DOMAIN files = Files /\ read \in BOOLEAN /\ edits \in Nat
  /\ config \in [subs : BOOLEAN, tags : SUBSET Tags]
  /\ extraTags \subseteq Tags
  /\ cfgThread \in {"off", "check", "readGlobal", "readLocal", "install", "wait", "ended"}
  /\ sender \in {"off", "check", "run", "wait", "ended"}
  /\ FlagsOK
  /\ starts \in Nat
  /\ caller \in {"ready", "readGlobal", "readLocal", "installConfig", "startThreads",
                 "joinSender", "joinRefresher", "flush", "joinConfig"}

\* The flush of a stop uses the registries, the subscriptions and the clock
\* without a lock: no other thread of the manager is left then.
FlushIsAlone == caller = "flush" => {sender, refresher} \subseteq {"off", "ended"}

\* No thread posts, gets or flushes outside http::global_init and
\* global_shutdown, however starts and stops follow each other.
CurlIsUp ==
  refresher = "get" \/ sender = "run" \/ caller = "flush" => curl

\* A common tag that the configuration has once, it keeps.
TagsStay == [][config.tags \subseteq config'.tags]_vars

Running == started /\ caller = "ready"

\* The configuration in force becomes the files', the local over the global one
\* over the default, with every tag that was added, whenever they are edited.
ConfigConverges == <>[]Running => <>[](config = NewConfig(CurrentSubs))

\* The subscriptions become the server's, whatever requests fail meanwhile: if what
\* they leave is not stale, or not for ever.
SubscriptionsConverge ==
  <>[](Running /\ AreSubsEnabled /\ ~stale) => <>[](subscriptions = Parsed(served))

\* Start and Stop return, whatever the threads are doing.
CallsReturn == caller # "ready" ~> caller = "ready"
=============================================================================
