----------------------------- MODULE ClientProofs -----------------------------
(***************************************************************************)
(* Theorems about Client and the SubscriptionRefresh in it.  One inductive *)
(* invariant each for the types, for the refresh and for the threads.      *)
(***************************************************************************)
EXTENDS Client, SequenceTheorems, TLAPS

\* Versions name documents.
LEMMA DocType == Len(Docs) \in Nat /\ 1 \in Versions
<1>1. Docs \in Seq(SUBSET Frequencies \cup {Unparsable}) /\ Docs # <<>>
  BY RefreshAssumption
<1>2. Len(Docs) \in Nat /\ Len(Docs) > 0
  BY <1>1, EmptySeq, LenProperties
<1> QED BY <1>2 DEF Versions

\* What ParseSubscriptions returns is a value of subscriptions_.
LEMMA ParsedType ==
  ASSUME NEW d \in Versions \cup {NoDoc}
  PROVE  Parsed(d) \in [Frequencies -> Versions \cup {NoDoc}]
BY DEF Parsed, NoDoc

\* A setting is on or off, and so is what comes of it over another.
LEMMA ParseType ==
  ASSUME NEW content, NEW default \in BOOLEAN
  PROVE  ParseConfigFile(content, default) \in BOOLEAN
<1>1. (content = "on") \in BOOLEAN
  OBVIOUS
<1> QED BY <1>1, Zenon DEF ParseConfigFile

\* What refresh_configs installs is a configuration.
LEMMA NewConfigType ==
  ASSUME NEW subs \in BOOLEAN, extraTags \subseteq Tags
  PROVE  NewConfig(subs) \in [subs : BOOLEAN, tags : SUBSET Tags]
BY DEF NewConfig

-----------------------------------------------------------------------------
(* Types *)

LEMMA FlagTyping == FlagsOK /\ [Next]_vars => FlagsOK'
<1> SUFFICES ASSUME FlagsOK, [Next]_vars PROVE FlagsOK'
  OBVIOUS
<1> USE DEF FlagsOK
<1>1. CASE UNCHANGED <<cfgRun, started, curl, subsRun>>
  BY <1>1
<1>2. CASE StartIgnored \/ Start \/ StartThreads \/ Stop \/ Flush \/ JoinConfig
  BY <1>2, Zenon DEF StartIgnored, Start, StartThreads, Stop, Flush, JoinConfig
<1>3. CASE InCall
  BY <1>1, <1>2, <1>3 DEF InCall, ReadGlobalInStart, ReadLocalInStart,
     InstallConfigInStart, JoinSender,
        JoinRefresher
<1>4. CASE Environment
  BY <1>1, <1>4 DEF Environment, EditFile, AddCommonTag, lifeVars
<1>5. CASE ConfigThread \/ RefresherThread \/ SenderThread
  BY <1>1, <1>5 DEF ConfigThread, CheckConfigLoop, ReadGlobal, ReadLocal, InstallConfig,
        EndConfigWait, RefresherThread, CheckRefreshLoop, EndRefreshWait, SenderThread,
        CheckSenderLoop, EndSenderRun, EndSenderWait, lifeVars
<1>6. CASE UNCHANGED vars
  BY <1>1, <1>6 DEF vars, lifeVars
<1> QED BY <1>2, <1>3, <1>4, <1>5, <1>6 DEF Next

LEMMA StaleTyping ==
  ASSUME stale \in BOOLEAN, [Next]_vars
  PROVE  stale' \in BOOLEAN
<1>1. CASE UNCHANGED stale
  BY <1>1
<1>2. CASE Receive
  <2>1. (stale \/ (reply.result = "error" /\ reply.tag \in Versions)) \in BOOLEAN
    OBVIOUS
  <2> QED BY <1>2, <2>1, Zenon DEF Receive
<1>3. CASE ParseThrows \/ EndInstall
  BY <1>3, Zenon DEF ParseThrows, EndInstall
<1>4. CASE RefresherThread
  BY <1>1, <1>2, <1>3, <1>4 DEF RefresherThread, CheckRefreshLoop, EndRefreshWait, Refresh,
        Request, Install
<1>5. CASE UNCHANGED vars
  BY <1>1, <1>5 DEF vars, refreshVars
<1>6. CASE Environment
  BY <1>1, <1>6 DEF Environment, Network, Publish, Serve, Fail, EditFile, AddCommonTag,
        refreshVars
<1>7. CASE ConfigThread \/ SenderThread
  BY <1>1, <1>7 DEF ConfigThread, CheckConfigLoop, ReadGlobal, ReadLocal, InstallConfig,
        EndConfigWait, SenderThread, CheckSenderLoop, EndSenderRun, EndSenderWait, refreshVars
<1>8. CASE StartIgnored \/ Start \/ Stop \/ InCall
  BY <1>1, <1>8 DEF StartIgnored, Start, Stop, InCall, ReadGlobalInStart, ReadLocalInStart,
        InstallConfigInStart, StartThreads, JoinSender, JoinRefresher, Flush, JoinConfig,
        refreshVars
<1> QED BY <1>4, <1>5, <1>6, <1>7, <1>8 DEF Next

LEMMA Typing == TypeOK /\ [Next]_vars => TypeOK'
<1> SUFFICES ASSUME TypeOK, [Next]_vars PROVE TypeOK'
  OBVIOUS
<1> USE DocType
<1> stale' \in BOOLEAN
  BY StaleTyping DEF TypeOK, RefreshTypeOK
<1> FlagsOK'
  BY FlagTyping DEF TypeOK
<1>1. CASE UNCHANGED vars
  BY <1>1 DEF TypeOK, RefreshTypeOK, vars, refreshVars, configVars, lifeVars
<1>2. CASE Environment
  <2>1. CASE Network /\ UNCHANGED <<configVars, lifeVars, sender>>
    BY <2>1, SMTT(30) DEF TypeOK, RefreshTypeOK, Network, Publish, Serve, Fail, Versions,
          ErrorTag, NoTag, NoDoc, NoReply, configVars, lifeVars
  <2>2. CASE \E f \in Files : \E content \in Contents[f] : EditFile(f, content)
    BY <2>2 DEF TypeOK, RefreshTypeOK, EditFile, refreshVars, lifeVars
  <2>3. CASE \E t \in Tags : AddCommonTag(t)
    BY <2>3 DEF TypeOK, RefreshTypeOK, AddCommonTag, refreshVars, lifeVars
  <2> QED BY <1>2, <2>1, <2>2, <2>3 DEF Environment
<1>3. CASE ConfigThread
  <2>1. CASE InstallConfig
    BY <2>1, NewConfigType DEF TypeOK, RefreshTypeOK, InstallConfig, refreshVars, lifeVars
  <2>2. CASE CheckConfigLoop \/ EndConfigWait
    BY <2>2 DEF TypeOK, RefreshTypeOK, CheckConfigLoop, EndConfigWait, refreshVars, lifeVars
  <2>3. CASE ReadGlobal \/ ReadLocal
    <3>1. read' \in BOOLEAN
      BY <2>3, ParseType DEF TypeOK, ReadGlobal, ReadLocal
    <3>2. /\ cfgThread' \in {"readLocal", "install"}
          /\ UNCHANGED <<files, edits, config, extraTags>>
          /\ UNCHANGED refreshVars /\ UNCHANGED lifeVars /\ UNCHANGED sender
      BY <2>3 DEF ReadGlobal, ReadLocal
    <3> QED BY <3>1, <3>2 DEF TypeOK, RefreshTypeOK, refreshVars, lifeVars
  <2> QED BY <1>3, <2>1, <2>2, <2>3 DEF ConfigThread
<1>4. CASE RefresherThread
  <2>1. CASE CheckRefreshLoop \/ EndRefreshWait
    BY <2>1 DEF TypeOK, RefreshTypeOK, CheckRefreshLoop, EndRefreshWait, configVars, lifeVars
  <2>2. CASE (Request \/ Receive \/ ParseThrows) /\ UNCHANGED <<configVars, lifeVars, sender>>
    BY <2>2 DEF TypeOK, RefreshTypeOK, Request, Receive, ParseThrows, NoReply, NoTag, NoDoc,
          configVars, lifeVars
  <2>3. ASSUME NEW f \in Frequencies, Install(f), UNCHANGED <<configVars, lifeVars, sender>>
        PROVE  TypeOK'
    <3>1. Parsed(reply.body) \in [Frequencies -> Versions \cup {NoDoc}]
      BY ParsedType DEF TypeOK, RefreshTypeOK
    <3> QED BY <2>3, <3>1 DEF TypeOK, RefreshTypeOK, Install, configVars, lifeVars
  <2>4. CASE EndInstall /\ UNCHANGED <<configVars, lifeVars, sender>>
    BY <2>4 DEF TypeOK, RefreshTypeOK, EndInstall, NoReply, NoTag, NoDoc,
          configVars, lifeVars
  <2> QED BY <1>4, <2>1, <2>2, <2>3, <2>4 DEF RefresherThread, Refresh
<1>5. CASE SenderThread
  BY <1>5 DEF TypeOK, RefreshTypeOK, SenderThread, CheckSenderLoop, EndSenderRun,
        EndSenderWait, refreshVars, configVars, lifeVars
<1>6. CASE StartIgnored \/ Start \/ Stop
  BY <1>6 DEF TypeOK, RefreshTypeOK, StartIgnored, Start, Stop, refreshVars, configVars
<1>7. CASE InCall
  <2>1. CASE InstallConfigInStart
    BY <2>1, NewConfigType DEF TypeOK, RefreshTypeOK, InstallConfigInStart, refreshVars
  <2>2. CASE StartThreads
    BY <2>2 DEF TypeOK, RefreshTypeOK, StartThreads, refreshVars
  <2>4. CASE ReadGlobalInStart \/ ReadLocalInStart
    <3>1. read' \in BOOLEAN
      BY <2>4, ParseType DEF TypeOK, ReadGlobalInStart, ReadLocalInStart
    <3>2. /\ caller' \in {"readLocal", "installConfig"}
          /\ UNCHANGED <<files, edits, config, extraTags, cfgThread, sender>>
          /\ UNCHANGED refreshVars /\ UNCHANGED <<starts, FlagsOK>>
      BY <2>4 DEF ReadGlobalInStart, ReadLocalInStart, FlagsOK
    <3> QED BY <3>1, <3>2 DEF TypeOK, RefreshTypeOK, refreshVars
  <2>3. CASE JoinSender \/ JoinRefresher \/ Flush \/ JoinConfig
    BY <2>3 DEF TypeOK, RefreshTypeOK, JoinSender, JoinRefresher, Flush, JoinConfig,
          refreshVars, configVars
  <2> QED BY <1>7, <2>1, <2>2, <2>3, <2>4 DEF InCall
<1> QED BY <1>1, <1>2, <1>3, <1>4, <1>5, <1>6, <1>7 DEF Next

LEMMA InitTyping == Init => TypeOK
<1> SUFFICES ASSUME Init PROVE TypeOK
  OBVIOUS
<1>1. RefreshTypeOK
  BY DocType, ParsedType DEF Init, RefreshInit, RefreshTypeOK, NoReply, NoTag, NoDoc
<1>2. CurrentSubs \in BOOLEAN
  BY ParseType DEF CurrentSubs
<1>3. config \in [subs : BOOLEAN, tags : SUBSET Tags]
  BY <1>2 DEF Init
<1>4. FlagsOK
  BY DEF Init, FlagsOK
<1> QED BY <1>1, <1>3, <1>4 DEF Init, TypeOK


\* Every variable of the client keeps its type.
THEOREM TypeCorrect == Spec => []TypeOK
BY InitTyping, Typing, PTL DEF Spec

-----------------------------------------------------------------------------
(* Start and Stop *)

\* A client that is not started has no threads and makes no call; Stop joins the
\* sender, then the refresher; whatever runs, runs with curl started.
LifeInv ==
  /\ ~started => /\ caller = "ready" /\ cfgThread = "off"
                 /\ sender = "off" /\ refresher = "off"
  /\ started => curl
  /\ caller \in {"readGlobal", "readLocal", "installConfig", "startThreads"} =>
       sender = "off" /\ refresher = "off"
  /\ caller \in {"joinRefresher", "flush", "joinConfig"} => sender = "off"
  /\ caller \in {"flush", "joinConfig"} => refresher = "off"

LEMMA LifeStep == TypeOK /\ LifeInv /\ [Next]_vars => LifeInv'
<1> SUFFICES ASSUME TypeOK, LifeInv, [Next]_vars PROVE LifeInv'
  OBVIOUS
<1> USE DEF LifeInv
<1>1. CASE UNCHANGED vars
  BY <1>1 DEF vars, refreshVars, configVars, lifeVars
<1>2. CASE Environment
  BY <1>2 DEF Environment, Network, Publish, Serve, Fail, EditFile, AddCommonTag,
        refreshVars, configVars, lifeVars
<1>3. CASE ConfigThread
  BY <1>3 DEF ConfigThread, CheckConfigLoop, ReadGlobal, ReadLocal, InstallConfig,
     EndConfigWait,
        refreshVars, lifeVars
<1>4. CASE RefresherThread
  BY <1>4 DEF RefresherThread, CheckRefreshLoop, EndRefreshWait, Refresh, Request,
        Receive, ParseThrows, Install, EndInstall, configVars, lifeVars
<1>5. CASE SenderThread
  BY <1>5 DEF SenderThread, CheckSenderLoop, EndSenderRun, EndSenderWait, refreshVars,
        configVars, lifeVars
<1>6. CASE StartIgnored \/ Start \/ Stop
  BY <1>6 DEF StartIgnored, Start, Stop, refreshVars, configVars
<1>7. CASE InCall
  <2>1. CASE ReadGlobalInStart \/ ReadLocalInStart \/ InstallConfigInStart \/ StartThreads
    BY <2>1 DEF ReadGlobalInStart, ReadLocalInStart, InstallConfigInStart, StartThreads,
       refreshVars
  <2>2. CASE JoinSender \/ JoinRefresher \/ Flush \/ JoinConfig
    BY <2>2 DEF JoinSender, JoinRefresher, Flush, JoinConfig, refreshVars, configVars
  <2> QED BY <1>7, <2>1, <2>2 DEF InCall
<1> QED BY <1>1, <1>2, <1>3, <1>4, <1>5, <1>6, <1>7 DEF Next

LEMMA LifeInvariant == Spec => []LifeInv
<1>1. Init => LifeInv
  BY DEF Init, RefreshInit, LifeInv
<1> QED BY <1>1, LifeStep, TypeCorrect, PTL DEF Spec

\* The flush of a stop finds the other threads ended.
THEOREM FlushesAlone == Spec => []FlushIsAlone
<1>1. LifeInv => FlushIsAlone
  BY DEF LifeInv, FlushIsAlone
<1> QED BY <1>1, LifeInvariant, PTL

\* Nothing is transferred outside http::global_init and global_shutdown.
THEOREM TransfersWithCurl == Spec => []CurlIsUp
<1>1. LifeInv => CurlIsUp
  BY DEF LifeInv, CurlIsUp
<1> QED BY <1>1, LifeInvariant, PTL

\* A refresh of the configuration never loses a common tag.
THEOREM TagsAreKept == Spec => TagsStay
<1> DEFINE TagsInv == config.tags \subseteq extraTags
<1>1. Init => TagsInv
  BY DEF Init
<1>2. TypeOK /\ TagsInv /\ [Next]_vars => TagsInv' /\ [config.tags \subseteq config'.tags]_vars
  <2> SUFFICES ASSUME TagsInv, [Next]_vars PROVE TagsInv' /\ config.tags \subseteq config'.tags
    OBVIOUS
  <2>1. CASE InstallConfig \/ InstallConfigInStart
    BY <2>1 DEF InstallConfig, InstallConfigInStart, NewConfig
  <2>2. CASE \E t \in Tags : AddCommonTag(t)
    BY <2>2 DEF AddCommonTag
  <2>3. CASE UNCHANGED <<config, extraTags>>
    BY <2>3
  <2>4. CASE UNCHANGED vars
    BY <2>3, <2>4 DEF vars, configVars
  <2>5. CASE Environment
    BY <2>5, <2>2, <2>3 DEF Environment, EditFile, configVars
  <2>6. CASE ConfigThread
    BY <2>6, <2>1, <2>3 DEF ConfigThread, CheckConfigLoop, ReadGlobal, ReadLocal, EndConfigWait
  <2>7. CASE RefresherThread \/ SenderThread
    BY <2>7, <2>3 DEF RefresherThread, CheckRefreshLoop, EndRefreshWait, SenderThread,
          CheckSenderLoop, EndSenderRun, EndSenderWait, configVars
  <2>8. CASE StartIgnored \/ Start \/ Stop \/ InCall
    BY <2>8, <2>1, <2>3 DEF StartIgnored, Start, Stop, InCall, ReadGlobalInStart,
       ReadLocalInStart,
          StartThreads, JoinSender, JoinRefresher, Flush, JoinConfig, configVars
  <2> QED BY <2>4, <2>5, <2>6, <2>7, <2>8 DEF Next
<1> QED BY <1>1, <1>2, TypeCorrect, PTL DEF Spec, TagsStay

-----------------------------------------------------------------------------
(* The refresh *)

\* An answer is only there while it is received and installed; unless it is an error,
\* its tag is that of its document, of the document the client has, or none.  In the middle of
\* an installation the frequencies already moved are the new document's.
RefreshInv ==
  /\ reply # NoReply => refresher \in {"get", "install"}
  /\ reply.result = "none" => reply = NoReply
  /\ moved # {} => refresher = "install"
  /\ reply.result = "200" => reply.body \in Versions /\ reply.tag \in {reply.body, NoTag}
  /\ reply.result = "304" => reply.tag \in {current_etag, NoTag}
  /\ refresher = "install" =>
       /\ reply.result = "200" /\ current_etag = reply.tag
       /\ \A f \in moved : subscriptions[f] = Parsed(reply.body)[f]
  /\ InstalledIsTagged

LEMMA RefreshStep == TypeOK /\ LifeInv /\ RefreshInv /\ [Next]_vars => RefreshInv'
<1> SUFFICES ASSUME TypeOK, LifeInv, RefreshInv, [Next]_vars PROVE RefreshInv'
  OBVIOUS
<1> DEFINE Same == UNCHANGED <<current_etag, subscriptions, reply, moved, stale>>
<1>1. ASSUME Same, refresher' = refresher PROVE RefreshInv'
  BY <1>1 DEF RefreshInv, InstalledIsTagged
<1>2. ASSUME Same, refresher \notin {"get", "install"}, refresher' # "install"
      PROVE  RefreshInv'
  BY <1>2 DEF RefreshInv, InstalledIsTagged
<1>3. CASE Serve
  BY <1>3 DEF Serve, RefreshInv, InstalledIsTagged, TypeOK, RefreshTypeOK, NoReply, NoTag,
     NoDoc,
        Versions
<1>4. CASE Fail
  BY <1>4 DEF Fail, RefreshInv, InstalledIsTagged, TypeOK, RefreshTypeOK, NoReply
<1>5. CASE Receive
  <2>1. reply \in [result : {"none", "200", "304", "error", "broken"},
                  tag : Versions \cup {ErrorTag, NoTag}, body : Versions \cup {NoDoc}]
    BY DEF TypeOK, RefreshTypeOK
  <2>2. CASE reply.result = "200"
    BY <1>5, <2>2 DEF Receive, RefreshInv, InstalledIsTagged
  <2>3. CASE reply.result # "200"
    <3>1. \/ current_etag' \notin Versions \/ stale'
          \/ current_etag' = current_etag /\ (stale => stale')
      <4>1. NoTag \notin Versions
        BY DEF NoTag, Versions
      <4>2. CASE reply.result = "broken"
        BY <1>5, <4>2 DEF Receive
      <4>3. CASE reply.result = "304"
        BY <1>5, <4>1, <4>3 DEF Receive, RefreshInv
      <4>4. CASE reply.result = "error"
        BY <1>5, <4>4 DEF Receive
      <4>5. CASE reply.result = "none"
        BY <1>5, <4>5 DEF Receive, RefreshInv
      <4> QED BY <2>1, <2>3, <4>2, <4>3, <4>4, <4>5
    <3>2. Versions' = Versions
      BY DEF Versions
    <3> QED BY <1>5, <2>3, <3>1, <3>2 DEF Receive, RefreshInv, InstalledIsTagged, NoReply, NoTag
  <2> QED BY <2>2, <2>3
<1>6. ASSUME NEW f \in Frequencies, Install(f) PROVE RefreshInv'
  BY <1>6 DEF Install, RefreshInv, InstalledIsTagged, TypeOK, RefreshTypeOK
<1>7. CASE EndInstall
  <2>1. Parsed(reply.body) \in [Frequencies -> Versions \cup {NoDoc}]
    BY ParsedType DEF TypeOK, RefreshTypeOK
  <2>2. subscriptions = Parsed(reply.body)
    BY <1>7, <2>1 DEF EndInstall, RefreshInv, TypeOK, RefreshTypeOK
  <2>3. current_etag \in {reply.body, NoTag} /\ NoTag \notin Versions
    BY <1>7 DEF EndInstall, RefreshInv, NoTag, Versions
  <2> QED BY <1>7, <2>2, <2>3 DEF EndInstall, RefreshInv, InstalledIsTagged, NoReply
<1>13. CASE ParseThrows
  BY <1>13 DEF ParseThrows, RefreshInv, InstalledIsTagged, NoReply
<1>8. CASE UNCHANGED refreshVars
  BY <1>1, <1>8 DEF refreshVars
<1>9. CASE Environment
  BY <1>9, <1>1, <1>3, <1>4, <1>8 DEF Environment, Network, Publish, EditFile, AddCommonTag
<1>10. CASE RefresherThread
  BY <1>10, <1>2, <1>5, <1>6, <1>7, <1>13 DEF RefresherThread, Refresh, Request, CheckRefreshLoop,
        EndRefreshWait
<1>11. CASE InCall
  <2>1. CASE StartThreads \/ JoinRefresher
    BY <1>2, <2>1 DEF StartThreads, JoinRefresher, LifeInv
  <2>2. CASE ReadGlobalInStart \/ ReadLocalInStart
          \/ InstallConfigInStart \/ JoinSender \/ Flush \/ JoinConfig
    BY <1>8, <2>2 DEF ReadGlobalInStart, ReadLocalInStart, InstallConfigInStart,
       JoinSender, Flush, JoinConfig
  <2> QED BY <1>11, <2>1, <2>2 DEF InCall
<1>12. CASE ConfigThread \/ SenderThread \/ StartIgnored \/ Start \/ Stop
  BY <1>8, <1>12 DEF ConfigThread, CheckConfigLoop, ReadGlobal, ReadLocal, InstallConfig,
     EndConfigWait,
        SenderThread, CheckSenderLoop, EndSenderRun, EndSenderWait, StartIgnored, Start, Stop
<1> QED BY <1>8, <1>9, <1>10, <1>11, <1>12 DEF Next, vars

\* The ETag the client sends, if it is a document's, is that of the subscriptions it
\* has, unless an error left it or a document that came was not installed.
THEOREM TagNamesSubscriptions == Spec => []InstalledIsTagged
<1>1. Init => RefreshInv
  BY DEF Init, RefreshInit, RefreshInv, InstalledIsTagged, NoReply, NoTag, Versions
<1>2. RefreshInv => InstalledIsTagged
  BY DEF RefreshInv
<1> QED BY <1>1, <1>2, RefreshStep, LifeInvariant, TypeCorrect, PTL DEF Spec
=============================================================================
