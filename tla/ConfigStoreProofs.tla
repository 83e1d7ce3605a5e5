-------------------------- MODULE ConfigStoreProofs --------------------------
(***************************************************************************)
(* Theorems about ConfigStore for every set of requests, every number of   *)
(* parts, all rules between them, and every number of faults and power     *)
(* cuts.                                                                   *)
(***************************************************************************)
EXTENDS ConfigStore, TLAPS

-----------------------------------------------------------------------------
(***************************************************************************)
(* The inductive invariant.                                                *)
(***************************************************************************)
Holds(file) == file.whole /\ Loaded(file) = saved

\* Whatever can become the settings keeps the rules between parts.
RulesKept ==
  /\ validate_runtime_settings(settings) /\ validate_runtime_settings(previous)
  /\ \A file \in {tmp, config, bak1, bak2} : validate_runtime_settings(Loaded(file))

\* From the write on, the temporary file holds the settings.
TmpWritten == pc \in {"rotate", "rotate2", "rotate1", "replace"} /\ ~short => tmp = File(settings)

\* The last saved configuration is config.json's, or else the newest backup's;
\* the older backup may only be removed while the newer one exists.
SavedSomewhere ==
  saved # None /\ ~short =>
    \/ Holds(config)
    \/ config = NoFile /\ Holds(bak1)
    \/ config = NoFile /\ bak1 = NoFile /\ Holds(bak2) /\ pc # "rotate2"

\* Outside a save the settings are those on disk; during one the copy is, as
\* long as the save can be rolled back without a failed rename.
Durable ==
  ~renameFailed /\ ~short =>
    /\ pc \in {"idle", "update", "ok"} => settings = Loaded(config)
    /\ pc \in {"open", "write", "rollback"} => previous = Loaded(config)

NeverSaved == saved = None => config = NoFile

SaveInv == TypeOK /\ RulesKept /\ TmpWritten /\ SavedSomewhere /\ Durable /\ NeverSaved
-----------------------------------------------------------------------------
(***************************************************************************)
(* Values, files and bodies.                                               *)
(***************************************************************************)
LEMMA DefaultsValue == Defaults \in Value /\ validate_runtime_settings(Defaults)
BY RequestAssumption, PartAssumption DEF Defaults, Whole, Value, validate_runtime_settings

\* A body merged into settings gives settings.
LEMMA MergedValue ==
  ASSUME NEW body \in Written, NEW base \in Value
  PROVE  Merged(body, base) \in Value
BY DEF Merged, Written, Value

LEMMA LoadedValue ==
  ASSUME NEW file \in FileType
  PROVE  Loaded(file) \in Value
<1>1. CASE file = NoFile
  BY <1>1, DefaultsValue DEF NoFile, Loaded
<1>2. CASE file # NoFile
  <2>1. file.body \in Written
    BY <1>2 DEF FileType
  <2> QED
    BY <2>1, DefaultsValue, MergedValue DEF Loaded, parseJson
<1> QED
  BY <1>1, <1>2

LEMMA NoFileLoaded == NoFile \in FileType /\ ~NoFile.whole /\ Loaded(NoFile) = Defaults
BY DEF NoFile, Loaded, FileType

\* Settings written in full are read back as they are.
LEMMA FileLoaded ==
  ASSUME NEW st \in Value
  PROVE  File(st) \in FileType /\ File(st).whole /\ Loaded(File(st)) = st
<1>1. st \in Written
  BY DEF Value, Written
<1>2. File(st) \in FileType /\ File(st).whole /\ File(st).body = st
  BY <1>1 DEF File, FileType
<1>3. Merged(st, Defaults) = st
  <2>1. \A i \in 1 .. Parts : st[i] # "keep"
    BY RequestAssumption DEF Value
  <2> QED
    BY <2>1 DEF Merged, Value
<1> QED
  BY <1>2, <1>3 DEF Loaded, parseJson

\* The settings are never mistaken for "nothing saved".
LEMMA ValueNotNone ==
  ASSUME NEW st \in Value
  PROVE  st # None
<1>1. 1 \in DOMAIN st
  BY PartsAssumption DEF Value
<1> QED
  BY <1>1 DEF None

LEMMA ImageLoaded ==
  ASSUME NEW body \in Image
  PROVE  File(body) \in FileType /\ File(body).whole /\ validate_runtime_settings(Loaded(File(body)))
<1>1. \A i \in 1 .. Parts : body[i] \in {"factory", "keep"}
  BY DEF Image
<1>2. body \in Written
  BY DEF Image, Written
<1>3. File(body) \in FileType /\ File(body).whole /\ File(body).body = body
  BY <1>2 DEF File, FileType
<1>4. \A i \in 1 .. Parts : Merged(body, Defaults)[i] \in {"factory", "default"}
  BY <1>1 DEF Merged, Defaults, Whole
<1>5. validate_runtime_settings(Merged(body, Defaults))
  BY <1>4, RequestAssumption, PartAssumption DEF validate_runtime_settings
<1> QED
  BY <1>3, <1>5 DEF Loaded, parseJson

LEMMA CandidateValue ==
  ASSUME settings \in Value, post_body \in Seq(Chunk), Parses(post_body)
  PROVE  Candidate(post_body) \in Value
<1> DEFINE body == [i \in 1 .. Parts |-> post_body[i].of]
<1>1. \A i \in 1 .. Parts : post_body[i] \in Chunk
  BY DEF Parses
<1>2. body \in Written
  BY <1>1 DEF Chunk, Written
<1> QED
  BY <1>2, MergedValue DEF Candidate

-----------------------------------------------------------------------------
(***************************************************************************)
(* Types.                                                                  *)
(***************************************************************************)
LEMMA SettingsTypeStep ==
  ASSUME SettingsType, FilesType, post_body \in Seq(Chunk), [Next]_vars
  PROVE  SettingsType'
<1> USE DEF SettingsType
<1>1. CASE UpdateAccepted
  BY <1>1, CandidateValue DEF UpdateAccepted, history
<1>2. CASE Replace
  BY <1>2 DEF Replace
<1>3. CASE Rollback
  BY <1>3 DEF Rollback, history
<1>4. CASE processPendingRestart \/ PowerCut
  BY <1>4, LoadedValue DEF processPendingRestart, PowerCut, Boot, FilesType
<1>5. CASE \/ \E r \in Requests : PostChunk(r)
           \/ UpdateRejected \/ Accepted \/ OpenTmp \/ WriteTmp \/ RemoveBak2 \/ RotateBak1
           \/ RotateConfig \/ handle_api_reboot \/ UNCHANGED vars
  BY <1>5 DEF PostChunk, UpdateRejected, Accepted, OpenTmp, WriteTmp, RemoveBak2, RotateBak1,
              RotateConfig, handle_api_reboot, vars, history
<1> QED
  BY <1>1, <1>2, <1>3, <1>4, <1>5 DEF Next, Handler

LEMMA FilesTypeStep ==
  ASSUME SettingsType, FilesType, [Next]_vars
  PROVE  FilesType'
<1> USE DEF FilesType
<1>1. CASE OpenTmp
  BY <1>1, NoFileLoaded DEF OpenTmp
<1>2. CASE WriteTmp
  <2>1. [body |-> settings, whole |-> FALSE] \in FileType
    BY DEF SettingsType, Value, Written, FileType
  <2> QED
    BY <1>2, <2>1, NoFileLoaded, FileLoaded DEF WriteTmp, SettingsType
<1>3. CASE RemoveBak2 \/ RotateBak1 \/ RotateConfig \/ Replace
  BY <1>3, NoFileLoaded DEF RemoveBak2, RotateBak1, RotateConfig, Replace
<1>4. CASE \/ \E r \in Requests : PostChunk(r)
           \/ UpdateRejected \/ UpdateAccepted \/ Rollback \/ Accepted \/ processPendingRestart
           \/ PowerCut \/ handle_api_reboot \/ UNCHANGED vars
  BY <1>4 DEF PostChunk, UpdateRejected, UpdateAccepted, Rollback, Accepted, processPendingRestart,
              PowerCut, Boot, handle_api_reboot, vars, files
<1> QED
  BY <1>1, <1>2, <1>3, <1>4 DEF Next, Handler

LEMMA HistoryTypeStep ==
  ASSUME HistoryType, [Next]_vars
  PROVE  HistoryType'
<1> USE BoundAssumption DEF HistoryType
<1>1. CASE OpenTmp \/ WriteTmp \/ RotateBak1 \/ RotateConfig \/ Replace
  <2>1. faults' \in 0 .. MaxFaults /\ powerCuts' = powerCuts
    BY <1>1 DEF OpenTmp, WriteTmp, RotateBak1, RotateConfig, Replace, Fault
  <2>2. renameFailed' \in BOOLEAN /\ short' \in BOOLEAN
    BY <1>1 DEF OpenTmp, WriteTmp, RotateBak1, RotateConfig, Replace
  <2> QED
    BY <2>1, <2>2
<1>2. CASE processPendingRestart \/ PowerCut
  BY <1>2 DEF processPendingRestart, PowerCut, Boot
<1>3. CASE \/ \E r \in Requests : PostChunk(r)
           \/ UpdateRejected \/ UpdateAccepted \/ Rollback \/ Accepted \/ RemoveBak2
           \/ handle_api_reboot \/ UNCHANGED vars
  BY <1>3 DEF PostChunk, UpdateRejected, UpdateAccepted, Rollback, Accepted, RemoveBak2,
              handle_api_reboot, vars, history
<1> QED
  BY <1>1, <1>2, <1>3 DEF Next, Handler

\* What an answer does to the clients.
LEMMA AnswerType ==
  ASSUME NEW word \in {"ok", "error"}, WebType, pc # "idle", Answer(word)
  PROVE  reply' \in [Requests -> {"none", "ok", "error"}] /\ cur' = None /\ pc' = "idle"
BY DEF Answer, WebType, None

LEMMA WebTypeStep ==
  ASSUME WebType, [Next]_vars
  PROVE  WebType'
<1>1. ASSUME NEW r \in Requests, PostChunk(r)
      PROVE  WebType'
  <2>1. nextPart[r] \in 1 .. Parts /\ nextPart' \in [Requests -> 1 .. Parts + 1]
    BY <1>1, PartsAssumption DEF PostChunk, WebType
  <2>2. PICK of \in Carries(r) :
          post_body' = Append(IF nextPart[r] = 1 THEN << >> ELSE post_body, [of |-> of, part |-> nextPart[r]])
    BY <1>1 DEF PostChunk
  <2>3. [of |-> of, part |-> nextPart[r]] \in Chunk
    BY <2>1, <2>2 DEF Carries, Chunk
  <2>4. post_body' \in Seq(Chunk)
    BY <2>2, <2>3 DEF WebType
  <2>5. /\ pc' \in {"idle", "update"}
        /\ cur' = None \/ \E q \in Requests : cur' = <<q>>
        /\ pc' # "idle" => cur' # None
    <3>1. CASE nextPart[r] < Parts
      BY <1>1, <3>1 DEF PostChunk, WebType
    <3>2. CASE ~(nextPart[r] < Parts)
      <4>1. pc' = "update" /\ cur' = <<r>>
        BY <1>1, <3>2 DEF PostChunk
      <4> QED
        BY <4>1 DEF None
    <3> QED
      BY <3>1, <3>2
  <2>6. reply' = reply /\ restart_pending' = restart_pending
    BY <1>1 DEF PostChunk
  <2> QED
    BY <2>1, <2>4, <2>5, <2>6 DEF WebType
<1>2. CASE UpdateRejected \/ Rollback
  BY <1>2, AnswerType DEF UpdateRejected, Rollback, WebType
<1>3. CASE Accepted
  BY <1>3, AnswerType DEF Accepted, WebType
<1>4. CASE UpdateAccepted \/ OpenTmp \/ WriteTmp \/ RemoveBak2 \/ RotateBak1 \/ RotateConfig \/ Replace
  BY <1>4 DEF UpdateAccepted, OpenTmp, WriteTmp, RemoveBak2, RotateBak1, RotateConfig, Replace, web, WebType
<1>5. CASE processPendingRestart \/ PowerCut
  <2>1. Boot
    BY <1>5 DEF processPendingRestart, PowerCut
  <2>2. nextPart' \in [Requests -> 1 .. Parts + 1]
    BY <2>1, PartsAssumption DEF Boot, WebType
  <2>3. post_body' \in Seq(Chunk) /\ cur' = None /\ pc' = "idle" /\ restart_pending' = FALSE /\ reply' = reply
    BY <2>1 DEF Boot
  <2> QED
    BY <2>2, <2>3 DEF WebType
<1>6. CASE handle_api_reboot \/ UNCHANGED vars
  BY <1>6 DEF handle_api_reboot, vars, web, WebType
<1> QED
  BY <1>1, <1>2, <1>3, <1>4, <1>5, <1>6 DEF Next, Handler

-----------------------------------------------------------------------------
(***************************************************************************)
(* The other parts of the invariant, step by step.                         *)
(***************************************************************************)
LEMMA RulesStep ==
  ASSUME SettingsType, post_body \in Seq(Chunk), RulesKept, [Next]_vars
  PROVE  RulesKept'
<1> DEFINE Ok(file) == validate_runtime_settings(Loaded(file))
<1>1. Ok(NoFile) /\ Ok(File(settings))
  BY NoFileLoaded, DefaultsValue, FileLoaded DEF SettingsType, RulesKept
<1>2. CASE UpdateAccepted
  BY <1>2 DEF UpdateAccepted, RulesKept, files, validate_runtime_settings, Loaded, parseJson, Merged, Defaults, Whole
<1>3. CASE WriteTmp
  <2>1. Ok([body |-> settings, whole |-> FALSE])
    BY DefaultsValue DEF Loaded
  <2>2. Ok(tmp')
    BY <1>1, <1>3, <2>1 DEF WriteTmp
  <2> QED
    BY <1>3, <2>2 DEF WriteTmp, RulesKept, validate_runtime_settings, Loaded
<1>4. CASE OpenTmp \/ RemoveBak2 \/ RotateBak1 \/ RotateConfig \/ Replace
  <2>1. \A file \in {tmp', config', bak1', bak2'} : file \in {NoFile, tmp, config, bak1, bak2}
    BY <1>4 DEF OpenTmp, RemoveBak2, RotateBak1, RotateConfig, Replace
  <2>2. settings' = settings /\ previous' = previous
    BY <1>4 DEF OpenTmp, RemoveBak2, RotateBak1, RotateConfig, Replace
  <2> QED
    BY <1>1, <2>1, <2>2 DEF RulesKept
<1>5. CASE processPendingRestart \/ PowerCut
  BY <1>5 DEF processPendingRestart, PowerCut, Boot, RulesKept, files
<1>6. CASE \/ \E r \in Requests : PostChunk(r)
           \/ UpdateRejected \/ Rollback \/ Accepted \/ handle_api_reboot \/ UNCHANGED vars
  BY <1>6 DEF PostChunk, UpdateRejected, Rollback, Accepted, handle_api_reboot, vars, files, RulesKept
<1> QED
  BY <1>2, <1>3, <1>4, <1>5, <1>6 DEF Next, Handler

LEMMA TmpStep ==
  ASSUME HistoryType, TmpWritten, [Next]_vars
  PROVE  TmpWritten'
<1>1. CASE WriteTmp
  BY <1>1 DEF WriteTmp, TmpWritten
<1>2. CASE RemoveBak2 \/ RotateBak1 \/ RotateConfig
  BY <1>2 DEF RemoveBak2, RotateBak1, RotateConfig, TmpWritten, history, File
<1>3. CASE \/ \E r \in Requests : PostChunk(r)
           \/ UpdateRejected \/ UpdateAccepted \/ Rollback \/ Accepted \/ OpenTmp \/ Replace
           \/ processPendingRestart \/ PowerCut \/ handle_api_reboot
  BY <1>3 DEF PostChunk, UpdateRejected, UpdateAccepted, Rollback, Accepted, Answer, OpenTmp, Replace,
              processPendingRestart, PowerCut, Boot, handle_api_reboot, TmpWritten
<1>4. CASE UNCHANGED vars
  BY <1>4 DEF vars, files, history, TmpWritten, File
<1> QED
  BY <1>1, <1>2, <1>3, <1>4 DEF Next, Handler

\* Only a rotation or the replacement can lose the saved configuration.
LEMMA SavedStep ==
  ASSUME SettingsType, HistoryType, TmpWritten, SavedSomewhere, [Next]_vars
  PROVE  SavedSomewhere'
<1>1. CASE RemoveBak2
  <2>1. bak1 = NoFile => pc' = "rotate1" /\ bak2' = bak2
    BY <1>1 DEF RemoveBak2, Exists
  <2>2. config' = config /\ bak1' = bak1 /\ saved' = saved /\ short' = short
    BY <1>1 DEF RemoveBak2, history
  <2> QED
    BY <2>1, <2>2, NoFileLoaded DEF SavedSomewhere, Holds
<1>2. CASE RotateBak1
  <2>1. pc = "rotate2" /\ pc' = "rotate1" /\ config' = config /\ saved' = saved /\ short' = short
    BY <1>2 DEF RotateBak1
  <2>2. (bak2' = bak1 /\ bak1' = NoFile) \/ (bak1' = bak1 /\ bak2' = bak2)
    BY <1>2 DEF RotateBak1
  <2> QED
    BY <2>1, <2>2 DEF SavedSomewhere, Holds
<1>3. CASE RotateConfig
  <2>1. pc' = "replace" /\ bak2' = bak2 /\ saved' = saved /\ short' = short
    BY <1>3 DEF RotateConfig
  <2>2. \/ config # NoFile /\ bak1' = config /\ config' = NoFile
        \/ bak1' = bak1 /\ config' = config
    BY <1>3 DEF RotateConfig, Exists
  <2> QED
    BY <2>1, <2>2 DEF SavedSomewhere, Holds
<1>4. CASE Replace
  <2>1. CASE config' = tmp /\ saved' = settings
    <3>1. pc = "replace" /\ short' = short
      BY <1>4 DEF Replace
    <3>2. ~short => Holds(config)'
      BY <2>1, <3>1, FileLoaded DEF TmpWritten, Holds, SettingsType
    <3> QED
      BY <3>1, <3>2 DEF SavedSomewhere
  <2>2. CASE config' = config /\ saved' = saved /\ pc' = "rollback"
    BY <1>4, <2>2 DEF Replace, SavedSomewhere, Holds
  <2> QED
    BY <1>4, <2>1, <2>2 DEF Replace
<1>5. CASE WriteTmp
  <2>1. UNCHANGED <<config, bak1, bak2, saved>> /\ pc' # "rotate2" /\ (short' = short \/ short')
    BY <1>5 DEF WriteTmp
  <2> QED
    BY <2>1 DEF SavedSomewhere, Holds
<1>6. CASE \/ \E r \in Requests : PostChunk(r)
           \/ UpdateRejected \/ UpdateAccepted \/ Rollback \/ Accepted \/ OpenTmp
           \/ processPendingRestart \/ PowerCut \/ handle_api_reboot \/ UNCHANGED vars
  <2>1. UNCHANGED <<config, bak1, bak2, saved, short>>
    BY <1>6 DEF PostChunk, UpdateRejected, UpdateAccepted, Rollback, Accepted, OpenTmp,
                processPendingRestart, PowerCut, Boot, handle_api_reboot, vars, files, history
  <2>2. pc' # "rotate2" \/ pc' = pc
    BY <1>6 DEF PostChunk, UpdateRejected, UpdateAccepted, Rollback, Accepted, Answer, OpenTmp,
                processPendingRestart, PowerCut, Boot, handle_api_reboot, vars
  <2> QED
    BY <2>1, <2>2 DEF SavedSomewhere, Holds
<1> QED
  BY <1>1, <1>2, <1>3, <1>4, <1>5, <1>6 DEF Next, Handler

LEMMA DurableStep ==
  ASSUME SettingsType, HistoryType, TmpWritten, Durable, [Next]_vars
  PROVE  Durable'
<1>1. CASE \E r \in Requests : PostChunk(r)
  <2>1. pc = "idle" /\ pc' \in {"idle", "update"} /\ UNCHANGED <<settings, config, renameFailed, short>>
    BY <1>1 DEF PostChunk, files, history
  <2> QED
    BY <2>1 DEF Durable, Loaded
<1>2. CASE UpdateRejected \/ Accepted
  <2>1. pc \in {"update", "ok"} /\ pc' = "idle" /\ UNCHANGED <<settings, config, renameFailed, short>>
    BY <1>2 DEF UpdateRejected, Accepted, Answer, files, history
  <2> QED
    BY <2>1 DEF Durable, Loaded
<1>3. CASE UpdateAccepted
  <2>1. pc = "update" /\ pc' = "open" /\ previous' = settings /\ UNCHANGED <<config, renameFailed, short>>
    BY <1>3 DEF UpdateAccepted, files, history
  <2> QED
    BY <2>1 DEF Durable, Loaded
<1>4. CASE Rollback
  <2>1. pc = "rollback" /\ pc' = "idle" /\ settings' = previous /\ UNCHANGED <<config, renameFailed, short>>
    BY <1>4 DEF Rollback, Answer, files, history
  <2> QED
    BY <2>1 DEF Durable, Loaded
<1>5. CASE OpenTmp \/ WriteTmp
  <2>1. /\ pc \in {"open", "write"} /\ pc' \in {"write", "rotate", "rollback"}
        /\ UNCHANGED <<previous, config, renameFailed>> /\ (short' = short \/ short')
    BY <1>5 DEF OpenTmp, WriteTmp
  <2> QED
    BY <2>1 DEF Durable, Loaded
<1>6. CASE RemoveBak2 \/ RotateBak1 \/ RotateConfig
  <2>1. pc' \in {"rotate2", "rotate1", "replace"}
    BY <1>6 DEF RemoveBak2, RotateBak1, RotateConfig
  <2> QED
    BY <2>1 DEF Durable
<1>7. CASE Replace
  <2>1. CASE config' = tmp /\ pc' = "ok"
    <3>1. pc = "replace" /\ settings' = settings /\ short' = short
      BY <1>7 DEF Replace
    <3>2. ~short => Loaded(config') = settings
      BY <2>1, <3>1, FileLoaded DEF TmpWritten, SettingsType
    <3> QED
      BY <2>1, <3>1, <3>2 DEF Durable
  <2>2. CASE renameFailed' = TRUE
    BY <2>2 DEF Durable
  <2> QED
    BY <1>7, <2>1, <2>2 DEF Replace
<1>8. CASE processPendingRestart \/ PowerCut
  <2>1. pc' = "idle" /\ settings' = Loaded(config) /\ config' = config
    BY <1>8 DEF processPendingRestart, PowerCut, Boot, files
  <2> QED
    BY <2>1 DEF Durable
<1>9. CASE handle_api_reboot \/ UNCHANGED vars
  <2>1. UNCHANGED <<pc, settings, previous, config, renameFailed, short>>
    BY <1>9 DEF handle_api_reboot, vars, files, history
  <2> QED
    BY <2>1 DEF Durable
<1> QED
  BY <1>1, <1>2, <1>3, <1>4, <1>5, <1>6, <1>7, <1>8, <1>9 DEF Next, Handler

LEMMA NeverSavedStep ==
  ASSUME SettingsType, NeverSaved, [Next]_vars
  PROVE  NeverSaved'
<1>1. CASE Replace
  BY <1>1, ValueNotNone DEF Replace, NeverSaved, SettingsType
<1>2. CASE RotateConfig
  BY <1>2 DEF RotateConfig, NeverSaved
<1>3. CASE ~Replace /\ ~RotateConfig
  <2>1. UNCHANGED <<config, saved>>
    BY <1>3 DEF Next, Handler, PostChunk, UpdateRejected, UpdateAccepted, Rollback, Accepted, OpenTmp, WriteTmp,
                RemoveBak2, RotateBak1, processPendingRestart, PowerCut, Boot, handle_api_reboot, vars, files, history
  <2> QED
    BY <2>1 DEF NeverSaved
<1> QED
  BY <1>1, <1>2, <1>3

-----------------------------------------------------------------------------
(***************************************************************************)
(* The invariant and the theorems.                                         *)
(***************************************************************************)
LEMMA InitSaveInv == Init => SaveInv
<1> SUFFICES ASSUME Init PROVE SaveInv
  OBVIOUS
<1>1. config \in FileType /\ validate_runtime_settings(Loaded(config)) /\ (config = NoFile \/ config.whole)
  BY ImageLoaded, NoFileLoaded, DefaultsValue DEF Init
<1>2. settings \in Value /\ previous = settings /\ settings = Loaded(config)
  BY <1>1, LoadedValue DEF Init
<1>3. SettingsType /\ FilesType
  BY <1>1, <1>2, NoFileLoaded DEF Init, SettingsType, FilesType
<1>4. WebType
  <2>1. nextPart \in [Requests -> 1 .. Parts + 1]
    BY PartsAssumption DEF Init
  <2>2. reply \in [Requests -> {"none", "ok", "error"}]
    BY DEF Init
  <2>3. post_body = << >> /\ pc = "idle" /\ cur = None /\ restart_pending = FALSE
    BY DEF Init
  <2>4. post_body \in Seq(Chunk)
    BY <2>3
  <2> QED
    BY <2>1, <2>2, <2>3, <2>4 DEF WebType
<1>5. HistoryType
  <2>1. powerCuts \in 0 .. MaxPowerCuts /\ faults \in 0 .. MaxFaults
    BY BoundAssumption DEF Init
  <2> QED
    BY <2>1 DEF Init, HistoryType
<1>6. RulesKept
  BY <1>1, <1>2, NoFileLoaded, DefaultsValue DEF Init, RulesKept
<1>7. SavedSomewhere /\ NeverSaved
  BY <1>1, <1>2, ValueNotNone DEF Init, SavedSomewhere, NeverSaved, Holds, Exists
<1>8. TmpWritten /\ Durable
  BY <1>2 DEF Init, TmpWritten, Durable
<1> QED
  BY <1>3, <1>4, <1>5, <1>6, <1>7, <1>8 DEF SaveInv, TypeOK, RulesKept

LEMMA NextSaveInv == SaveInv /\ [Next]_vars => SaveInv'
<1> SUFFICES ASSUME SaveInv, [Next]_vars PROVE SaveInv'
  OBVIOUS
<1>1. /\ SettingsType /\ FilesType /\ WebType /\ HistoryType /\ post_body \in Seq(Chunk)
      /\ RulesKept /\ TmpWritten /\ SavedSomewhere /\ Durable /\ NeverSaved
  BY DEF SaveInv, TypeOK, WebType
<1>2. SettingsType' /\ FilesType' /\ WebType' /\ HistoryType'
  BY <1>1, SettingsTypeStep, FilesTypeStep, WebTypeStep, HistoryTypeStep
<1>3. RulesKept' /\ TmpWritten' /\ SavedSomewhere' /\ Durable' /\ NeverSaved'
  BY <1>1, RulesStep, TmpStep, SavedStep, DurableStep, NeverSavedStep
<1> QED
  BY <1>2, <1>3 DEF SaveInv, TypeOK, RulesKept

THEOREM SaveInvariant == Spec => []SaveInv
BY InitSaveInv, NextSaveInv, PTL DEF Spec

\* Every variable keeps its type, and the settings, however merged, rolled back
\* or reloaded, keep the rules that validate_runtime_settings checks.
THEOREM TypeCorrect == Spec => []TypeOK
<1>1. SaveInv => TypeOK
  BY DEF SaveInv
<1> QED
  BY <1>1, SaveInvariant, PTL

\* At any instant config.json or a backup holds the last saved configuration
\* (saveConfiguration's rotation), for any number of saves, faults and restarts.
THEOREM LastSaveRecoverableAlways == Spec => []LastSaveRecoverable
<1>1. SaveInv => LastSaveRecoverable
  BY DEF SaveInv, SavedSomewhere, LastSaveRecoverable, Holds
<1> QED
  BY <1>1, SaveInvariant, PTL

\* Between two requests the settings in memory are those a boot would load
\* (updateSettingsFromJson's rollback).
THEOREM MemoryIsDurableAlways == Spec => []MemoryIsDurable
<1>1. SaveInv => MemoryIsDurable
  BY DEF SaveInv, Durable, MemoryIsDurable
<1> QED
  BY <1>1, SaveInvariant, PTL

\* Between two requests the settings are the last saved ones or the defaults,
\* never those of a backup or of a failed update.
THEOREM NeverOlderAlways == Spec => []NeverOlder
<1>1. SaveInv => NeverOlder
  <2> SUFFICES ASSUME SaveInv, pc = "idle", ~renameFailed, ~short PROVE settings \in {saved, Defaults}
    BY DEF NeverOlder
  <2>1. settings = Loaded(config)
    BY DEF SaveInv, Durable
  <2>2. CASE config = NoFile
    BY <2>1, <2>2, NoFileLoaded
  <2>3. CASE config # NoFile
    BY <2>1, <2>3 DEF SaveInv, NeverSaved, SavedSomewhere, Holds
  <2> QED
    BY <2>2, <2>3
<1> QED
  BY <1>1, SaveInvariant, PTL
=============================================================================
