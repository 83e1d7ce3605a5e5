---------------------------- MODULE ConfigStore ----------------------------
(***************************************************************************)
(* The configuration: POST /api/config and the deferred restart            *)
(* (web_ui.cpp), updateSettingsFromJson, saveConfiguration and             *)
(* loadConfiguration (ConfigManager.cpp).                                  *)
(*                                                                         *)
(* The web handlers run one after the other in the network task; a body    *)
(* reaches its handler chunk by chunk, and the chunks of two requests can  *)
(* alternate.  Each operation on LittleFS is a step: it is atomic in the   *)
(* file system, and a power cut or the loop task's restart can fall        *)
(* between any two.                                                        *)
(*                                                                         *)
(* A configuration is abstracted to the origin of each of its parts: the   *)
(* request, the image flashed with it, or the built-in defaults.  A body   *)
(* and an image may leave parts out.                                       *)
(***************************************************************************)
EXTENDS Naturals, Sequences

CONSTANTS
  Requests,       \* the POST requests, each sent once
  Parts,          \* the chunks of a body
  Optional,       \* parts that bodies, and an older image, may leave out
  Needs,          \* <<i, j>>: part i, when set, needs part j to be set too
  MaxPowerCuts,   \* bound
  MaxFaults       \* bound: file operations that fail

ASSUME PartsAssumption == Parts \in Nat \ {0}
ASSUME BoundAssumption == MaxPowerCuts \in Nat /\ MaxFaults \in Nat
ASSUME RequestAssumption == {"factory", "default", "keep"} \cap Requests = {}
ASSUME PartAssumption == Optional \subseteq 1 .. Parts /\ Needs \subseteq (1 .. Parts) \X (1 .. Parts)

VARIABLES
  settings, previous,     \* ConfigManager::settings; the copy to roll back to
  tmp, config, bak1, bak2,   \* the files on LittleFS
  pc,                     \* the handler's position in the save
  post_body,              \* s_post_body
  cur,                    \* the request whose last chunk is being handled
  nextPart, reply,        \* the clients: next chunk to send, the answer
  restart_pending,        \* s_restart_pending
  saved,                  \* history: what saveConfiguration last returned true for
  powerCuts, faults,
  renameFailed, short     \* history: faults a save does not report in full

files == <<tmp, config, bak1, bak2>>
web == <<post_body, cur, nextPart, reply, restart_pending>>
history == <<saved, powerCuts, faults, renameFailed, short>>
vars == <<settings, previous, files, pc, web, history>>

Whole(of) == [i \in 1 .. Parts |-> of]
Defaults == Whole("default")
NoFile == [body |-> << >>, whole |-> FALSE]
Exists(file) == file # NoFile
File(body) == [body |-> body, whole |-> TRUE]
None == << >>

Chunk == [of : Requests \cup {"keep"}, part : 1 .. Parts]

\* A key that is missing changes nothing.
Merged(body, base) == [i \in 1 .. Parts |-> IF body[i] = "keep" THEN base[i] ELSE body[i]]

parseJson(body) == Merged(body, Defaults)

\* loadConfiguration: a missing or unparsable file leaves the defaults.
Loaded(file) == IF file.whole THEN parseJson(file.body) ELSE Defaults

\* The rules between parts: home consumption needs the manual group enabled,
\* authentication a password.
validate_runtime_settings(st) == \A n \in Needs : st[n[1]] \in Requests => st[n[2]] # "default"

Image == {[i \in 1 .. Parts |-> IF i \in missing THEN "keep" ELSE "factory"] : missing \in SUBSET Optional}

Init ==
  /\ config \in {NoFile} \cup {File(body) : body \in Image}
  /\ tmp = NoFile /\ bak1 = NoFile /\ bak2 = NoFile
  /\ settings = Loaded(config) /\ previous = settings
  /\ pc = "idle" /\ post_body = << >> /\ cur = None
  /\ nextPart = [r \in Requests |-> 1] /\ reply = [r \in Requests |-> "none"]
  /\ restart_pending = FALSE
  /\ saved = IF Exists(config) THEN settings ELSE None
  /\ powerCuts = 0 /\ faults = 0 /\ renameFailed = FALSE /\ short = FALSE

(***************************************************************************)
(* handle_api_config_post.                                                 *)
(***************************************************************************)
Carries(r) == IF nextPart[r] \in Optional THEN {r, "keep"} ELSE {r}

\* One chunk of r arrives; the first chunk of any request empties the body.
PostChunk(r) ==
  /\ pc = "idle" /\ reply[r] = "none" /\ nextPart[r] <= Parts
  /\ \E of \in Carries(r) :
        post_body' = Append(IF nextPart[r] = 1 THEN << >> ELSE post_body,
                            [of |-> of, part |-> nextPart[r]])
  /\ nextPart' = [nextPart EXCEPT ![r] = @ + 1]
  /\ IF nextPart[r] < Parts
       THEN UNCHANGED <<pc, cur>>
       ELSE pc' = "update" /\ cur' = <<r>>
  /\ UNCHANGED <<settings, previous, files, reply, restart_pending, history>>

Answer(word) ==
  /\ reply' = [reply EXCEPT ![cur[1]] = word]
  /\ cur' = None /\ pc' = "idle"

Parses(body) == Len(body) = Parts /\ \A i \in 1 .. Parts : body[i].part = i
Candidate(body) == Merged([i \in 1 .. Parts |-> body[i].of], settings)

\* The body is too large, does not parse, or fails a check on a single key or
\* on the candidate as a whole.
UpdateRejected ==
  /\ pc = "update"
  /\ Answer("error")
  /\ UNCHANGED <<settings, previous, files, post_body, nextPart, restart_pending, history>>

\* mutant: the rules between parts are checked on the body as it was sent
UpdateAccepted_unmerged ==
  /\ pc = "update" /\ Parses(post_body)
  /\ validate_runtime_settings([i \in 1 .. Parts |-> post_body[i].of])
  /\ previous' = settings
  /\ settings' = Candidate(post_body)
  /\ pc' = "open"
  /\ UNCHANGED <<files, web, history>>

\* mutant: the settings to roll back to are not copied
UpdateAccepted_no_copy ==
  /\ pc = "update" /\ Parses(post_body)
  /\ validate_runtime_settings(Candidate(post_body))
  /\ settings' = Candidate(post_body)
  /\ pc' = "open"
  /\ UNCHANGED <<previous, files, web, history>>

UpdateAccepted ==
  /\ pc = "update" /\ Parses(post_body)
  /\ validate_runtime_settings(Candidate(post_body))
  /\ previous' = settings
  /\ settings' = Candidate(post_body)
  /\ pc' = "open"
  /\ UNCHANGED <<files, web, history>>

\* mutant: the settings are not restored
Rollback_missing ==
  /\ pc = "rollback"
  /\ Answer("error")
  /\ UNCHANGED <<settings, previous, files, post_body, nextPart, restart_pending, history>>

\* The settings are restored in memory, and only there.
Rollback ==
  /\ pc = "rollback"
  /\ settings' = previous
  /\ Answer("error")
  /\ UNCHANGED <<previous, files, post_body, nextPart, restart_pending, history>>

Accepted ==
  /\ pc = "ok"
  /\ Answer("ok")
  /\ restart_pending' = TRUE
  /\ UNCHANGED <<settings, previous, files, post_body, nextPart, history>>

(***************************************************************************)
(* saveConfiguration.                                                      *)
(***************************************************************************)
Fault == faults < MaxFaults /\ faults' = faults + 1

OpenTmp ==
  /\ pc = "open"
  /\ \/ tmp' = NoFile /\ pc' = "write" /\ UNCHANGED faults
     \/ Fault /\ pc' = "rollback" /\ UNCHANGED tmp
  /\ UNCHANGED <<settings, previous, config, bak1, bak2, web, saved, powerCuts,
                 renameFailed, short>>

\* Only a write of no byte at all counts as failed.
WriteTmp ==
  /\ pc = "write"
  /\ \/ /\ tmp' = File(settings) /\ pc' = "rotate"
        /\ UNCHANGED <<faults, short>>
     \/ /\ Fault
        /\ tmp' = [body |-> settings, whole |-> FALSE]
        /\ short' = TRUE /\ pc' = "rotate"
     \/ /\ Fault
        /\ tmp' = NoFile /\ pc' = "rollback"
        /\ UNCHANGED short
  /\ UNCHANGED <<settings, previous, config, bak1, bak2, web, saved, powerCuts, renameFailed>>

\* mutant: the older backup is removed though none takes its place
RemoveBak2_always ==
  /\ pc = "rotate"
  /\ bak2' = NoFile /\ pc' = "rotate2"
  /\ UNCHANGED <<settings, previous, tmp, config, bak1, web, history>>

RemoveBak2 ==
  /\ pc = "rotate"
  /\ IF Exists(bak1)
       THEN bak2' = NoFile /\ pc' = "rotate2"
       ELSE pc' = "rotate1" /\ UNCHANGED bak2
  /\ UNCHANGED <<settings, previous, tmp, config, bak1, web, history>>

\* The results of the two rotations are not looked at.
RotateBak1 ==
  /\ pc = "rotate2"
  /\ \/ bak2' = bak1 /\ bak1' = NoFile /\ UNCHANGED <<faults, renameFailed>>
     \/ Fault /\ renameFailed' = TRUE /\ UNCHANGED <<bak1, bak2>>
  /\ pc' = "rotate1"
  /\ UNCHANGED <<settings, previous, tmp, config, web, saved, powerCuts, short>>

RotateConfig ==
  /\ pc = "rotate1"
  /\ \/ ~Exists(config) /\ UNCHANGED <<bak1, config, faults, renameFailed>>
     \/ Exists(config) /\ bak1' = config /\ config' = NoFile /\ UNCHANGED <<faults, renameFailed>>
     \/ Exists(config) /\ Fault /\ renameFailed' = TRUE /\ UNCHANGED <<bak1, config>>
  /\ pc' = "replace"
  /\ UNCHANGED <<settings, previous, tmp, bak2, web, saved, powerCuts, short>>

Replace ==
  /\ pc = "replace"
  /\ \/ /\ config' = tmp /\ tmp' = NoFile
        /\ saved' = settings /\ pc' = "ok"
        /\ UNCHANGED <<faults, renameFailed>>
     \/ /\ Fault /\ renameFailed' = TRUE
        /\ pc' = "rollback"
        /\ UNCHANGED <<config, tmp, saved>>
  /\ UNCHANGED <<settings, previous, bak1, bak2, web, powerCuts, short>>

Handler ==
  \/ UpdateRejected \/ UpdateAccepted \/ Rollback \/ Accepted
  \/ OpenTmp \/ WriteTmp \/ RemoveBak2 \/ RotateBak1 \/ RotateConfig \/ Replace

(***************************************************************************)
(* Restarts.  A boot loads config.json and nothing else; a request that    *)
(* was being handled is never answered.                                    *)
(***************************************************************************)
Boot ==
  /\ settings' = Loaded(config) /\ previous' = Loaded(config)
  /\ pc' = "idle" /\ post_body' = << >> /\ cur' = None
  /\ nextPart' = [r \in Requests |-> IF nextPart[r] = 1 THEN 1 ELSE Parts + 1]
  /\ restart_pending' = FALSE
  /\ UNCHANGED <<files, reply, saved, faults, renameFailed, short>>

\* scheduleRestart and processPendingRestart: once its grace is over the loop
\* task restarts the chip, whatever the network task is doing.
processPendingRestart ==
  /\ restart_pending
  /\ Boot
  /\ UNCHANGED powerCuts

PowerCut ==
  /\ powerCuts < MaxPowerCuts /\ powerCuts' = powerCuts + 1
  /\ Boot

\* POST /api/reboot.
handle_api_reboot ==
  /\ pc = "idle" /\ ~restart_pending
  /\ restart_pending' = TRUE
  /\ UNCHANGED <<settings, previous, files, pc, post_body, cur, nextPart, reply, history>>

Next ==
  \/ (\E r \in Requests : PostChunk(r)) \/ Handler
  \/ processPendingRestart \/ PowerCut \/ handle_api_reboot

Spec == Init /\ [][Next]_vars
-----------------------------------------------------------------------------
(***************************************************************************)
(* Properties.                                                             *)
(***************************************************************************)
Value == [1 .. Parts -> Requests \cup {"factory", "default"}]
Written == [1 .. Parts -> Requests \cup {"factory", "default", "keep"}]
FileType == [body : Written, whole : BOOLEAN] \cup {NoFile}

SettingsType == settings \in Value /\ previous \in Value /\ (saved = None \/ saved \in Value)

FilesType == {tmp, config, bak1, bak2} \subseteq FileType

WebType ==
  /\ pc \in {"idle", "update", "open", "write", "rotate", "rotate2", "rotate1",
             "replace", "ok", "rollback"}
  /\ post_body \in Seq(Chunk)
  /\ cur = None \/ \E r \in Requests : cur = <<r>>
  /\ pc # "idle" => cur # None
  /\ nextPart \in [Requests -> 1 .. Parts + 1]
  /\ reply \in [Requests -> {"none", "ok", "error"}]
  /\ restart_pending \in BOOLEAN

HistoryType ==
  /\ powerCuts \in 0 .. MaxPowerCuts /\ faults \in 0 .. MaxFaults
  /\ renameFailed \in BOOLEAN /\ short \in BOOLEAN

\* The type of every variable; a save under way has a request to answer, and
\* the settings keep the rules between parts, merged and reloaded as they are.
TypeOK ==
  /\ SettingsType /\ FilesType /\ WebType /\ HistoryType
  /\ validate_runtime_settings(settings)

\* The rolling backups keep the last saved configuration recoverable: at any
\* instant one of the files holds it whole, however many later saves were cut
\* short or failed, unless a write was silently truncated.
LastSaveRecoverable ==
  saved # None /\ ~short => \E file \in {config, bak1, bak2} : file.whole /\ Loaded(file) = saved

\* What the device runs with is what it would boot with: a failed update is
\* undone in memory, a successful one is on disk.  (Not so once a rename failed.)
MemoryIsDurable ==
  pc = "idle" /\ ~renameFailed /\ ~short => settings = Loaded(config)

\* A boot never brings an old configuration back: it loads the last saved one,
\* or none at all.
NeverOlder ==
  pc = "idle" /\ ~renameFailed /\ ~short => settings \in {saved, Defaults}

\* saveConfiguration: "a power cut during write leaves the original intact".
\* A device that has a saved configuration never falls back to the defaults.
NeverBackToDefaults ==
  saved # None /\ ~short /\ ~renameFailed => settings # Defaults
=============================================================================
