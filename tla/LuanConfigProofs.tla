--------------------------- MODULE LuanConfigProofs ---------------------------
(***************************************************************************)
(* Proofs about LuanConfig for any ports and any number of starts.         *)
(*                                                                         *)
(* None of the properties is inductive.  That a service runs as the app    *)
(* set it needs what the app hands over (AppGivesAll), which needs what a  *)
(* reset took before it saved (ResetTakes).  That the file                 *)
(* holds the secrets of the last service needs the file between the two    *)
(* halves of a write (Undisturbed) and also what becomes of the secrets    *)
(* when only one of them is replaced (FileKeepsLast).                      *)
(***************************************************************************)
EXTENDS LuanConfig, TLAPS

\* The app always gives a port, and its own secret or none.
AppGivesAll ==
    cli.by = "app" /\ cli.stage # "none" => cli.arg # NoPort /\ cli.env \in {Empty, cli.set}

\* A reset has taken the secret that is being saved, unless there was none.
ResetTakes == saving = "reset" => env \in {Empty, settings.jwt}

\* A process that has merged its configuration has all its secrets.
Merged == cli.stage \in {"merged", "writing", "serving"}
MergedHasSecrets == Merged => cli.jwt # Empty /\ cli.ws # Empty
LastHasSecrets == last.jwt # Empty => last.ws # Empty

\* Nothing can be read from a file that was cut short.
TornIsEmpty == file.kind = "torn" => file = Torn

\* Before the first disturbance the app has saved nothing, so it has started
\* nothing either, and only luan truncates the file.
Undisturbed ==
    ~disturbed =>
        /\ saving \in {"closed", "no"}
        /\ cli.env = Empty
        /\ cli.stage = "writing" => file = Torn

\* Each of the last secrets is in the file, unless it was given up.
FileKeepsLast ==
    ~disturbed /\ cli.stage # "writing" =>
        last.jwt \in {Empty, file.jwt} /\ last.ws \in {Empty, file.ws}

\* A file the app can decode has a port.
FullHasPort == file.kind = "full" => file.port # NoPort

HandOver == ServiceAsSet /\ AppGivesAll /\ ResetTakes /\ FullHasPort
Secrets == MergedHasSecrets /\ LastHasSecrets /\ TornIsEmpty /\ Undisturbed /\ FileKeepsLast

ConfigInv == TypeOK /\ HandOver /\ Secrets

-------------------------------------------------------------------------------
(* luan. *)

\* Which files can be read, and what is left of one that cannot.
LEMMA Files ==
    /\ Absent \in Readable /\ Torn \in File
    /\ Torn = [kind |-> "torn", port |-> NoPort, jwt |-> Empty, ws |-> Empty]
    /\ \A f \in Readable : f \in File /\ f.kind # "torn"
  BY DEF Readable, Torn, Absent, File, Kinds, Secret, NoPort, Empty

\* What a save leaves behind: what was to be written, or nothing readable.
LEMMA FillKeeps ==
    ASSUME NEW content \in Readable, Fill(content)
    PROVE  /\ file' \in File
           /\ file'.kind = "torn" => file' = Torn
           /\ content.port # NoPort => FullHasPort'
           /\ file = Torn => file' = content
  BY Files DEF Fill, FullHasPort

LEMMA InitInv == Init => ConfigInv
  <1>. SUFFICES ASSUME Init PROVE ConfigInv
    OBVIOUS
  <1>1. Absent \in File /\ Defaults \in [port : Ports, jwt : Secret]
    BY Files, ConfigAssumption DEF Readable, Defaults, Secret, Empty
  <1>2. Idle \in Cli
    BY Files, ConfigAssumption DEF Idle, Cli, Secret, NoPort, Empty
  <1>3. TypeOK
    <2>1. fresh \in Nat /\ runs \in 0..MaxRuns /\ chosen \in Ports
      BY ConfigAssumption DEF Init
    <2>2. last \in [jwt : Secret, ws : Secret] /\ disturbed \in BOOLEAN
      BY DEF Init, Secret, Empty
    <2>. QED  BY <1>1, <1>2, <2>1, <2>2 DEF Init, TypeOK
  <1>4. HandOver
    BY DEF Init, HandOver, ServiceAsSet, AppGivesAll, ResetTakes, FullHasPort, Idle, Absent
  <1>5. Secrets
    BY DEF Init, Secrets, MergedHasSecrets, Merged, LastHasSecrets, TornIsEmpty, Undisturbed,
           FileKeepsLast, Idle, Absent, Empty
  <1>. QED  BY <1>3, <1>4, <1>5 DEF ConfigInv

\* A process that starts has neither merged nor written anything; what it is
\* given is the business of who starts it.
LEMMA LaunchKeeps ==
    ASSUME TypeOK, NEW who \in {"terminal", "app"}, NEW arg \in Ports \cup {NoPort},
           NEW e \in Secret, NEW set \in Secret, Launch(who, arg, e, set)
    PROVE  /\ cli' = [stage |-> "locked", by |-> who, arg |-> arg, env |-> e, set |-> set,
                     saved |-> Absent, port |-> DefaultPort, jwt |-> Empty, ws |-> Empty]
           /\ cli' \in Cli
           /\ runs' \in 0..MaxRuns
  <1>1. cli' = [stage |-> "locked", by |-> who, arg |-> arg, env |-> e, set |-> set,
                saved |-> Absent, port |-> DefaultPort, jwt |-> Empty, ws |-> Empty]
    BY DEF Launch, Idle
  <1>2. cli' \in Cli
    BY <1>1, Files, ConfigAssumption DEF Cli, Secret, NoPort, Empty
  <1>3. runs' \in 0..MaxRuns
    BY ConfigAssumption DEF Launch, TypeOK
  <1>. QED  BY <1>1, <1>2, <1>3

LEMMA StartByHandInv ==
    ASSUME ConfigInv, NEW arg \in Ports \cup {NoPort}, StartByHand(arg)
    PROVE  ConfigInv'
  <1>1. /\ cli' = [stage |-> "locked", by |-> "terminal", arg |-> arg, env |-> Empty,
                  set |-> Empty, saved |-> Absent, port |-> DefaultPort, jwt |-> Empty,
                  ws |-> Empty]
        /\ cli' \in Cli /\ runs' \in 0..MaxRuns
    BY LaunchKeeps DEF ConfigInv, StartByHand, Secret, Empty
  <1>2. cli.stage = "none" /\ UNCHANGED <<file, settings, saving, env, fresh, last, chosen, disturbed>>
    BY DEF StartByHand, Launch
  <1>3. TypeOK'
    BY <1>1, <1>2 DEF ConfigInv, TypeOK
  <1>4. HandOver'
    BY <1>1, <1>2 DEF ConfigInv, HandOver, ServiceAsSet, AppGivesAll, ResetTakes, FullHasPort
  <1>5. Secrets'
    BY <1>1, <1>2
    DEF ConfigInv, Secrets, MergedHasSecrets, Merged, LastHasSecrets, TornIsEmpty,
        Undisturbed, FileKeepsLast
  <1>. QED  BY <1>3, <1>4, <1>5 DEF ConfigInv

\* Each secret is one that was given or saved, or the new one.
LEMMA MergeSecretValue ==
    ASSUME NEW e \in Secret, NEW saved \in Secret, NEW new \in Nat \ {0}
    PROVE  /\ MergeSecret(e, saved, new) \in Secret \ {Empty}
           /\ e # Empty => MergeSecret(e, saved, new) = e
           /\ e = Empty /\ saved # Empty => MergeSecret(e, saved, new) = saved
  BY DEF MergeSecret, Secret, Empty

\* What is read is the file, and nothing of it if it is torn.
LEMMA LoadSavedValue ==
    ASSUME TypeOK, TornIsEmpty
    PROVE  /\ LoadSavedConfig \in Readable
           /\ LoadSavedConfig.jwt = file.jwt /\ LoadSavedConfig.ws = file.ws
  <1>1. CASE file.kind = "torn"
    BY <1>1, Files DEF LoadSavedConfig, TornIsEmpty, Absent
  <1>2. CASE file.kind # "torn"
    BY <1>2 DEF LoadSavedConfig, Readable, TypeOK
  <1>. QED  BY <1>1, <1>2

\* The merge, in terms of the file as it is.
LEMMA MergeEffect ==
    ASSUME ConfigInv, Merge
    PROVE  /\ cli' \in Cli /\ cli'.stage = "merged"
           /\ cli'.by = cli.by /\ cli'.arg = cli.arg /\ cli'.env = cli.env /\ cli'.set = cli.set
           /\ cli.arg # NoPort => cli'.port = cli.arg
           /\ cli'.jwt # Empty /\ (cli.env # Empty => cli'.jwt = cli.env)
           /\ cli.env = Empty /\ file.jwt # Empty => cli'.jwt = file.jwt
           /\ cli'.ws # Empty /\ (file.ws # Empty => cli'.ws = file.ws)
  <1>1. /\ LoadSavedConfig \in Readable
        /\ LoadSavedConfig.jwt = file.jwt /\ LoadSavedConfig.ws = file.ws
    BY LoadSavedValue DEF ConfigInv, Secrets
  <1>2. PICK saved \in Readable, port \in Ports, jwt \in Secret, ws \in Secret :
            /\ cli' = [cli EXCEPT !.stage = "merged", !.saved = saved, !.port = port,
                                 !.jwt = jwt, !.ws = ws]
            /\ cli.arg # NoPort => port = cli.arg
            /\ jwt # Empty /\ (cli.env # Empty => jwt = cli.env)
            /\ cli.env = Empty /\ file.jwt # Empty => jwt = file.jwt
            /\ ws # Empty /\ (file.ws # Empty => ws = file.ws)
    <2>1. /\ cli.env \in Secret /\ cli.arg \in Ports \cup {NoPort} /\ Empty \in Secret
          /\ fresh + 1 \in Nat \ {0} /\ fresh + 2 \in Nat \ {0}
      BY DEF ConfigInv, TypeOK, Cli, Secret, Empty
    <2>2. /\ LoadSavedConfig.jwt \in Secret /\ LoadSavedConfig.ws \in Secret
          /\ LoadSavedConfig.port \in Ports \cup {NoPort}
      BY <1>1, Files DEF File
    <2>3. DefaultPort \in Ports
      BY ConfigAssumption
    <2>4. /\ MergeSecret(cli.env, file.jwt, fresh + 1) \in Secret \ {Empty}
          /\ cli.env # Empty => MergeSecret(cli.env, file.jwt, fresh + 1) = cli.env
          /\ cli.env = Empty /\ file.jwt # Empty =>
                MergeSecret(cli.env, file.jwt, fresh + 1) = file.jwt
      BY <1>1, <2>1, <2>2, MergeSecretValue
    <2>5. /\ MergeSecret(Empty, file.ws, fresh + 2) \in Secret \ {Empty}
          /\ file.ws # Empty => MergeSecret(Empty, file.ws, fresh + 2) = file.ws
      BY <1>1, <2>1, <2>2, MergeSecretValue
    <2>. DEFINE given == IF cli.arg # NoPort THEN cli.arg
                         ELSE IF LoadSavedConfig.port # NoPort THEN LoadSavedConfig.port
                         ELSE DefaultPort
    <2>6. given \in Ports /\ (cli.arg # NoPort => given = cli.arg)
      BY <2>1, <2>2, <2>3
    <2>7. cli' = [cli EXCEPT !.stage = "merged", !.saved = LoadSavedConfig, !.port = given,
                             !.jwt = MergeSecret(cli.env, file.jwt, fresh + 1),
                             !.ws = MergeSecret(Empty, file.ws, fresh + 2)]
      BY <1>1 DEF Merge
    <2>. HIDE DEF given
    <2>. QED  BY <1>1, <2>4, <2>5, <2>6, <2>7
  <1>. QED  BY <1>2 DEF ConfigInv, TypeOK, Cli

LEMMA MergeInv ==
    ASSUME ConfigInv, Merge
    PROVE  ConfigInv'
  <1>1. /\ cli.stage = "locked" /\ cli'.stage = "merged" /\ fresh' = fresh + 2
        /\ UNCHANGED <<file, settings, saving, env, runs, last, chosen, disturbed>>
    BY MergeEffect DEF Merge
  <1>2. TypeOK'
    BY <1>1, MergeEffect DEF Merge, ConfigInv, TypeOK
  <1>3. HandOver'
    BY <1>1, MergeEffect DEF ConfigInv, HandOver, ServiceAsSet, AppGivesAll, ResetTakes, FullHasPort
  <1>4. Secrets'
    BY <1>1, MergeEffect
    DEF ConfigInv, Secrets, MergedHasSecrets, Merged, LastHasSecrets, TornIsEmpty,
        Undisturbed, FileKeepsLast
  <1>. QED  BY <1>2, <1>3, <1>4 DEF ConfigInv

\* luan truncates the file.
LEMMA OpenConfigInv ==
    ASSUME ConfigInv, OpenConfig
    PROVE  ConfigInv'
  <1>1. /\ cli' = [cli EXCEPT !.stage = "writing"] /\ cli.stage = "merged" /\ file' = Torn
        /\ cli' \in Cli /\ cli'.stage = "writing"
        /\ UNCHANGED <<settings, saving, env, fresh, runs, last, chosen, disturbed>>
    BY DEF OpenConfig, ConfigInv, TypeOK, Cli
  <1>2. TypeOK'
    BY <1>1, Files DEF ConfigInv, TypeOK
  <1>3. HandOver'
    BY <1>1, Files
    DEF ConfigInv, HandOver, ServiceAsSet, AppGivesAll, ResetTakes, FullHasPort,
        TypeOK, Cli
  <1>4. Secrets'
    BY <1>1
    DEF ConfigInv, Secrets, MergedHasSecrets, Merged, LastHasSecrets, TornIsEmpty,
        Undisturbed, FileKeepsLast, TypeOK, Cli
  <1>. QED  BY <1>2, <1>3, <1>4 DEF ConfigInv

\* What luan writes is what it uses from then on.
LEMMA WriteConfigInv ==
    ASSUME ConfigInv, WriteConfig
    PROVE  ConfigInv'
  <1>. DEFINE content == [kind |-> IF cli.saved.kind = "full" THEN "full" ELSE "cli",
                          port |-> IF cli.arg # NoPort THEN cli.arg ELSE DefaultPort,
                          jwt |-> cli.jwt, ws |-> cli.ws]
  <1>1. content \in Readable
    BY ConfigAssumption DEF ConfigInv, TypeOK, Cli, Readable, File, Kinds
  <1>2. /\ file' \in File
        /\ file'.kind = "torn" => file' = Torn
        /\ FullHasPort'
        /\ file = Torn => file'.jwt = cli.jwt /\ file'.ws = cli.ws
    <2>1. Fill(content)
      BY DEF WriteConfig, WriteWith
    <2>2. content.jwt = cli.jwt /\ content.ws = cli.ws /\ content.port # NoPort
      BY ConfigAssumption DEF NoPort
    <2>. QED  BY <1>1, <2>1, <2>2, FillKeeps
  <1>3. /\ cli' = [cli EXCEPT !.stage = "serving"] /\ cli.stage = "writing"
        /\ cli' \in Cli /\ cli'.stage = "serving"
        /\ last' = [jwt |-> cli.jwt, ws |-> cli.ws] /\ last' \in [jwt : Secret, ws : Secret]
        /\ chosen' \in Ports
        /\ UNCHANGED <<settings, saving, env, fresh, runs, disturbed>>
    BY DEF WriteConfig, WriteWith, ConfigInv, TypeOK, Cli
  <1>4. TypeOK'
    BY <1>3, <1>2 DEF ConfigInv, TypeOK
  <1>5. HandOver'
    BY <1>3, <1>2
    DEF ConfigInv, HandOver, ServiceAsSet, AppGivesAll, ResetTakes, FullHasPort,
        TypeOK, Cli
  <1>6. Secrets'
    BY <1>3, <1>2
    DEF ConfigInv, Secrets, MergedHasSecrets, Merged, LastHasSecrets, TornIsEmpty,
        Undisturbed, FileKeepsLast, TypeOK, Cli
  <1>. QED  BY <1>4, <1>5, <1>6 DEF ConfigInv

\* A process that ends in the middle of a write disturbs the file.
LEMMA ExitInv ==
    ASSUME ConfigInv, Exit
    PROVE  ConfigInv'
  <1>1. /\ cli' = Idle /\ Idle \in Cli
        /\ Idle.stage = "none" /\ Idle.env = Empty
        /\ disturbed' \in BOOLEAN /\ (~disturbed' => ~disturbed /\ cli.stage # "writing")
        /\ UNCHANGED <<file, settings, saving, env, fresh, runs, last, chosen>>
    BY Files, ConfigAssumption
    DEF Exit, ConfigInv, TypeOK, Idle, Cli, Secret, NoPort, Empty
  <1>2. TypeOK'
    BY <1>1 DEF ConfigInv, TypeOK
  <1>3. HandOver'
    BY <1>1
    DEF ConfigInv, HandOver, ServiceAsSet, AppGivesAll, ResetTakes, FullHasPort
  <1>4. Secrets'
    BY <1>1
    DEF ConfigInv, Secrets, MergedHasSecrets, Merged, LastHasSecrets, TornIsEmpty,
        Undisturbed, FileKeepsLast
  <1>. QED  BY <1>2, <1>3, <1>4 DEF ConfigInv

-------------------------------------------------------------------------------
(* The app. *)

\* No save is under way while the app reads the file, or the user edits.
LEMMA EditInv ==
    ASSUME ConfigInv,
           Load \/ (\E port \in Ports : EditPort(port)) \/ EditSecret \/ AppDies
    PROVE  ConfigInv'
  <1>1. /\ saving' \in {"no", "closed"} /\ env' \in {env, Empty} /\ Empty \in Secret
        /\ settings' \in [port : Ports, jwt : Secret] /\ fresh' \in Nat
        /\ last' \in [jwt : Secret, ws : Secret]
        /\ last'.jwt \in {Empty, last.jwt} /\ last'.ws = last.ws
        /\ UNCHANGED <<file, cli, runs, chosen, disturbed>>
    <2>1. CASE Load
      BY <2>1, ConfigAssumption
      DEF Load, ConfigInv, TypeOK, HandOver, FullHasPort, File, Kinds, Defaults, Secret, Empty
    <2>2. CASE \E port \in Ports : EditPort(port)
      BY <2>2 DEF EditPort, CanEdit, AppIdle, ConfigInv, TypeOK, Secret, Empty
    <2>3. CASE EditSecret
      BY <2>3 DEF EditSecret, CanEdit, AppIdle, ConfigInv, TypeOK, Secret, Empty
    <2>4. CASE AppDies
      BY <2>4, ConfigAssumption DEF AppDies, ConfigInv, TypeOK, Defaults, Secret, Empty
    <2>. QED  BY <2>1, <2>2, <2>3, <2>4
  <1>2. TypeOK'
    BY <1>1 DEF ConfigInv, TypeOK
  <1>3. HandOver'
    BY <1>1
    DEF ConfigInv, HandOver, ServiceAsSet, AppGivesAll, ResetTakes, FullHasPort
  <1>4. Secrets'
    BY <1>1
    DEF ConfigInv, Secrets, MergedHasSecrets, Merged, LastHasSecrets, TornIsEmpty,
        Undisturbed, FileKeepsLast
  <1>. QED  BY <1>2, <1>3, <1>4 DEF ConfigInv

\* The app truncates the file; a reset has its environment by then.
LEMMA OpenSaveInv ==
    ASSUME ConfigInv, Save \/ StartService \/ StartForReset
    PROVE  ConfigInv'
  <1>1. /\ saving' \in {"save", "start", "reset"} /\ file' = Torn /\ disturbed' = TRUE
        /\ settings' \in [port : Ports, jwt : Secret] /\ fresh' \in Nat /\ env' \in Secret
        /\ saving' = "reset" => env' \in {Empty, settings'.jwt}
        /\ UNCHANGED <<cli, runs, last, chosen>>
    BY DEF Save, StartService, StartForReset, EnsureSecretsAndSave, OpenSave, ConfigInv,
           TypeOK, Secret, Empty
  <1>2. TypeOK'
    BY <1>1, Files DEF ConfigInv, TypeOK
  <1>3. HandOver'
    BY <1>1, Files
    DEF ConfigInv, HandOver, ServiceAsSet, AppGivesAll, ResetTakes, FullHasPort
  <1>4. Secrets'
    BY <1>1
    DEF ConfigInv, Secrets, MergedHasSecrets, Merged, LastHasSecrets, TornIsEmpty,
        Undisturbed, FileKeepsLast
  <1>. QED  BY <1>2, <1>3, <1>4 DEF ConfigInv

\* The other half of the app's save.
LEMMA WriteSettingsKeeps ==
    ASSUME ConfigInv, NEW next \in {"save", "start", "reset"}, WriteSettings(next)
    PROVE  /\ file' \in File /\ (file'.kind = "torn" => file' = Torn)
           /\ FullHasPort'
           /\ saving = next /\ saving' = "no" /\ env' = Empty /\ Empty \in Secret
           /\ disturbed
  <1>. DEFINE content == [kind |-> "full", port |-> settings.port, jwt |-> settings.jwt,
                          ws |-> Empty]
  <1>1. content \in Readable
    BY DEF ConfigInv, TypeOK, Readable, File, Kinds, Secret, Empty
  <1>2. Fill(content)
    BY DEF WriteSettings
  <1>3. saving = next /\ saving' = "no" /\ env' = Empty /\ Empty \in Secret /\ disturbed
    BY DEF WriteSettings, ConfigInv, TypeOK, Secrets, Undisturbed, Secret, Empty
  <1>4. content.port # NoPort
    BY ConfigAssumption DEF ConfigInv, TypeOK, NoPort
  <1>. QED  BY <1>1, <1>2, <1>3, <1>4, FillKeeps

LEMMA SavedInv ==
    ASSUME ConfigInv, Saved
    PROVE  ConfigInv'
  <1>1. /\ file' \in File /\ (file'.kind = "torn" => file' = Torn)
        /\ FullHasPort' /\ saving' = "no" /\ env' = Empty /\ Empty \in Secret /\ disturbed
        /\ UNCHANGED <<settings, cli, fresh, runs, last, chosen, disturbed>>
    BY WriteSettingsKeeps DEF Saved
  <1>2. TypeOK'
    BY <1>1 DEF ConfigInv, TypeOK
  <1>3. HandOver'
    BY <1>1
    DEF ConfigInv, HandOver, ServiceAsSet, AppGivesAll, ResetTakes, FullHasPort
  <1>4. Secrets'
    BY <1>1
    DEF ConfigInv, Secrets, MergedHasSecrets, Merged, LastHasSecrets, TornIsEmpty,
        Undisturbed, FileKeepsLast
  <1>. QED  BY <1>2, <1>3, <1>4 DEF ConfigInv

\* The process is started with the settings that were saved, or with the
\* secret the reset had taken.
LEMMA StartedInv ==
    ASSUME ConfigInv, Started \/ StartedForReset
    PROVE  ConfigInv'
  <1>0. PICK next \in {"start", "reset"}, secret \in {Empty, settings.jwt} :
            SavedAndStarted(next, secret)
    BY DEF Started, StartedForReset, SavedAndStarted, WriteSettings, ConfigInv, HandOver,
           ResetTakes
  <1>1. /\ file' \in File /\ (file'.kind = "torn" => file' = Torn)
        /\ FullHasPort' /\ saving' = "no" /\ env' = Empty /\ Empty \in Secret /\ disturbed
        /\ UNCHANGED <<settings, fresh, last, chosen, disturbed>>
    BY <1>0, WriteSettingsKeeps DEF SavedAndStarted
  <1>2. \/ /\ cli' = [stage |-> "locked", by |-> "app", arg |-> settings.port,
                      env |-> secret, set |-> settings.jwt, saved |-> Absent,
                      port |-> DefaultPort, jwt |-> Empty, ws |-> Empty]
           /\ cli' \in Cli /\ runs' \in 0..MaxRuns
        \/ UNCHANGED <<cli, runs>>
    BY <1>0, <1>1, LaunchKeeps DEF SavedAndStarted, ConfigInv, TypeOK
  <1>3. settings.port # NoPort
    BY ConfigAssumption DEF ConfigInv, TypeOK, NoPort
  <1>4. TypeOK'
    BY <1>1, <1>2 DEF ConfigInv, TypeOK
  <1>5. HandOver'
    BY <1>1, <1>2, <1>3
    DEF ConfigInv, HandOver, ServiceAsSet, AppGivesAll, ResetTakes, FullHasPort
  <1>6. Secrets'
    BY <1>1, <1>2
    DEF ConfigInv, Secrets, MergedHasSecrets, Merged, LastHasSecrets, TornIsEmpty,
        Undisturbed, FileKeepsLast
  <1>. QED  BY <1>4, <1>5, <1>6 DEF ConfigInv

-------------------------------------------------------------------------------
(* The theorems. *)

LEMMA NextInv == ConfigInv /\ [Next]_vars => ConfigInv'
  <1>. SUFFICES ASSUME ConfigInv, [Next]_vars PROVE ConfigInv'
    OBVIOUS
  <1>1. CASE \E arg \in Ports \cup {NoPort} : StartByHand(arg)
    BY <1>1, StartByHandInv
  <1>2. CASE Merge \/ OpenConfig \/ WriteConfig \/ Exit
    BY <1>2, MergeInv, OpenConfigInv, WriteConfigInv, ExitInv
  <1>3. CASE Load \/ (\E port \in Ports : EditPort(port)) \/ EditSecret \/ AppDies
    BY <1>3, EditInv
  <1>4. CASE Save \/ StartService \/ StartForReset
    BY <1>4, OpenSaveInv
  <1>5. CASE Saved \/ Started \/ StartedForReset
    BY <1>5, SavedInv, StartedInv
  <1>6. CASE UNCHANGED vars
    BY <1>6
    DEF vars, progVars, ConfigInv, TypeOK, HandOver, ServiceAsSet, AppGivesAll, ResetTakes,
        FullHasPort, Secrets, MergedHasSecrets, Merged, LastHasSecrets, TornIsEmpty, Undisturbed,
        FileKeepsLast
  <1>. QED  BY <1>1, <1>2, <1>3, <1>4, <1>5, <1>6 DEF Next

LEMMA Invariance == Spec => []ConfigInv
  BY InitInv, NextInv, PTL DEF Spec

\* The file, the settings and the process keep their types.
THEOREM TypeCorrect == Spec => []TypeOK
  BY Invariance, PTL DEF ConfigInv

\* main.swift 224-226: a service the app starts runs with the port of the app,
\* and with its secrets if it had any when it took the environment, whatever
\* others write into the file, and however the writes are cut short.
THEOREM ServiceAsSetCorrect == Spec => []ServiceAsSet
  BY Invariance, PTL DEF ConfigInv, HandOver

\* main.swift 248-258: until the app or a crash disturbs the file, it holds
\* the secrets of the service that ran last.
THEOREM FileHoldsSecretsCorrect == Spec => []FileHoldsSecrets
  <1>1. ConfigInv => FileHoldsSecrets
    BY DEF ConfigInv, Secrets, LastHasSecrets, FileKeepsLast, FileHoldsSecrets
  <1>. QED  BY <1>1, Invariance, PTL

\* main.swift 248: without such a disturbance, every launch keeps the secrets
\* of the one before it.
THEOREM StableWithoutAppCorrect == Spec => StableWithoutApp
  <1>1. ConfigInv /\ [Next]_vars => [~disturbed => KeepsSecrets]_vars
    <2>. SUFFICES ASSUME ConfigInv, Next, ~disturbed,
                         cli.stage = "locked", cli'.stage = "merged"
                  PROVE  last.jwt \in {Empty, cli'.jwt} /\ last.ws \in {Empty, cli'.ws}
      BY DEF KeepsSecrets
    <2>1. Merge
      <3>. USE DEF ConfigInv, TypeOK, Cli
      <3>1. \A arg \in Ports \cup {NoPort} : ~StartByHand(arg)
        BY DEF StartByHand, Launch
      <3>2. ~OpenConfig /\ ~WriteConfig /\ ~Exit
        BY DEF OpenConfig, WriteConfig, WriteWith, Exit, Idle
      <3>3. ~Started /\ ~StartedForReset
        BY DEF Started, StartedForReset, SavedAndStarted, Launch
      <3>4. cli' # cli
        OBVIOUS
      <3>. QED
        BY <3>1, <3>2, <3>3, <3>4
        DEF Next, Load, EditPort, EditSecret, Save, StartService, StartForReset,
            EnsureSecretsAndSave, OpenSave, Saved, AppDies
    <2>2. cli.env = Empty /\ last.jwt \in {Empty, file.jwt} /\ last.ws \in {Empty, file.ws}
      BY DEF ConfigInv, Secrets, Undisturbed, FileKeepsLast
    <2>. QED  BY <2>1, <2>2, MergeEffect
  <1>. QED  BY <1>1, Invariance, PTL DEF Spec, StableWithoutApp
==============================================================================
