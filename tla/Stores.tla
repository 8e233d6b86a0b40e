-------------------------------- MODULE Stores --------------------------------
(***************************************************************************)
(* What NodeShell keeps: secrets in the keyring, the host file beside      *)
(* them, the providers of the assistant and their keys, the settings file, *)
(* and the transcript of a conversation.  A behaviour exercises one of     *)
(* them, the focus; the variables of the others are None, or as they were. *)
(***************************************************************************)
EXTENDS CredentialStore, Integers

CONSTANTS None, Callers,
          Secrets,                                       \* of the hosts
          Legacy, Others, Old, Keys,                     \* of the providers
          Processes, Texts, Bad, NaN, AgentProviderMax, AgentModelsMax,
          RawFiles, Patches,                             \* of the settings
          MaxHistory, KeepMessages, KeepRounds, Threshold, Summary, NoteSize, Sizes,
          MaxCalls, MaxTurns, MaxPrompts                 \* of the transcript

ASSUME HostsAssumption == None \notin Secrets /\ Corrupt \notin Secrets /\ None # Corrupt

ASSUME ProvidersAssumption == None \notin Keys \cup Others \cup {Legacy} /\ Old \notin Others \cup {Legacy}

VARIABLES focus, cache, disk, secret, created, hostCall, crossed, unwritten,
          present, providers, default, keys, provCall, provRaced, broken, touched,
          file, lock, setCall,
          messages, produced, phase, compression, prompts

hostVars  == <<cache, disk, secret, created, hostCall, crossed, unwritten>>
provVars  == <<present, providers, default, keys, provCall, provRaced, broken, touched>>
setVars   == <<file, lock, setCall>>
talkVars  == <<messages, produced, phase, compression, prompts>>
allVars   == <<focus, vars, hostVars, provVars, setVars, talkVars>>

Hosts == INSTANCE HostCredentials WITH call <- hostCall

Providers == INSTANCE AgentProviders WITH call <- provCall, raced <- provRaced

Config == INSTANCE Settings WITH Threads <- Callers, call <- setCall

Talk == INSTANCE AgentTranscript

ASSUME SettingsAssumption ==
    /\ {"en", "zh", "default", "legacy", "model", "space", "slash"} \subseteq Texts
    /\ Bad \notin Texts \cup Callers /\ NaN \notin Int
    /\ AgentProviderMax \in Nat \ {0} /\ AgentModelsMax \in Nat \ {0}
    /\ RawFiles \subseteq Config!SettingsFiles /\ \A p \in Patches : Config!IsPatch(p)

ASSUME TranscriptAssumption ==
    /\ MaxHistory \in Nat /\ MaxCalls \in Nat /\ MaxPrompts \in Nat
    /\ KeepMessages \in Nat /\ KeepMessages >= 2 /\ KeepRounds \in Nat /\ KeepRounds >= 1
    /\ Sizes \subseteq Nat /\ Summary \in Nat /\ NoteSize \in Nat

-----------------------------------------------------------------------------
HostInit == IF focus = "hosts" THEN Hosts!Init
            ELSE /\ cache = None /\ disk = None /\ secret = None /\ created = None
                 /\ hostCall = None /\ crossed = None /\ unwritten = None

ProvInit == IF focus = "providers" THEN Providers!Init
            ELSE /\ present = None /\ providers = None /\ default = None /\ keys = None
                 /\ provCall = None /\ provRaced = None /\ broken = None /\ touched = None

SetInit == IF focus = "settings" THEN Config!Init
           ELSE file = None /\ lock = None /\ setCall = None

TalkInit == IF focus = "transcript" THEN Talk!Init
            ELSE /\ messages = None /\ produced = None /\ phase = None
                 /\ compression = None /\ prompts = None

StoresInit == /\ focus \in {"keyring", "hosts", "providers", "settings", "transcript"}
              /\ Init /\ HostInit /\ ProvInit /\ SetInit /\ TalkInit

Keyring == focus = "keyring" /\ Next /\ UNCHANGED <<focus, hostVars, provVars, setVars, talkVars>>

HostFile == focus = "hosts" /\ Hosts!Next /\ UNCHANGED <<focus, vars, provVars, setVars, talkVars>>

ProviderList == focus = "providers" /\ Providers!Next /\ UNCHANGED <<focus, vars, hostVars, setVars, talkVars>>

SettingsFile == focus = "settings" /\ Config!Next /\ UNCHANGED <<focus, vars, hostVars, provVars, talkVars>>

Transcript == focus = "transcript" /\ Talk!Next /\ UNCHANGED <<focus, vars, hostVars, provVars, setVars>>

StoresSpec == StoresInit /\ [][Keyring \/ HostFile \/ ProviderList \/ SettingsFile \/ Transcript]_allVars

-----------------------------------------------------------------------------
(* Of HostCredentials: no secret without a host, or it is known why.       *)
OrphansExplained == focus = "hosts" => Hosts!OrphansExplained

(* Of HostCredentials: a call that fails leaves the secret it found.       *)
FailureRestores == [][focus = "hosts" => Hosts!Restores]_allVars

(* Of AgentProviders: no key is lost, and none is left over.               *)
KeysKept == /\ [](focus = "providers" => Providers!TypeOK /\ Providers!KeysHaveProviders)
            /\ [][focus = "providers" => Providers!KeyStays]_allVars

(* Of Settings: what is shown is valid, and changes only where asked to.   *)
SettingsKept == /\ [](focus = "settings" => Config!ShownIsValid)
                /\ [][focus = "settings" => Config!KeepsOthers]_allVars

(* Of Settings, what the comment of Patch says: "nil fields are left       *)
(* unchanged" (settings.go:142-143).                                       *)
NilFieldsUnchanged == [][focus = "settings" => Config!NilKept]_allVars

(* Of AgentTranscript: every request is one a provider accepts.            *)
RequestsAccepted == focus = "transcript" => Talk!RequestsAccepted

(* Of AgentTranscript: a compaction keeps the prompt and the last round.   *)
CompactionKeeps == [][focus = "transcript" => Talk!KeepsLast]_allVars
================================================================================
