-------------------------------- MODULE Settings --------------------------------
(***************************************************************************)
(* The settings store, src/internal/settings/settings.go.  settings.json   *)
(* may be missing, written by an older version or edited by hand: Get      *)
(* makes valid settings of it, field by field.  Set reads the file, merges *)
(* a patch, and replaces the file, under a lock of its process; several    *)
(* processes of the program use one file.  The settings here are one of    *)
(* each sort: a word out of a list, a clamped number, a number with a      *)
(* special zero, a URL, and the providers with the default among them.     *)
(***************************************************************************)
EXTENDS Integers, Sequences, FiniteSets, SequencesExt, FiniteSetsExt, Ordered

CONSTANTS Processes, Threads,   \* callers of Set (bound)
          Texts,                \* what a field may say
          Bad,                  \* anything a field does not accept
          NaN,                  \* what is not a finite number
          AgentProviderMax, AgentModelsMax,
          RawFiles,             \* what settings.json may hold at first
          Patches               \* what Set may be given

VARIABLES file,   \* settings.json, as raw values, "missing", "array" or "corrupt"
          lock,   \* who holds the lock of each process
          call    \* the Set each caller is in

vars == <<file, lock, call>>

Setters == Processes \X Threads

-----------------------------------------------------------------------------
(* Fields.                                                                 *)

DefaultLanguage == "zh"

normalizeLanguage(word) == IF word \in {"en", "zh"} THEN word ELSE DefaultLanguage

(* A JSON value where a number is expected.                                *)
coerceNumber(raw) ==
    CASE raw.json = "number" -> raw.n
      [] raw.json = "true"   -> 1
      [] raw.json \in {"null", "false", "empty"} -> 0
      [] OTHER -> NaN

clampRound(lo, hi, n) == Min({hi, Max({lo, n})})

DefaultFontSize == 14

FontSizeMin == 10

FontSizeMax == 24

normalizeFontSize(n) == IF n = NaN THEN DefaultFontSize ELSE clampRound(FontSizeMin, FontSizeMax, n)

AgentContextWindowMin == 4096

AgentContextWindowMax == 1048576

(* Zero is no limit.                                                       *)
normalizeContextWindow(n) ==
    IF n = NaN \/ n = 0 THEN 0 ELSE clampRound(AgentContextWindowMin, AgentContextWindowMax, n)

DefaultURL == <<"default">>

(* A URL is a sequence of parts, spaces and slashes.                       *)
TrimRight(s, c) == SubSeq(s, 1, Max({0} \cup {i \in DOMAIN s : s[i] # c}))

normalizeURL(s) ==
    LET trimmed == TrimRight(TrimRight(s, "space"), "slash")
    IN  IF trimmed = <<>> \/ trimmed[1] = Bad THEN DefaultURL ELSE trimmed

-----------------------------------------------------------------------------
(* Providers.                                                              *)

Capped(s, n) == SubSeq(s, 1, Min({n, Len(s)}))

(* The elements of s whose names are accepted, each name once.             *)
Firsts(s, names) ==
    LET kept == Ascending({i \in DOMAIN s : names[i] # Bad /\ \A j \in 1 .. i - 1 : names[j] # names[i]})
    IN  [i \in DOMAIN kept |-> s[kept[i]]]

normalizeModelList(models) == Capped(Firsts(models, models), AgentModelsMax)

normalizeOneProvider(p) == [p EXCEPT !.models = normalizeModelList(p.models)]

normalizeProviderList(list) ==
    LET firsts == Firsts(list, [i \in DOMAIN list |-> list[i].id])
    IN  Capped([i \in DOMAIN firsts |-> normalizeOneProvider(firsts[i])], AgentProviderMax)

NoDefault == [id |-> Bad, model |-> Bad]

(* A default that is not in the list gives way to the first provider's     *)
(* first model; one that has no models is none.                            *)
normalizeAgentDefault(default, list) ==
    LET named == {i \in DOMAIN list : list[i].id = default.id}
        at    == IF named = {} THEN 1 ELSE Min(named)
        keeps == named # {} /\ Contains(list[at].models, default.model)
    IN  CASE list = <<>> -> NoDefault
          [] list # <<>> /\ keeps -> default
          [] list # <<>> /\ ~keeps /\ list[at].models # <<>>
               -> [id |-> list[at].id, model |-> list[at].models[1]]
          [] OTHER -> NoDefault

-----------------------------------------------------------------------------
(* The file.                                                               *)

Defaults == [language |-> DefaultLanguage, size |-> DefaultFontSize, window |-> 0,
             url |-> DefaultURL, providers |-> <<>>, default |-> NoDefault]

(* The provider of a file of an older version.                             *)
synthesiseLegacyProvider(url) == [id |-> "legacy", models |-> <<"model">>]

(* What is in the list is not a list of providers, or there is none.       *)
Listed(raw) ==
    CASE raw.has = "list"   -> normalizeProviderList(raw.providers)
      [] raw.has = "junk"   -> <<>>
      [] raw.has = "absent" -> <<synthesiseLegacyProvider(raw.url)>>

normalizeSettings(raw) ==
    [language  |-> normalizeLanguage(raw.language),
     size      |-> normalizeFontSize(coerceNumber(raw.size)),
     window    |-> normalizeContextWindow(coerceNumber(raw.window)),
     url       |-> normalizeURL(raw.url),
     providers |-> Listed(raw),
     default   |-> normalizeAgentDefault(raw.default, Listed(raw))]

(* Get.  A missing file and an array are defaults, without a provider.     *)
Get(f) == IF f.is = "object" THEN normalizeSettings(f.raw) ELSE Defaults

Readable(f) == f.is # "corrupt"

Number(n) == [json |-> "number", n |-> n]

(* What the file and a patch may hold, a field at a time.                  *)
Word == Texts \cup {Bad}

Scalar == [json: {"number", "true", "false", "null", "empty", "absent"}, n: Int]

Provider == [id: Word, models: Seq(Word)]

Choice == [id: Word, model: Word]

RawSettings == [language: Word, size: Scalar, window: Scalar, url: Seq(Word),
                has: {"list", "junk", "absent"}, providers: Seq(Provider), default: Choice]

SettingsFiles == [is: {"missing", "array", "corrupt", "object"}, raw: RawSettings]

Values == [language |-> Word, size |-> Int, window |-> Int, url |-> Seq(Word),
           providers |-> Seq(Provider), default |-> Choice]

IsPatch(p) == DOMAIN p \subseteq DOMAIN Values /\ \A f \in DOMAIN p : p[f] \in Values[f]

(* The settings as Set writes them.                                        *)
Object(s) == [is |-> "object",
              raw |-> [language |-> s.language, size |-> Number(s.size), window |-> Number(s.window),
                       url |-> s.url, has |-> "list", providers |-> s.providers,
                       default |-> s.default]]

-----------------------------------------------------------------------------
(* Set.                                                                    *)

Fields == DOMAIN Defaults

(* Mutant: what the patch does not name starts from the defaults.          *)
OverDefaults(now, patch) ==
    [f \in Fields |-> IF f \in DOMAIN patch THEN patch[f] ELSE Defaults[f]]

Over(now, patch) == [f \in Fields |-> IF f \in DOMAIN patch THEN patch[f] ELSE now[f]]

Merged(now, patch) ==
    LET all  == Over(now, patch)
        list == IF "providers" \in DOMAIN patch THEN normalizeProviderList(all.providers) ELSE all.providers
    IN  [language  |-> normalizeLanguage(all.language),
         size      |-> normalizeFontSize(all.size),
         window    |-> normalizeContextWindow(all.window),
         url       |-> normalizeURL(all.url),
         providers |-> list,
         default   |-> normalizeAgentDefault(all.default, list)]

Idle == [at |-> "idle"]

(* Mutant: Set does not take the lock.                                     *)
FreeAlways(p) == TRUE

Free(p) == lock[p] = Bad

(* A file that cannot be read fails Set before it begins.                  *)
SetReads(c, patch) ==
    /\ call[c].at = "idle" /\ Free(c[1]) /\ Readable(file)
    /\ lock' = [lock EXCEPT ![c[1]] = c[2]]
    /\ call' = [call EXCEPT ![c] = [at |-> "write", patch |-> DOMAIN patch,
                                    next |-> Merged(Get(file), patch), late |-> FALSE]]
    /\ UNCHANGED file

Returns(c) == lock' = [lock EXCEPT ![c[1]] = Bad]

(* Whoever has read the file in another process does not notice.           *)
SetWrites(c) ==
    /\ call[c].at = "write"
    /\ file' = Object(call[c].next)
    /\ call' = [d \in Setters |->
                  CASE d = c -> Idle
                    [] d # c /\ call[d].at = "write" /\ d[1] # c[1] -> [call[d] EXCEPT !.late = TRUE]
                    [] OTHER -> call[d]]
    /\ Returns(c)

(* The write fails, or the process ends before it: the file is replaced as *)
(* a whole or not at all.                                                  *)
SetFails(c) ==
    /\ call[c].at = "write"
    /\ call' = [call EXCEPT ![c] = Idle]
    /\ Returns(c) /\ UNCHANGED file

Init == /\ file \in RawFiles
        /\ lock = [p \in Processes |-> Bad]
        /\ call = [c \in Setters |-> Idle]

Next == \E c \in Setters : SetWrites(c) \/ SetFails(c) \/ \E patch \in Patches : SetReads(c, patch)

Spec == Init /\ [][Next]_vars

-----------------------------------------------------------------------------
Valid(s) ==
    /\ s.language \in {"en", "zh"} /\ s.size \in FontSizeMin .. FontSizeMax
    /\ s.window = 0 \/ s.window \in AgentContextWindowMin .. AgentContextWindowMax
    /\ Len(s.providers) <= AgentProviderMax
    /\ \A i, j \in DOMAIN s.providers : s.providers[i].id = s.providers[j].id => i = j
    /\ s.default = NoDefault \/ \E i \in DOMAIN s.providers :
         s.providers[i].id = s.default.id /\ Contains(s.providers[i].models, s.default.model)

(* Whatever is in the file, Get shows valid settings, and so does what a   *)
(* call is about to write.                                                 *)
ShownIsValid ==
    /\ Readable(file) => Valid(Get(file))
    /\ \A c \in Setters : call[c].at = "write" => Valid(call[c].next)

Writes(c) == call[c].at = "write" /\ call'[c].at = "idle" /\ file' # file

(* A default without models is shown as none, and once it is stored as     *)
(* none, the first provider takes its place.                               *)
Unstable(f, s) == \/ f = "default" /\ s.default = NoDefault
                  \/ f = "url" /\ Last(s.url) = "space"

(* A change of one setting leaves what is shown of every other as it was,  *)
(* even if the file was of an older version or damaged, except that the    *)
(* default follows the providers, and except when a Set of another process *)
(* came in between (settings.go:142-143, 201-204, 239-247).                *)
KeepsOthers ==
    \A c \in Setters :
      Writes(c) /\ ~call[c].late =>
        \A f \in Fields \ call[c].patch :
          \/ Get(file')[f] = Get(file)[f]
          \/ Unstable(f, Get(file))
          \/ f = "default" /\ "providers" \in call[c].patch

OthersKept == [][KeepsOthers]_vars

(* Both: what is shown is valid, and changes only where it was asked to.   *)
SettingsKept == []ShownIsValid /\ OthersKept

(* What the comment of Patch says (settings.go:142-143): "nil fields are   *)
(* left unchanged".                                                        *)
NilKept ==
    \A c \in Setters :
      Writes(c) /\ call[c].patch = {"language"} /\ ~call[c].late =>
        Get(file').default = Get(file).default

NilFieldsUnchanged == [][NilKept]_vars
=================================================================================
